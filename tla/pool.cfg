\* Two clients compete for one child that may crash at any time; a section pb is not configured.
SPECIFICATION Spec
CONSTANTS
    Pid = {p1}
    NoPid = NoPid
    Crashing = {p1}
    Project = {pa, pb}
    NoProject = NoProject
    Dir = {d1}
    NoDir = NoDir
    Setting = {v1}
    NoSection = NoSection
    FirstConfig <- MCFirst
    MaxSectionChanges = 1
    ClockReadings = {"time"}
    Starter = {s1}
    NoStarter = NoStarter
    Conn = {h1, h2}
    Main = Main
    MinProc <- MCMinOne
    WithCommand = {pa}
    max_nr_process_crashes = 5
    MAX_CHILD_COMMUNICATION_RETRY = 1
    WatchDir <- MCWatched
    MaxConfigChanges = 0
    MaxReloads = 0
    TermAllowed = FALSE
SYMMETRY Symmetry
INVARIANTS TypeOK ExclusiveUse NoForgottenProcess FaultyChildRetired AnsweredOnce
           StarterFindsProject
PROPERTIES ImplementsPool
