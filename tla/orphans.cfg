\* What is left of the children when the daemon exits.
SPECIFICATION Spec
CONSTANTS
    Pid = {p1}
    NoPid = NoPid
    Crashing = {}
    Project = {pa}
    NoProject = NoProject
    Dir = {d1}
    NoDir = NoDir
    Setting = {v1}
    NoSection = NoSection
    FirstConfig <- MCAll
    MaxSectionChanges = 1
    ClockReadings = {"time"}
    Starter = {s1}
    NoStarter = NoStarter
    Conn = {}
    Main = Main
    MinProc <- MCMinOne
    WithCommand = {pa}
    max_nr_process_crashes = 5
    MAX_CHILD_COMMUNICATION_RETRY = 3
    WatchDir <- MCWatched
    MaxConfigChanges = 0
    MaxReloads = 0
    TermAllowed = TRUE
SYMMETRY Symmetry
INVARIANTS NoOrphans
