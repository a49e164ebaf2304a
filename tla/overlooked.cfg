\* A signal interrupts the initialising thread of a dead child.
SPECIFICATION Spec
CONSTANTS
    Pid = {p1}
    NoPid = NoPid
    Crashing = {p1}
    Project = {pa}
    NoProject = NoProject
    Dir = {d1}
    NoDir = NoDir
    Setting = {v1}
    NoSection = NoSection
    FirstConfig <- MCAll
    MaxSectionChanges = 1
    ClockReadings = {"time"}
    Starter = {s1}
    NoStarter = NoStarter
    Conn = {}
    Main = Main
    MinProc <- MCMinOne
    WithCommand = {pa}
    max_nr_process_crashes = 5
    MAX_CHILD_COMMUNICATION_RETRY = 3
    WatchDir <- MCWatched
    MaxConfigChanges = 0
    MaxReloads = 0
    TermAllowed = FALSE
SYMMETRY Symmetry
INVARIANTS NoDeathOverlooked
