\* A client is refused while a process of its project is idle.
SPECIFICATION Spec
CONSTANTS
    Pid = {p1}
    NoPid = NoPid
    Crashing = {}
    Project = {pa}
    NoProject = NoProject
    Dir = {d1}
    NoDir = NoDir
    Setting = {v1}
    NoSection = NoSection
    FirstConfig <- MCAll
    MaxSectionChanges = 1
    ClockReadings = {"time"}
    Starter = {s1}
    NoStarter = NoStarter
    Conn = {h1}
    Main = Main
    MinProc <- MCMinOne
    WithCommand = {pa}
    max_nr_process_crashes = 5
    MAX_CHILD_COMMUNICATION_RETRY = 3
    WatchDir <- MCWatched
    MaxConfigChanges = 0
    MaxReloads = 0
    TermAllowed = FALSE
SYMMETRY Symmetry
PROPERTIES OverloadOnlyWhenBusy
