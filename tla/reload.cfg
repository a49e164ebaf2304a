\* SIGHUP at any time: projects come, change and go; two of them share a directory.
SPECIFICATION Spec
CONSTANTS
    Pid = {p1}
    NoPid = NoPid
    Crashing = {p1}
    Project = {pa, pb}
    NoProject = NoProject
    Dir = {d1}
    NoDir = NoDir
    Setting = {v1, v2}
    NoSection = NoSection
    FirstConfig <- MCFirst
    MaxSectionChanges = 1
    ClockReadings = {"time"}
    Starter = {s1}
    NoStarter = NoStarter
    Conn = {}
    Main = Main
    MinProc <- MCMinOne
    WithCommand = {pa}
    max_nr_process_crashes = 5
    MAX_CHILD_COMMUNICATION_RETRY = 3
    WatchDir <- MCWatched
    MaxConfigChanges = 0
    MaxReloads = 1
    TermAllowed = FALSE
SYMMETRY Symmetry
INVARIANTS ReloadApplied NoForgottenProcess
