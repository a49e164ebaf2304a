\* SIGTERM when no project names a config file. The daemon really stops moving
\* here (main waits for the inotify thread for ever): the run shows the wait as
\* the violation of TermExitsUnwatched, not as a deadlock.
SPECIFICATION FairSpec
CONSTANTS
    Pid = {p1}
    NoPid = NoPid
    Crashing = {}
    Project = {pa}
    NoProject = NoProject
    Dir = {d1}
    NoDir = NoDir
    Setting = {v1}
    NoSection = NoSection
    FirstConfig <- MCAll
    MaxSectionChanges = 1
    ClockReadings = {"time"}
    Starter = {s1}
    NoStarter = NoStarter
    Conn = {}
    Main = Main
    MinProc <- MCMinOne
    WithCommand = {pa}
    max_nr_process_crashes = 5
    MAX_CHILD_COMMUNICATION_RETRY = 3
    WatchDir <- MCUnwatched
    MaxConfigChanges = 0
    MaxReloads = 0
    TermAllowed = TRUE
PROPERTIES TermExitsUnwatched
CHECK_DEADLOCK FALSE
