\* A config change replaces the children of a project while they crash.
SPECIFICATION Spec
CONSTANTS
    Pid = {p1, p2}
    NoPid = NoPid
    Crashing = {p1, p2}
    Project = {pa}
    NoProject = NoProject
    Dir = {d1}
    NoDir = NoDir
    Setting = {v1}
    NoSection = NoSection
    FirstConfig <- MCAll
    MaxSectionChanges = 1
    ClockReadings = {"time", "wholesec"}
    Starter = {s1}
    NoStarter = NoStarter
    Conn = {}
    Main = Main
    MinProc <- MCMinOne
    WithCommand = {pa}
    max_nr_process_crashes = 2
    MAX_CHILD_COMMUNICATION_RETRY = 3
    WatchDir <- MCWatched
    MaxConfigChanges = 1
    MaxReloads = 0
    TermAllowed = FALSE
SYMMETRY Symmetry
INVARIANTS SignalledIsRetired NoForgottenProcess DeathNoticed KillNotForgotten
PROPERTIES RowRemovedOnlyWhenGone ListsForwardOnly
