# Verification of qgis-schedulerd

`qgis-schedulerd` sits between a web server and a pool of QGIS FastCGI
processes. It forks the processes, initialises them with a simulated request,
hands each client connection to an idle one, replaces the ones that crash, and
ends them when a project changes or the daemon stops. It is one C program with
many POSIX threads that share an in-memory SQLite table, three condition
variables and a signal pipe; there are no tests in the repository.

## 1. Inventory

| component | file | state | operations | interacts with |
|---|---|---|---|---|
| process table | `database.c` | tables `projects` (name, watchd, nr_crashs) and `processes` (pid, project, list, state, signal time), one global mutex; the `idle_process` condition | every `db_*` function is one critical section | everybody |
| process manager | `process_manager.c` | starter threads, one thread per child being initialised | start (wait / detached), init a child, restart, SIGCHLD scan, cleanup | table, shutdown queue, OS |
| shutdown queue | `qgis_shutdown_queue.c` | the shutdown thread, `has_list_change`, `do_shutdown_thread`, `shutdowncondition` | scan the shutdown list: SIGTERM, SIGKILL, remove; add, notify, wait_empty | table, OS, main |
| connection manager | `connection_manager.c` | one thread per client connection, retry counter | find project, start a process if too few, take an idle process, connect, relay, set idle | table, process manager |
| project manager | `project_manager.c` | none of its own | start / stop / restart project, config file changed, manage config changes | table, process manager, inotify |
| inotify watcher | `qgis_inotify.c` | inotify fd, watcher thread, watch descriptors in the table | watch file, delete watch, event loop | project manager |
| main | `qgis-schedulerd.c` | event loop, signal pipe, `program_shutdown` flag (`qgis_config.c`) | SIGCHLD, SIGHUP, SIGTERM, accept, exit | everybody |
| configuration | `qgis_config.c` | dictionary, the lists of new, changed and deleted sections, config mutex | load, diff of sections, getters | main, readers in every thread |
| FastCGI parser | `fcgi_state.c`, `fcgi_data.c` | session, message, parameter list | incremental parse, write | connection and process manager |
| helpers | `timer.c`, `stringext.c`, `statistic.c`, `logger.c` | counters | arithmetic, buffers, logging | everybody |

The database mutex serialises single calls only: a decision (count, look up a
list, look up a project) and the update that follows it are separate critical
sections almost everywhere. That, and the fact that seven kinds of threads
update the same rows, is what makes the system hard. The behaviours to get right:

- **concurrency**: rows are moved between the lists by starter threads, by
  `restart_process` (called from three kinds of threads), by the config-change
  exchange and by SIGTERM; states are written by the initialising thread, the
  connection threads and the shutdown thread, unconditionally;
- **wakeups**: two condition variables, one with a flag (`has_list_change`) and
  one without;
- **failure**: a child may die at any point, also between `fork()` and the
  insertion of its row; SIGCHLDs merge; connecting to a child may fail and is
  retried;
- **timeouts**: SIGTERM, then SIGKILL, then giving up, each after a timeout;
  five seconds for an idle process; a read timeout during initialisation;
- **reload**: SIGHUP replaces the dictionary at once and the rows of table
  `projects` one after the other, while other threads read both;
- **fragmentation**: the network may cut a request anywhere; the parser keeps its
  place between two reads;
- **relaying**: two peers that send, stall, close and die on their own, behind
  four readiness flags, partial writes and signals;
- **exit**: main, the shutdown thread and the inotify thread wait for each other.

What makes each component correct: the table never serves one child to two
threads and lists only move forward; the process manager notices every death;
the shutdown queue signals every retired child and drops no row of a child it
did not end; the connection manager answers every client, chooses the project the
request asks for and relays every byte once and in order; a reload leaves the
table with the configured projects; main exits when told to, and leaves nothing
behind.

## 2. Modules

Each module of the daemon extends the one before it, as each C file calls the one
below it: `Kernel`, `Database`, then `ShutdownQueue` and `ProcessManager` on one
side, `Configuration` on the other, both in `ConnectionManager`, then `Scheduler`.

| module | models | state | actions |
|---|---|---|---|
| `Kernel` | fork, kill, death, SIGCHLD records (external) | `os`, `fd`, `sigchld`, `program_shutdown`, `exited` | `Forked`, `Die` |
| `Database` | `database.c` | a variable per column: `plist`, `pstate`, `pproj`, `psig`; `projects`, `watchd`, `nr_crashs` | operators named like the `db_*` functions, used by the actions above |
| `ShutdownQueue` | `qgis_shutdown_queue.c` | `spc`, `sscan`, `expired`, `has_list_change`, `do_shutdown_thread` | `BeginScan`, `CheckProcess`, `WeedOut`, `Decide`, `WaitTimesOut`, `WakeUp`, `DrainCheck` |
| `ProcessManager` | `process_manager.c` | starter threads (`tpc`...), initialising threads (`ipc`, `owner`), calls of `restart_process` (`rpc`, `rpid`) | start, exchange, activate; connect, read, fail; restart, move, notify |
| `Configuration` | `qgis_config.c` | `config` (a content per section), `sectionnew`, `sectionchange`, `sectiondelete` | `config_load` with the diff and the conversion of the lists to arrays |
| `ConnectionManager` | `connection_manager.c` between the request and the relay, and the idle condition | `hpc`, `hproj`, `hpid`, `hret`, `hans` per connection thread | count, take, wait, connect, retry, set idle |
| `Scheduler` | `qgis-schedulerd.c`, `project_manager.c`, `qgis_inotify.c`, composition | main's and the inotify thread's program counters and work lists | one per handler step, SIGHUP included; `Next` is the disjunction of the threads |
| `ProcessPool` | what the daemon promises about its children (abstract) | `life`, `stage`, `user` | `Fork`, `Join`, `Lend`, `GiveBack`, `Retire`, `Tell`, `End`, `Forget` |
| `SchedulerProperties` | properties, fairness, the mapping to `ProcessPool` | | |
| `FcgiSession` | `fcgi_state.c`, `fcgi_data.c`, and the choice of the project in `connection_manager.c` | the request, the data list, the message being parsed, the session | `Read`, `ReadFails`, `ParseMessage`, `ParseLost`, `EndOfChunk` |
| `Relay` | the relay of `connection_manager.c` and its two peers | readiness flags, the data list, bytes read and written, the sockets | one per branch of the loop; peers send, receive, leave, answer, close, die |
| `MCScheduler`, `MCFcgiSession`, `MCRelay` | values for TLC | | |
| `*Proofs` | theorems | | |

**How the three parts of a connection thread fit together.** The thread reads and
parses the request (`FcgiSession`), gets a child (`ConnectionManager`) and relays
(`Relay`). The parts share no state but the data list: `ChooseProject` of
`ConnectionManager` stands for the ends of `FcgiSession` that the daemon survives
(any configured project, or none), `RelayEnds` for those of `Relay` (the client had
its relay, was sent an abort, or was cut), after which the process is set idle.
`ConnEndsDaemon` stands for the others, in which an assertion, a `qexit()` or SIGPIPE
ends the daemon. `FcgiSession` and `Relay` are checked for one connection, because two
connections have nothing of this in common.

**Grain.** A step of the daemon's model is one critical section of the code, or one
system call. Steps are merged where no other thread could tell; the comments at the
head of `ShutdownQueue` and in `ProcessManager` give the reason each time. In
`FcgiSession` a step is one call of `fcgi_message_parse`, in `Relay` one branch of
the loop.

**Data.** `plist[p] = "none"` means that the table has no row for `p`. The states
START and INIT differ for no reader. A signal time is "zero", "time", or "wholesec"
(a reading with `tv_nsec = 0`), and `expired` holds the rows whose timeout has
passed: the clock is otherwise abstract. A section's content is an opaque value. A
record is its type, length, padding and parameters, a place in the stream is
<<record, offset>>, and a regular expression is the set of values it accepts. The
bytes of the relay are numbered.

**Faults.** A child may die at any point of its life and may ignore SIGTERM. A
parser that is out of step with the stream takes content for headers: what it
finds there is arbitrary, so it ends the daemon or goes to any state (`ParseLost`).
`poll()` may be interrupted, a `write()` may be short, peers may close or reset.
A signal
may also interrupt the `poll()` of a thread that initialises a child: no thread
blocks SIGCHLD or SIGHUP, and although Linux prefers the main thread, the kernel may
deliver either to any other. Failing pthread calls, `malloc`, `regexec()` and SQLite
errors end the program in the code and are left out.

**What ends the daemon.** An assertion, a `qexit()` or SIGPIPE that the program can
meet is an action which sets `exited` to "failure": `StartCheck` (the project of a
starter is gone, or `min_proc` is 0 and `assert(num > 0)` fails), `InitEndsDaemon` (a
buffer that is too small for the initial request, an assertion of the encoder, a child
that closes before a write), `ConnEndsDaemon`, `AddProcessAssertFails` and the failing
`db_add_project`. In `FcgiSession` `exited` is set by what the parser refuses, by an
expression that does not compile (`RegcompFails`), by a session without role or
request id; in `Relay` by SIGPIPE and by a first chunk shorter than a header
(`assert(parse_done > 0)`). What the daemon does until then is what the properties
are about; that it does not get there is claimed only where a property says so.

**Refinement.** `ProcessPool` knows children and connections, and no threads, lists
or states: a child is forked, lent to one connection at a time while it serves,
retired, told to end only when retired, and forgotten only when it has ended. The
mapping (`poolLife`, `poolStage`) reads the life of a child off `os` and its stage
off its list; a forked child without a row is starting while its thread is at
"add" and gone afterwards; `user` is `hpid`. `ImplementsPool` is checked by the run
`pool` and proved for every instance. The pool says nothing of two children at once:
that an exchange is not atomic is allowed by it (see the end of section 3).

## 3. Runs

| run | module | instance | checks | result |
|---|---|---|---|---|
| `pool` | `MCScheduler` | 1 crashing child, 2 clients, one attempt each, a project that is not configured | `TypeOK`, `ExclusiveUse`, `NoForgottenProcess`, `FaultyChildRetired`, `AnsweredOnce`, `StarterFindsProject`, `ImplementsPool` | hold |
| `exchange` | `MCScheduler` | 2 crashing children, 1 config change, signals on whole seconds and between them | `SignalledIsRetired`, `NoForgottenProcess`, `DeathNoticed`, `KillNotForgotten`, `RowRemovedOnlyWhenGone`, `ListsForwardOnly` | hold |
| `reload` | `MCScheduler` | 1 crashing child, 2 projects sharing a directory, one without a command, 1 SIGHUP that adds, changes and deletes at most one section each | `ReloadApplied`, `NoForgottenProcess` | hold |
| `liveness` | `MCScheduler` | 1 crashing child, SIGTERM, fair threads | `SignalledIsRetired`, `NoForgottenProcess`, `DrainGoesOn`, `JoinReturns`, `ExitAfterDrain`, `DeadIsNoticed`, `DeadRowRemoved`, `RetiredEnds`, `TermExits` | hold |
| `parser` | `MCFcgiSession` | 6 requests, every way to cut them into at most 3 reads | `TypeOK`, `HarmlessCutsDoNotMatter`, `RightProject` | hold |
| `relay` | `MCRelay` | 4 bytes of request, 3 of response, buffer of 2, three data lists, fair | `TypeOK`, `RequestInOrder`, `ResponseInOrder`, `WholeResponse`, `ReadinessNotStale`, `NothingHeldBack`, `Released` | hold |
| `overload` | `MCScheduler` | 1 child, 1 client | `OverloadOnlyWhenBusy` | violated |
| `unwatched` | `MCScheduler` | 1 child, no watched file, SIGTERM, fair | `TermExitsUnwatched` | violated |
| `orphans` | `MCScheduler` | 1 child, SIGTERM | `NoOrphans` | violated |
| `overlooked` | `MCScheduler` | 1 crashing child | `NoDeathOverlooked` | violated |
| `fragments` | `MCFcgiSession` | at most 2 reads | `CutsDoNotMatter` | violated |
| `sigpipe` | `MCRelay` | buffer of 1 | `FailsAlone` | violated |

The six violations are disagreements between the code and what its comments or its
manual page say:

- **overload**. The idle condition is signalled when a child becomes IDLE, while
  it is still in the init list where the woken client does not look; the move to
  the active list signals nobody who waits. The client, which waits only once,
  is refused although a process is idle ("All busy", `connection_manager.c:528`).
- **unwatched**. The inotify thread ends only on IN_IGNORED. If no config file
  is watched the event never comes and main waits forever in `pthread_join`.
- **orphans**. A starter that passed its check before SIGTERM forks after the
  lists were emptied; the daemon exits and the child stays ("kill all child
  processes", `qgis-schedulerd.c:830`).
- **overlooked**. A child that dies before its row is inserted can only be found by
  its initialising thread. If a signal interrupts that thread's `poll()`
  (`process_manager.c:109`; only ETIMEDOUT counts as a crash, line 356), it finds the
  child dead with `kill(pid, 0)` but only counts a failure (line 382): the row is
  activated with the others, and no SIGCHLD is left to come. The comment at 361 and
  the one at 379 ("start a new one if possible") say otherwise.
- **fragments**. A message counts as done when `bytes_read`, which includes the
  header, reaches the length of the content alone; and the rest of a header that was
  cut is stored at a wrong address. A request whose read() ends there is parsed
  differently from the same request in one piece (`fcgi_state.c:1107`).
- **sigpipe**. SIGPIPE is neither caught nor ignored: a peer that closes while the
  thread writes ends the daemon, and not "this thread normally"
  (`connection_manager.c:464`).

`HarmlessCutsDoNotMatter` says which cuts are safe: between two messages, or in the
content of a stream record while more than the length of a header is missing.

Three more disagreements are in the models but have no run of their own:

- `project_manager.c:86` promises to "atomically move the old processes to shutdown
  list and new processes to active list". The code has two critical sections
  (`process_manager.c:759-763`), the actions `ExchangeProcesses` and `Activate`; in
  between both generations are out of reach of a client.
- `config_convert_list_to_array` never advances its index (`qgis_config.c:592-602`), so
  main gets the last section of each list only: of two deleted projects one keeps its
  processes, of two new ones one is not started, against `qgis-schedulerd.man:41`.
  `ReloadApplied` fails in the instance of `reload` with `MaxSectionChanges = 2` and
  both projects configured at the start.
- `project_manager.c:68` and the comment at `process_manager.c:674` allow to start no
  process; `assert(num > 0)` (682) does not. With `min_proc` 0 the daemon ends at start.

Most liveness properties have a safety half, which says that no thread goes to sleep
on what is left to do, and which can be proved. These and other properties worth a word:

- `DeadIsNoticed` has `DeathNoticed`: while a dead child is in service its SIGCHLD
  is unread or some thread is on the way to its row. A starter inserts a row after
  the fork, so a SIGCHLD can be handled too early to see it; then the initialising
  thread finds out by itself. Both leave out the one case in which it does so in vain
  (`ipc[p] = "overlooked"`), which is the violation above.
- `AnsweredOnce` counts an answer when the session ends, not when it gets a child: a
  client has been relayed until a side closed, or was sent one abort. A third end,
  "cut", is what the code does without a word: `getsockopt()` fails on the client's
  socket (`connection_manager.c:711-726`), or a signal interrupts `poll()` (782-788).
- `StarterFindsProject` is about the `qexit()` of a starter without a project
  (`process_manager.c:695`). After a SIGTERM or SIGHUP a starter can cross with the
  removal of its project, and the daemon ends; before one it cannot.
- `RightProject` also says when the choice ends the daemon: exactly if an expression
  that comes before the first match does not compile, of the whole request as of the
  parameters read so far.
- `RowRemovedOnlyWhenGone` is weaker than the comment at `qgis_shutdown_queue.c:70`,
  which also wants the state IDLE, so that no thread works with the process any more.
- `RetiredEnds` has `NoForgottenProcess` and `KillNotForgotten`. The liveness
  property is checked with clock readings that have a fractional part. With
  "wholesec" in `ClockReadings` it fails: the query for the next timeout
  (`database.c:208`) skips a signal time whose nanoseconds are 0, and the SIGKILL is
  not sent until something else wakes the shutdown thread. `KillNotForgotten`, with
  both readings, says that this is the only signal overlooked.
- `TermExits` has `DrainGoesOn` (the shutdown thread does not sleep while main waits
  for it) and `JoinReturns` (the inotify thread has its last event when main joins
  it).
- `Released` has `ReadinessNotStale` (a socket taken for ready is still ready, so no
  read or write fails with EAGAIN, which would end the session) and `NothingHeldBack`
  (the thread blocks in `poll()` only when it has nothing to pass on).
- `NoOrphans` fails for a child that was never signalled; `ExitAfterDrain` is what
  holds: the daemon exits normally only after SIGTERM, and every child that got a
  SIGTERM is dead or got its SIGKILL.
- A client that found its child faulty asks for another one after
  `process_manager_restart_process`; `FaultyChildRetired` says that by then no
  starter, and no other caller, can have left the child in service.

**Bounds.** `Pid` bounds the forks of one run (a pid is never reused), `Starter`
the starter threads at one time (one created beyond that is never scheduled),
`Conn` the simultaneous clients, `MaxConfigChanges` the config events, `MaxReloads`
the SIGHUPs, `MaxSectionChanges` the sections one SIGHUP adds, changes or deletes,
`Crashing` the children that may die on their own, `MaxReads` the reads of a request
(the last one takes the rest). One child is enough for a race between the threads
that share it, two for an old and a new generation or a child and its replacement.
In `pool` a client has one attempt: with one child a second attempt finds no process
and ends by overload, so the abort after the last attempt, which
`AnsweredOnce` is about, is reached with one only. `pool` has 1.1 million states, `exchange`
1.5 million, `reload` 760 000; the runs take between seconds and two minutes. The
requests of `parser` are a record shorter and one longer than a header, two parameters
of one name, a body, another role, padding, an abort and a management record; one of
the sections has an expression that does not compile; three reads can cut a message
twice. The lengths of `relay` make the data list, the buffer and the rest
of the request end at different bytes, and one data list ends before the flags of
the begin record. All safety properties are proved for all values (section 4).
Symmetry is used on interchangeable children, starters and clients in the runs
without liveness.

**Deadlock** is checked in every run but `unwatched`: the daemon never gets stuck,
as either a thread can go on, a timeout can pass or the environment can act, and
after `exit()` the model stutters. In `unwatched` it really stops, in the join of
the inotify thread; there the wait is reported as the violated property.

**Fairness.** `FairThreads` of the daemon: weak fairness for each thread, as the
operating system schedules runnable threads and every blocking call of the code
either has a timeout or waits for a condition stated in the guard. `TimeoutPasses`
is strongly fair: time passes, also while the shutdown thread is repeatedly busy.
Nothing is assumed of children (they may ignore SIGTERM and survive SIGKILL),
clients, relays, config files or signals. Where several alternatives belong to one
thread (read succeeds or times out) fairness is on their disjunction. In `Relay` the
thread is weakly fair, and so are a client that is there, in sending its request and
taking the answer, and a child that is there, in reading, answering and closing when
it was not asked to keep the connection: the relay has no timeout, so without these
assumptions nothing would end it. Nothing forces a peer to leave or `poll()` to fail.

`DeadRowRemoved` is checked without clients. With them a weaker statement is true:
a connection thread that writes IDLE over EXIT (`database.c:1279`) leaves the dead
row until the next notification, and nothing forces one to come. What the shutdown
thread has done by then is part of `NoForgottenProcess`: the listening socket of
every process that it found dead is closed before it sleeps.

## 4. Proofs

The theorems hold for every set of pids, clients, starters and projects, every
number of reloads and config changes, every request and every length, under the
ASSUMEs next to the CONSTANTS (no pid is also a client, the retry limit is positive,
`MinProc` is a number, a request is a non-empty sequence of records, ...).

| module | theorem | states |
|---|---|---|
| `SchedulerTypeProofs` | `TypeCorrect` | `Spec => []TypeOK` |
| `LifeProofs` | `SignalledRetired` | `Spec => []SignalledIsRetired` |
| | `RowRemoval` | `Spec => RowRemovedOnlyWhenGone` |
| | `ListsForward` | `Spec => ListsForwardOnly` |
| | `SignalledRemembered` | `Spec => []KillNotForgotten` |
| | `DrainContinues` | `Spec => []DrainGoesOn` |
| `UseProofs` | `ExclusiveUseHolds` | `Spec => []ExclusiveUse` |
| | `RequestsAnswered` | `Spec => []AnsweredOnce` |
| `NoticeProofs` | `NothingForgotten` | `Spec => []NoForgottenProcess` |
| | `DeathsNoticed` | `Spec => []DeathNoticed` |
| | `FaultyRetired` | `Spec => []FaultyChildRetired` |
| `PoolProofs` | `PoolImplemented` | `Spec => ImplementsPool` |
| | `PromiseKept` | `Spec => []Pool!Promise` |
| | `ExitsDrained` | `Spec => []ExitAfterDrain` |
| `ReloadProofs` | `ReloadsApplied` | `Spec => []ReloadApplied`, if `Project` is finite and `MaxSectionChanges <= 1` |
| | `InotifyJoined` | `Spec => []JoinReturns`, under the same assumptions |
| | `StarterHasProject` | `Spec => []StarterFindsProject` |
| `FcgiProofs` | `TypeCorrect` | `Spec => []TypeOK` |
| | `ProjectCorrect` | `Spec => []RightProject` |
| | `CutsCorrect` | `Spec => []HarmlessCutsDoNotMatter` |
| `RelayProofs` | `TypeCorrect` | `Spec => []TypeOK` |
| | `RequestCorrect` | `Spec => []RequestInOrder` |
| | `ResponseOrdered` | `Spec => []ResponseInOrder` |
| | `ResponseComplete` | `Spec => []WholeResponse` |
| | `ReadinessTrue` | `Spec => []ReadinessNotStale` |
| | `SleepsOnlyIdle` | `Spec => []NothingHeldBack` |

Each proof of the daemon has a lemma per thread, with one step per action.

- **TypeInv** adds to `TypeOK` what makes it inductive: a starter knows its
  project and outlives the threads it joins; a row has a project; a running
  `restart_process` call has a pid; a connection thread holds a pid exactly in
  the middle of its work.
- **LifeInv** ties the kernel's view of a child to its row: a child exists exactly
  when its initialising thread does; before the insertion it has no row and no
  signal; what the scan still holds is in the shutdown list; a signalled child is
  in the shutdown list or has no row; state TERM means the child was signalled or
  is dead, KILL and EXIT mean it was sent SIGKILL or is dead; TERM and KILL have a
  signal time, EXIT a closed socket; and a row in one of these states is in the
  shutdown list. The state is what `RowRemoval` needs, because
  WeedOut looks at the state and not at the child. It survives the unconditional
  writes of IDLE because those only lose information.
- **SleepInv**: a signalled child with a row has a signal time; the shutdown thread
  sleeps without a timeout only if the query sees no signal time and main does not
  wait for the list to drain; it waits for a timeout only if there is one. Nobody
  but the thread itself writes signal times and deletes rows, and it does neither
  while it waits: so what it decided before `pthread_cond_wait` stays true.
- **UseInv**: no two connections hold the same pid; the initialising thread of a
  held pid has ended; a row in state IDLE belongs to a child whose initialisation
  has ended and that no connection holds. A connection takes only IDLE rows, so the
  third part keeps a second client away, and the second part is why the write of
  IDLE at the end of the initialisation cannot free a child in use.
- **AnswerInv**: until its session ends a thread has sent nothing, except that back
  at the loop head it has sent its abort exactly if no attempt is left. The counter is
  compared in two places (the loop head and `FAULTY_CHILD_RETRY`); the invariant says
  that they agree, so no thread leaves the loop in silence or tries again after an abort.
- **NoticeInv** has two parts. A `restart_process` call runs only while its caller
  is at the point of the call. And for a child in the shutdown list that the
  shutdown thread has neither signalled nor cleaned up, a notification is set or
  about to be sent, or the thread is before its scan (or already in its final phase),
  or the child is in what is left of the scan's snapshot. `NoForgottenProcess` is the
  special case "sleep", with SleepInv for the time of the signal.
- **DeathInv** is `DeathNoticed` with RestartedInv and RetiredInv. RestartedInv: who
  is restarted, probed or held has had its row inserted, and a thread restarts the
  child it was working with. RetiredInv: a child with a closed socket, one whose
  restart is about to notify and one whose restart has returned is out of service
  *and its row inserted*, which no step undoes (LifeStep). The second half is what
  closes the gap between `fork()` and `db_add_process`.
- **PoolInv** is TypeInv, LifeInv and UseInv together. For each action of the pool
  a lemma says which change of `os`, `plist`, `ipc` and `hpid` is that action, and
  each action of the daemon is matched with one of them or with the lemma for a step
  the pool does not see. LifeInv gives the guards of `Tell` and `Forget`, UseInv the
  one of `Lend`.
- **ReloadInv** follows main through a reload: the table lists the configured
  sections without the new ones main has not started yet, plus the deleted ones it
  has not shut down yet, minus the changed one between its removal and its restart.
  The lists stay apart, so no `db_add_project` meets a row. SIGHUP establishes it
  because lists of at most one section survive the conversion to arrays; this is
  the only use of the assumption on `MaxSectionChanges`.
- **StopInv** follows main through the stop: every project of the table is in main's
  work list or the one it works on, with the watch its config file has, and as long
  as no IN_IGNORED event came and the inotify thread has not ended, a project with a
  watched file is left. The last project of a directory drops the directory's watch
  (`db_get_num_watchd_from_watchd`), so the event is there when the list is empty.
  ReloadInv enters with the equality of table and configuration when SIGTERM is read.
- **CalmInv**: before the first SIGTERM or SIGHUP the table only grows, and every
  starter, row, connection and inotify event belongs to a project in it; so the
  check of a new starter always finds its project.
- **PlaceInv, SessionInv, RoleInv, ChoiceInv, SafeInv** (parser): every read ends at
  a place of the stream and an unfinished message is cut where a read ended; the
  session is what the records before the current one say; the role comes from the
  first record; the choice, and whether it ends the daemon, is made from the parameters
  parsed. `RightProject` then needs that the parameters parsed when the empty record
  arrives are all there are. SafeInv says that harmless cuts never lose the parser, and
  that nothing but the choice, for an expression that does not compile, ends the daemon.
- **Promise** (`ProcessPool`) is inductive together with the types of the pool's
  variables; the refinement carries it over to the daemon.
- **ExitInv**: main acts upon SIGTERM, and asks the shutdown thread to finish, only
  when the program shuts down; the thread is past its last look at the list only
  then; and from that look on no child is in its grace period. The look finds the
  shutdown list empty, a signalled child is in that list or has no row (LifeInv), and
  a child without a row has ended (Promise).
- **RequestInv, ResponseInv, ReadyInv** (relay): nothing is read past the data list before it
  is sent, and the child has exactly what was sent; a socket known to be readable
  stays so, and a thread that stops without an error has read all the child wrote. A
  pair of sockets known to be ready is served before the next `poll()`; this and the
  truth of the flags leave nothing to pass on where `poll()` blocks.

Only model-checked: the liveness properties `DeadIsNoticed`, `DeadRowRemoved`,
`RetiredEnds`, `TermExits` and `Released` (fairness and ENABLED are outside the
prover's reach). Every invariant, action property and refinement that a passing run
checks is proved; of the liveness properties the safety halves named in section 3
are. The run `liveness` has one project; that projects may share a directory and be
reloaded before `JoinReturns` is asked is covered by the proof.

## 5. Not modelled

- Of the configuration: include files, defaults, and global keys, which the code
  does not compare on a reload either; `min_proc`, the command and the config path
  of a project are constants.
- The encoder of FastCGI messages (`fcgi_param_list_write`, `fcgi_message_new_*`),
  which writes the one fixed request that initialises a child.
- A second termination signal queued before the default handlers are back, and the
  limit of the signal pipe.
- What a freed project name reads as after a SIGHUP (`connection_manager.c:375`),
  and reused pids and descriptors: `fd` belongs to a child for good, and closing it
  twice, which the code does when IDLE was written over EXIT
  (`process_manager.c:971-975`), has no effect.
- The request id of a record is part of its role ("none" if it is 0).
- `timer.c` (a signal time is unset, passed or not), `stringext.c`, `statistic.c`,
  `logger.c`: no decision of the daemon depends on more than is kept of them.
- SQL text, command line, daemonising, the pid file, SIGUSR1 and SIGUSR2.

PROJECT.json lists the hazards of this code with the properties that would catch
them, and for those without a property the reason.
