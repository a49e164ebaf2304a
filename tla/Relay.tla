-------------------------------- MODULE Relay --------------------------------
(* The end of a connection thread: it has read a part of the request         *)
(* (FcgiSession), has connected to a child, and now carries bytes between    *)
(* the web server ("network socket") and the child ("unix socket") with      *)
(* poll() and non-blocking reads and writes (connection_manager.c). Bytes    *)
(* are numbered; both peers act on their own. No signal handler and no       *)
(* MSG_NOSIGNAL keeps SIGPIPE from ending the daemon.                        *)
EXTENDS Integers, Sequences

CONSTANTS ReqLen,     \* bytes of the request
          RespLen,    \* bytes of the response
          Queues,     \* data lists: where each chunk that was read before ends
          HeaderLen,  \* bytes of a record's header
          FlagLen,    \* bytes up to the flags of the begin record
          BufferLen   \* maxbufsize: bytes of one read()

ASSUME LengthAssumption ==
    /\ ReqLen \in Nat /\ RespLen \in Nat /\ BufferLen \in Nat \ {0}
    /\ HeaderLen \in Nat /\ FlagLen \in Nat /\ HeaderLen < FlagLen
ASSUME QueueAssumption ==
    \A q \in Queues : /\ q \in Seq(1..ReqLen) /\ Len(q) > 0
                      /\ \A k \in 2..Len(q) : q[k - 1] < q[k]

VARIABLES pc,          \* prepare, poll, forward, back, close, done
          queue,       \* the data list
          iterator,    \* fcgi_data_iterator: its next chunk
          can_read_networksock, can_write_networksock,
          can_read_unixsock, can_write_unixsock,
          nread,       \* bytes of the request read from the network
          rread,       \* bytes of the response read from the child
          short,       \* a write() took less than it was given
          cut,         \* the thread stopped on an interrupt or an error
          exited       \* SIGPIPE or an assertion ended the daemon

VARIABLES client,      \* open, closed, reset (by its own), broken (write after close)
          csent,       \* bytes of the request the client has written
          netroom,     \* the network socket takes data
          toclient,    \* what the client has received
          child,       \* open, closed
          rmade,       \* bytes of the response the child has written
          unixroom,    \* the unix socket takes data
          tochild,     \* what the child has received
          keep         \* FCGI_KEEP_CONN in what the child gets

flags == <<can_read_networksock, can_write_networksock, can_read_unixsock, can_write_unixsock>>
clientVars == <<client, csent, netroom, toclient>>
childVars == <<child, rmade, unixroom, tochild, keep>>
vars == <<pc, queue, iterator, flags, nread, rread, short, cut, exited, clientVars, childVars>>

-----------------------------------------------------------------------------
Bytes(a, b) == [i \in 1..b - a |-> a + i]   \* the bytes after a, up to b

(* Mutant: the last chunk is not seen. *)
HasDataButLast == iterator < Len(queue)

HasData == iterator <= Len(queue)           \* fcgi_data_iterator_has_data
ChunkStart(k) == IF k = 1 THEN 0 ELSE queue[k - 1]

TypeOK ==
    /\ pc \in {"prepare", "poll", "forward", "back", "close", "done"}
    /\ queue \in Queues
    /\ iterator \in 1..Len(queue) + 1
    /\ can_read_networksock \in BOOLEAN /\ can_write_networksock \in BOOLEAN
    /\ can_read_unixsock \in BOOLEAN /\ can_write_unixsock \in BOOLEAN
    /\ nread \in 0..csent /\ csent \in 0..ReqLen
    /\ rread \in 0..rmade /\ rmade \in 0..RespLen
    /\ toclient \in Seq(Nat) /\ tochild \in Seq(Nat)
    /\ client \in {"open", "closed", "reset", "broken"}
    /\ child \in {"open", "closed"}
    /\ short \in BOOLEAN /\ cut \in BOOLEAN /\ exited \in BOOLEAN
    /\ netroom \in BOOLEAN /\ unixroom \in BOOLEAN /\ keep \in BOOLEAN

(* The bytes of the data list are read. Prepare comes before connect() in the *)
(* code; a child that closes is the same to the thread before it and after.   *)
Init ==
    /\ pc = "prepare"
    /\ queue \in Queues /\ iterator = 1
    /\ can_read_networksock = FALSE /\ can_write_networksock = FALSE
    /\ can_read_unixsock = FALSE /\ can_write_unixsock = FALSE
    /\ nread = queue[Len(queue)] /\ csent = nread
    /\ rread = 0 /\ rmade = 0
    /\ short = FALSE /\ cut = FALSE /\ exited = FALSE
    /\ client = "open" /\ child = "open"
    /\ netroom = TRUE /\ unixroom = TRUE
    /\ toclient = <<>> /\ tochild = <<>>
    /\ keep \in BOOLEAN

-----------------------------------------------------------------------------
(* The thread. *)

Goto(from, to) == pc = from /\ pc' = to

(* Mutant: the length of the buffer is taken for the bytes that were read. *)
ReadEndFull(from, sent) == from + BufferLen

(* read(): what has been sent, at most a buffer full. *)
ReadEnd(from, sent) == IF sent < from + BufferLen THEN sent ELSE from + BufferLen

(* Mutant: the flag stays. *)
PrepareAsIs ==
    /\ Goto("prepare", "poll")
    /\ exited' = (queue[1] < HeaderLen)
    /\ UNCHANGED <<queue, iterator, flags, nread, rread, short, cut, clientVars, childVars>>

(* FCGI_KEEP_CONN is deleted from the begin record in the first chunk, so    *)
(* that the child closes the connection when it is done. A first chunk that  *)
(* ends inside the header fails assert(parse_done > 0). It holds for a part  *)
(* of the record, and a flag that is not in that part is not deleted.        *)
Prepare ==
    /\ Goto("prepare", "poll")
    /\ exited' = (queue[1] < HeaderLen)
    /\ keep' = (keep /\ queue[1] < FlagLen)
    /\ UNCHANGED <<queue, iterator, flags, nread, rread, short, cut, clientVars,
                   child, rmade, unixroom, tochild>>

(* What poll() reports for the two sockets. *)
NetReadable == nread < csent \/ client # "open"
NetWritable == netroom \/ client # "open"
UnixReadable == rread < rmade \/ child = "closed"
UnixWritable == unixroom \/ child = "closed"

(* New data is not asked for while the data list is not yet sent. *)
PollNetIn == ~can_read_networksock /\ ~HasData

PollReturns ==
    \/ PollNetIn /\ NetReadable
    \/ ~can_write_networksock /\ NetWritable
    \/ ~can_read_unixsock /\ UnixReadable
    \/ ~can_write_unixsock /\ UnixWritable

(* poll(): only what is not known yet is asked for. *)
Poll ==
    /\ Goto("poll", "forward")
    /\ PollReturns
    /\ can_read_networksock' = (can_read_networksock \/ (PollNetIn /\ NetReadable))
    /\ can_write_networksock' = (can_write_networksock \/ NetWritable)
    /\ can_read_unixsock' = (can_read_unixsock \/ UnixReadable)
    /\ can_write_unixsock' = (can_write_unixsock \/ UnixWritable)
    /\ UNCHANGED <<queue, iterator, nread, rread, short, cut, exited, clientVars, childVars>>

(* send_fcgi_abort_to_web_client. A client that is gone answers the first    *)
(* write() with a reset, and the next one is SIGPIPE.                        *)
SendAbort ==
    /\ client' = IF client = "closed" THEN "broken" ELSE client
    /\ exited' = (client = "broken")
    /\ UNCHANGED <<csent, netroom, toclient>>

(* poll() fails with EINTR: any signal, as no thread blocks signals. *)
PollInterrupted ==
    /\ Goto("poll", "close")
    /\ cut' = TRUE
    /\ UNCHANGED <<queue, iterator, flags, nread, rread, short, exited, clientVars, childVars>>

(* poll() fails with EINVAL: too many files. *)
PollFails ==
    /\ Goto("poll", "close")
    /\ cut' = TRUE
    /\ SendAbort
    /\ UNCHANGED <<queue, iterator, flags, nread, rread, short, childVars>>

(* write() of the bytes after a, up to b, to the child: it takes some of     *)
(* them, and the rest is forgotten. The other end is closed: SIGPIPE.        *)
WriteChild(a, b) ==
    \/ /\ child = "closed"
       /\ exited' = TRUE /\ UNCHANGED <<short, tochild, unixroom>>
    \/ /\ child = "open"
       /\ \E n \in a + 1..b : tochild' = tochild \o Bytes(a, n) /\ short' = (short \/ n < b)
       /\ unixroom' \in BOOLEAN
       /\ UNCHANGED exited

ForwardQueue ==
    /\ Goto("forward", "back")
    /\ can_write_unixsock /\ HasData
    /\ WriteChild(ChunkStart(iterator), queue[iterator])
    /\ iterator' = iterator + 1
    /\ can_write_unixsock' = FALSE
    /\ UNCHANGED <<queue, can_read_networksock, can_write_networksock, can_read_unixsock, nread,
                   rread, cut, clientVars, child, rmade, keep>>

ForwardNetwork ==
    /\ Goto("forward", "back")
    /\ can_write_unixsock /\ ~HasData /\ can_read_networksock
    /\ nread < csent
    /\ LET b == ReadEnd(nread, csent)
       IN  nread' = b /\ WriteChild(nread, b)
    /\ can_read_networksock' = FALSE /\ can_write_unixsock' = FALSE
    /\ UNCHANGED <<queue, iterator, can_write_networksock, can_read_unixsock, rread, cut,
                   clientVars, child, rmade, keep>>

(* read() from the network returns 0 or an error: the client went away. *)
ForwardEnds ==
    /\ Goto("forward", "close")
    /\ can_write_unixsock /\ ~HasData /\ can_read_networksock
    /\ nread = csent
    /\ UNCHANGED <<queue, iterator, flags, nread, rread, short, cut, exited, clientVars, childVars>>

ForwardNothing ==
    /\ Goto("forward", "back")
    /\ ~can_write_unixsock \/ (~HasData /\ ~can_read_networksock)
    /\ UNCHANGED <<queue, iterator, flags, nread, rread, short, cut, exited, clientVars, childVars>>

(* write() of the bytes after a, up to b, to the client; see SendAbort.      *)
WriteClient(a, b) ==
    \/ /\ client = "open"
       /\ \E n \in a + 1..b : toclient' = toclient \o Bytes(a, n) /\ short' = (short \/ n < b)
       /\ netroom' \in BOOLEAN
       /\ UNCHANGED <<client, exited>>
    \/ /\ client = "closed"
       /\ client' = "broken"
       /\ UNCHANGED <<short, toclient, netroom, exited>>
    \/ /\ client = "broken"
       /\ exited' = TRUE /\ UNCHANGED <<short, client, toclient, netroom>>

(* Mutant: the response is read although the client does not take it. *)
BackwardUnchecked ==
    /\ Goto("back", "poll")
    /\ can_read_unixsock
    /\ rread < rmade
    /\ LET b == ReadEnd(rread, rmade)
       IN  /\ rread' = b
           /\ IF can_write_networksock THEN WriteClient(rread, b)
                                       ELSE UNCHANGED <<short, client, toclient, netroom, exited>>
    /\ can_read_unixsock' = FALSE /\ can_write_networksock' = FALSE
    /\ UNCHANGED <<queue, iterator, can_read_networksock, can_write_unixsock, nread, cut, csent,
                   childVars>>

(* Mutant: the network socket is taken for writable until poll() is asked. *)
BackwardAgain ==
    /\ Goto("back", "poll")
    /\ can_read_unixsock /\ can_write_networksock
    /\ rread < rmade
    /\ LET b == ReadEnd(rread, rmade)
       IN  rread' = b /\ WriteClient(rread, b)
    /\ can_read_unixsock' = FALSE
    /\ UNCHANGED <<queue, iterator, can_read_networksock, can_write_networksock,
                   can_write_unixsock, nread, cut, csent, childVars>>

Backward ==
    /\ Goto("back", "poll")
    /\ can_read_unixsock /\ can_write_networksock
    /\ rread < rmade
    /\ LET b == ReadEnd(rread, rmade)
       IN  rread' = b /\ WriteClient(rread, b)
    /\ can_read_unixsock' = FALSE /\ can_write_networksock' = FALSE
    /\ UNCHANGED <<queue, iterator, can_read_networksock, can_write_unixsock, nread, cut, csent,
                   childVars>>

(* The client reset the connection: write() fails with ECONNRESET. *)
BackwardReset ==
    /\ Goto("back", "close")
    /\ can_read_unixsock /\ can_write_networksock
    /\ rread < rmade /\ client = "reset"
    /\ rread' = ReadEnd(rread, rmade)
    /\ UNCHANGED <<queue, iterator, flags, nread, short, cut, exited, clientVars, childVars>>

(* Mutant: a child that hung up is not read any more. *)
BackwardHangup ==
    /\ Goto("back", "close")
    /\ can_read_unixsock
    /\ child = "closed"
    /\ UNCHANGED <<queue, iterator, flags, nread, rread, short, cut, exited, clientVars, childVars>>

(* read() from the child returns 0: it closed the connection. *)
BackwardEnds ==
    /\ Goto("back", "close")
    /\ can_read_unixsock /\ can_write_networksock
    /\ rread = rmade
    /\ UNCHANGED <<queue, iterator, flags, nread, rread, short, cut, exited, clientVars, childVars>>

(* The child closed before it read everything: read() fails with ECONNRESET. *)
BackwardFails ==
    /\ Goto("back", "close")
    /\ can_read_unixsock /\ can_write_networksock
    /\ rread = rmade /\ child = "closed"
    /\ SendAbort
    /\ UNCHANGED <<queue, iterator, flags, nread, rread, short, cut, childVars>>

BackwardNothing ==
    /\ Goto("back", "poll")
    /\ ~can_read_unixsock \/ ~can_write_networksock
    /\ UNCHANGED <<queue, iterator, flags, nread, rread, short, cut, exited, clientVars, childVars>>

(* close() the child's socket, set the process idle, close the client's. *)
Close ==
    /\ Goto("close", "done")
    /\ UNCHANGED <<queue, iterator, flags, nread, rread, short, cut, exited, clientVars, childVars>>

Thread ==
    /\ ~exited
    /\ \/ Prepare \/ Poll
       \/ ForwardQueue \/ ForwardNetwork \/ ForwardEnds \/ ForwardNothing
       \/ Backward \/ BackwardReset \/ BackwardEnds \/ BackwardFails
       \/ BackwardNothing
       \/ Close

PollError == ~exited /\ (PollInterrupted \/ PollFails)

-----------------------------------------------------------------------------
(* The peers. *)

Alive == pc # "done" /\ ~exited
threadVars == <<pc, queue, iterator, flags, nread, rread, short, cut, exited>>

ClientSends ==
    /\ Alive /\ client = "open" /\ csent < ReqLen
    /\ csent' = csent + 1
    /\ UNCHANGED <<threadVars, client, netroom, toclient, childVars>>

ClientReceives ==
    /\ Alive /\ client = "open" /\ ~netroom
    /\ netroom' = TRUE
    /\ UNCHANGED <<threadVars, client, csent, toclient, childVars>>

ClientLeaves ==
    /\ Alive /\ client = "open"
    /\ client' \in {"closed", "reset"}
    /\ UNCHANGED <<threadVars, csent, netroom, toclient, childVars>>

ChildReceives ==
    /\ Alive /\ child = "open" /\ ~unixroom
    /\ unixroom' = TRUE
    /\ UNCHANGED <<threadVars, clientVars, child, rmade, tochild, keep>>

(* It answers once it has the whole request. *)
ChildResponds ==
    /\ Alive /\ child = "open"
    /\ tochild = Bytes(0, ReqLen) /\ rmade < RespLen
    /\ rmade' = rmade + 1
    /\ UNCHANGED <<threadVars, clientVars, child, unixroom, tochild, keep>>

ChildCloses ==
    /\ Alive /\ child = "open"
    /\ rmade = RespLen /\ ~keep
    /\ child' = "closed"
    /\ UNCHANGED <<threadVars, clientVars, rmade, unixroom, tochild, keep>>

ChildDies ==
    /\ Alive /\ child = "open"
    /\ child' = "closed"
    /\ UNCHANGED <<threadVars, clientVars, rmade, unixroom, tochild, keep>>

Ended == ~Alive /\ UNCHANGED vars

Next ==
    \/ Thread \/ PollError
    \/ ClientSends \/ ClientReceives \/ ClientLeaves
    \/ ChildReceives \/ ChildResponds \/ ChildCloses \/ ChildDies
    \/ Ended

Spec == Init /\ [][Next]_vars

(* The thread runs; a client sends its request and takes the answer, a child *)
(* works on what it got, as long as they are there.                          *)
FairSpec == Spec /\ WF_vars(Thread) /\ WF_vars(ClientSends) /\ WF_vars(ClientReceives)
                 /\ WF_vars(ChildReceives) /\ WF_vars(ChildResponds) /\ WF_vars(ChildCloses)

-----------------------------------------------------------------------------
(* Properties. *)

(* As long as every write() took everything, the child has received a        *)
(* beginning of the request, every byte once and in order, whether it came   *)
(* from the data list or directly from the network.                          *)
RequestInOrder == ~short => tochild = Bytes(0, Len(tochild))

(* The same for the response. *)
ResponseInOrder == client = "open" /\ ~short => toclient = Bytes(0, rread)

(* A client that stays gets the whole response that a child wrote before it  *)
(* closed the connection: what is still in the socket is not forgotten.      *)
WholeResponse ==
    pc = "done" /\ client = "open" /\ ~short /\ ~cut => toclient = Bytes(0, rmade)

(* What the thread remembers of an earlier poll() is still true when it uses *)
(* it: no read() or write() on a non-blocking socket finds EAGAIN, which the *)
(* code takes for a network error that ends the session, although both peers *)
(* move on in between and one poll() may serve several rounds.               *)
ReadinessNotStale ==
    pc \in {"poll", "forward", "back"} =>
        /\ can_read_networksock => NetReadable
        /\ can_write_networksock => NetWritable
        /\ can_read_unixsock => UnixReadable
        /\ can_write_unixsock => UnixWritable

(* When the thread sleeps in poll() it holds nothing back: a child that      *)
(* takes data has got all that the client has sent, a client that takes data *)
(* all that the child has written, although poll() is not asked for a socket *)
(* that is known to be ready. A byte for which nobody wakes the thread would *)
(* stop both sides for good.                                                 *)
NothingHeldBack ==
    pc = "poll" /\ ~PollReturns /\ ~short =>
        /\ child = "open" /\ unixroom => Len(tochild) = csent
        /\ client = "open" /\ netroom => Len(toclient) = rmade

(* The thread, and with it the process, is released in the end, also when    *)
(* the web server asked for FCGI_KEEP_CONN, if the first read() brought the  *)
(* flags of the begin record.                                                *)
Released == queue[1] >= FlagLen => <>(pc = "done" \/ short \/ exited)

(* connection_manager.c: a network error on the inet socket or on the child  *)
(* socket ends "this thread normally". Broken: a write to a closed socket    *)
(* raises SIGPIPE, which ends the daemon.                                    *)
FailsAlone == ~exited
=============================================================================
