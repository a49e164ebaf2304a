----------------------------- MODULE FcgiSession -----------------------------
(* How a connection thread reads a request: read(), the incremental FastCGI  *)
(* parser (fcgi_state.c) and the choice of the project                       *)
(* (connection_manager.c). The byte stream is given by its records, a place  *)
(* in it by <<record, offset>>; which bytes arrive with one read() is up to  *)
(* the network.                                                              *)
EXTENDS Integers, Sequences

CONSTANTS Requests,   \* what web servers send: sequences of records
          Sections,   \* the projects in the order of the configuration; an
                      \* expression is the values it matches, if it compiles
          NoProject,
          Key, Value, \* names and values of parameters
          MaxReads    \* bound: reads per request; the last one takes the rest

HeaderLen == 8          \* sizeof(FCGI_Header)
BeginBodyLen == 8       \* sizeof(FCGI_BeginRequestBody), also of the end body

Streams == {"params", "stdin", "stdout", "stderr", "data"}
Bodies == {"begin", "end"}
Types == Streams \cup Bodies \cup {"abort", "get_values"}

Roles == {"none", "responder", "authorizer", "filter"}
SessionStates == {"INIT", "RUNNING", "PARAMS_DONE", "END"}

(* What fcgi_param_parse finds in the content of a params record. Pairs end  *)
(* where the content ends: a pair that goes on in the next record is dropped. *)
Param == [name: Key, value: Value]

(* role: of a begin record, "none" if its role or its request id is 0; pairs: *)
(* the parameters that a params record holds; pad: bytes after the content.  *)
Record == [type: Types, role: Roles, len: Nat, pad: Nat, pairs: Seq(Param)]

ASSUME RequestAssumption == \A r \in Requests : r \in Seq(Record) /\ Len(r) > 0
ASSUME ReadsAssumption == MaxReads \in Nat \ {0}

VARIABLES req,        \* the request this client sends
          datalist,   \* fcgi_data_list: where each chunk read so far ends
          pc,         \* read, parse, done
          mrec,       \* the record where the last message of messlist began, 0: none
          bytes_read, \* of that message
          parse_done, \* of that message
          state,      \* session state
          role,       \* session role, none before the begin record
          paramlist,  \* records whose parameters were added, in their order
          lost,       \* the parser takes something else than a header for one
          project,    \* request_project_name
          exited      \* assert() or qexit() ended the daemon

vars == <<req, datalist, pc, mrec, bytes_read, parse_done, state, role, paramlist, lost,
          project, exited>>
messageVars == <<mrec, bytes_read, parse_done>>
sessionVars == <<state, role, paramlist>>

-----------------------------------------------------------------------------
(* The stream. *)

MessageLen(record) == HeaderLen + record.len
Start == <<1, 0>>
End == <<Len(req) + 1, 0>>
Offsets(r, i) == IF i > Len(r) THEN {0} ELSE 0..MessageLen(r[i]) + r[i].pad - 1
Before(a, b) == a[1] < b[1] \/ (a[1] = b[1] /\ a[2] < b[2])

Received == IF datalist = <<>> THEN Start ELSE datalist[Len(datalist)]

(* Where the next byte to parse is, and the message it goes to. *)
Current == IF parse_done THEN mrec + 1 ELSE mrec
Offset == IF parse_done THEN 0 ELSE bytes_read

TypeOK ==
    /\ req \in Requests
    /\ datalist \in Seq(Nat \X Nat) /\ Len(datalist) <= MaxReads
    /\ pc \in {"read", "parse", "done"}
    /\ mrec \in 0..Len(req)
    /\ bytes_read \in Nat /\ (mrec > 0 => bytes_read <= MessageLen(req[mrec]))
    /\ parse_done \in BOOLEAN
    /\ state \in SessionStates
    /\ role \in Roles
    /\ paramlist \subseteq 1..Len(req)
    /\ lost \in BOOLEAN
    /\ exited \in BOOLEAN

(* fcgi_session_new: an empty message list. *)
Init ==
    /\ req \in Requests
    /\ datalist = <<>>
    /\ pc = "read"
    /\ mrec = 0 /\ bytes_read = 0 /\ parse_done = TRUE
    /\ state = "INIT" /\ role = "none" /\ paramlist = {}
    /\ lost = FALSE
    /\ project = NoProject
    /\ exited = FALSE

-----------------------------------------------------------------------------
(* read() on the network socket, blocking. *)

(* Some bytes more, up to place p; they are kept for the child. *)
Read(p) ==
    /\ pc = "read" /\ Before(Received, p)
    /\ Len(datalist) < MaxReads
    /\ Len(datalist) = MaxReads - 1 => p = End
    /\ datalist' = Append(datalist, p)
    /\ pc' = "parse"
    /\ UNCHANGED <<req, messageVars, sessionVars, lost, project, exited>>

(* End of file or an error: no project, the client is answered with an abort. *)
ReadFails ==
    /\ pc = "read"
    /\ pc' = "done"
    /\ UNCHANGED <<req, datalist, messageVars, sessionVars, lost, project, exited>>

-----------------------------------------------------------------------------
(* fcgi_session_parse: one call of fcgi_message_parse per step. *)

(* Mutant: one byte of the next message is read, too. *)
AvailableOneMore(i, b) ==
    IF Received[1] > i THEN MessageLen(req[i]) - b + 1 ELSE Received[2] - b

(* Bytes of message i, of which b are read, that this read() brought: to the *)
(* end of the message or of the chunk.                                       *)
Available(i, b) ==
    IF Received[1] > i \/ Received[2] > MessageLen(req[i]) THEN MessageLen(req[i]) - b
                                                           ELSE Received[2] - b

(* qexit() for an unknown type, assert() for a wrong content length. *)
HeaderRefused(i) ==
    \/ req[i].type \notin Streams \cup Bodies \cup {"abort"}
    \/ req[i].type \in Bodies /\ req[i].len # BeginBodyLen
    \/ req[i].type = "abort" /\ req[i].len # 0

(* Mutant: done with the header. *)
ParseDoneAtHeader(i, b) == b >= HeaderLen

(* bytes_read >= contentLength, once the header is there. *)
ParseDone(i, b) == b >= HeaderLen /\ b >= req[i].len

(* Mutant: the end of the parameters is not checked for an empty record. *)
EvaluateFirstParams(i, b) ==
    /\ paramlist' = IF req[i].type = "params" THEN paramlist \cup {i} ELSE paramlist
    /\ state' = IF req[i].type = "params" THEN "PARAMS_DONE" ELSE state
    /\ role' = IF req[i].type = "begin" THEN req[i].role ELSE role

(* fcgi_session_evaluate_message_done, for message i of which b bytes are     *)
(* read: what was cut off is not found in the message.                       *)
EvaluateMessageDone(i, b) ==
    /\ paramlist' = IF req[i].type = "params" /\ b = MessageLen(req[i]) THEN paramlist \cup {i}
                                                                  ELSE paramlist
    /\ state' = IF req[i].len > 0 THEN state
                ELSE CASE req[i].type = "params" /\ state # "END" -> "PARAMS_DONE"
                       [] req[i].type = "stdin" -> "END"
                       [] OTHER -> state
    /\ role' = IF req[i].type # "begin" THEN role
               ELSE IF b >= HeaderLen + 2 THEN req[i].role ELSE "none"

(* fcgi_message_parse on the bytes left, for the unfinished message or a new *)
(* one. The rest of a header that was cut is copied to a wrong address       *)
(* (&header + bytes_read counts headers, not bytes). A message that is done  *)
(* before its last byte, or that is padded, leaves bytes which are taken for *)
(* the next header. Either way the parser is lost.                           *)
ParseMessage ==
    LET i == Current
        b == Offset
        n == Available(i, b)
        done == ParseDone(i, b + n)
    IN  /\ pc = "parse" /\ ~lost /\ ~exited
        /\ Before(<<i, b>>, Received)
        /\ mrec' = i /\ bytes_read' = b + n /\ parse_done' = done
        /\ lost' = \/ b \in 1..HeaderLen - 1
                   \/ done /\ b + n < MessageLen(req[i])
                   \/ done /\ req[i].pad > 0
        /\ exited' = (b + n >= HeaderLen /\ (b = 1 \/ HeaderRefused(i)))
        /\ IF done THEN EvaluateMessageDone(i, b + n) ELSE UNCHANGED sessionVars
        /\ UNCHANGED <<req, datalist, pc, project>>

(* A lost parser reads content as headers: it ends the daemon, or stays in   *)
(* some state.                                                               *)
ParseLost ==
    /\ pc = "parse" /\ lost /\ ~exited
    /\ \/ exited' = TRUE /\ UNCHANGED <<pc, state>>
       \/ exited' = FALSE /\ state' \in SessionStates \ {"INIT"}
          /\ pc' = IF state' \in {"PARAMS_DONE", "END"} THEN "done" ELSE "read"
    /\ project' \in IF pc' = "done" THEN {Sections[s].name : s \in DOMAIN Sections} \cup {NoProject}
                                    ELSE {project}
    /\ UNCHANGED <<req, datalist, messageVars, role, paramlist, lost>>

-----------------------------------------------------------------------------
(* The choice of the project. *)

(* fcgi_param_list_find: the first parameter of that name in the records     *)
(* "list" of request r.                                                      *)
Named(r, list, key) ==
    UNION {{i} \X {j \in DOMAIN r[i].pairs : r[i].pairs[j].name = key} : i \in list}
FirstOf(places) == CHOOSE a \in places : \A b \in places : ~Before(b, a)
fcgi_session_get_param(r, list, key) ==
    LET a == FirstOf(Named(r, list, key)) IN r[a[1]].pairs[a[2]].value

(* A section without scan parameter never matches. *)
Matches(r, list, s) ==
    /\ Named(r, list, Sections[s].key) # {}
    /\ fcgi_session_get_param(r, list, Sections[s].key) \in Sections[s].values

(* The first section whose expression matches, if any. *)
FindProject(r, list) ==
    LET found == {s \in DOMAIN Sections : Matches(r, list, s)}
    IN  IF found = {} THEN NoProject
        ELSE Sections[CHOOSE s \in found : \A t \in found : s <= t].name

(* One expression after the other is compiled, until one matches: the first  *)
(* one that does not compile ends the daemon. (regexec() fails only for want *)
(* of memory, which is left out here as everywhere.)                         *)
RegcompFails(r, list) ==
    \E s \in DOMAIN Sections : /\ ~Sections[s].compiles
                              /\ \A t \in 1..s - 1 : ~Matches(r, list, t)

(* After the last message of the chunk: read on, or choose the project. Only *)
(* responders are served; a session without role or request id fails an      *)
(* assertion.                                                                *)
EndOfChunk ==
    /\ pc = "parse" /\ ~lost /\ ~exited
    /\ ~Before(<<Current, Offset>>, Received)
    /\ IF state \in {"PARAMS_DONE", "END"}
         THEN LET found == FindProject(req, paramlist)
              IN  /\ pc' = "done"
                  /\ exited' = (RegcompFails(req, paramlist)
                                   \/ (found # NoProject /\ role = "none"))
                  /\ project' = IF role = "responder" THEN found ELSE NoProject
                  /\ UNCHANGED state
         ELSE /\ pc' = "read"
              /\ state' = IF state = "INIT" THEN "RUNNING" ELSE state
              /\ UNCHANGED <<project, exited>>
    /\ UNCHANGED <<req, datalist, messageVars, role, paramlist, lost>>

Finished == (pc = "done" \/ exited) /\ UNCHANGED vars

Next ==
    \/ \E i \in 1..Len(req) + 1 : \E o \in Offsets(req, i) : Read(<<i, o>>)
    \/ ReadFails
    \/ ParseMessage
    \/ ParseLost
    \/ EndOfChunk
    \/ Finished

Spec == Init /\ [][Next]_vars

-----------------------------------------------------------------------------
(* Properties. *)

(* The reference: what the session should be after the records that have     *)
(* arrived completely, however they arrived.                                 *)
Complete == {i \in DOMAIN req : i < Received[1]}
EmptyArrived(type) == \E i \in Complete : req[i].type = type /\ req[i].len = 0
ReferenceState ==
    CASE EmptyArrived("stdin") -> "END"
      [] EmptyArrived("params") -> "PARAMS_DONE"
      [] Received = Start -> "INIT"
      [] OTHER -> "RUNNING"
AllParams == {i \in DOMAIN req : req[i].type = "params"}

(* A read() may end between two messages, or inside the content of a long    *)
(* one as long as more than the length of a header is missing.               *)
HarmlessCut(p) ==
    \/ p[2] = 0
    \/ req[p[1]].type \in Streams /\ p[2] >= HeaderLen /\ p[2] < req[p[1]].len

(* What the parser can handle: a begin record first, no padding, no          *)
(* management records.                                                       *)
PlainRequest ==
    /\ req[1].type = "begin"
    /\ \A i \in DOMAIN req : /\ req[i].pad = 0 /\ ~HeaderRefused(i)
                             /\ req[i].type = "begin" => req[i].role # "none"

(* Nothing ends the daemon but the choice, for an expression that does not   *)
(* compile, and between two reads the session is what the reference says.    *)
FollowsStream ==
    /\ ~lost /\ (exited => pc = "done" /\ RegcompFails(req, paramlist))
    /\ pc = "read" => /\ state = ReferenceState
                      /\ paramlist = Complete \cap AllParams
                      /\ <<Current, Offset>> = Received

(* The parser gives the same result however the network cuts the request     *)
(* (fcgi_session_parse: "if not enough data is provided, wait for the next   *)
(* data"), as long as every cut is harmless.                                 *)
HarmlessCutsDoNotMatter ==
    PlainRequest /\ (\A k \in DOMAIN datalist : HarmlessCut(datalist[k])) => FollowsStream

(* The same without the condition. Broken: fcgi_message_parse takes a        *)
(* message for done when bytes_read, which counts the header, reaches the    *)
(* content length, and copies the rest of a cut header to a wrong place.     *)
CutsDoNotMatter == PlainRequest => FollowsStream

(* The empty params record comes after the other ones and before the end of  *)
(* stdin; the begin record comes first.                                      *)
WellFormed ==
    /\ req[1].type = "begin" /\ req[1].role # "none"
    /\ \A i \in DOMAIN req : req[i].type = "begin" => i = 1
    /\ \A i, j \in DOMAIN req :
          req[i].type \in {"params", "stdin"} /\ req[i].len = 0 /\ req[j].type = "params" => j <= i

(* The thread chooses the project that all parameters of the request ask     *)
(* for, although it chooses before the request is complete: no later record  *)
(* could change the choice, or spare it the expression that does not compile *)
(* and ends the daemon. A request that is not for a responder is refused.    *)
RightProject ==
    /\ pc = "done" /\ ~lost /\ WellFormed
    /\ state \in {"PARAMS_DONE", "END"}
    => /\ exited = RegcompFails(req, AllParams)
       /\ project = IF req[1].role = "responder" THEN FindProject(req, AllParams) ELSE NoProject
=============================================================================
