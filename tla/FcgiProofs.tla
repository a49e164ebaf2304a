----------------------------- MODULE FcgiProofs -----------------------------
(* What the parser promises, for every request and every way to read it.     *)
EXTENDS FcgiSession, SequenceTheorems, TLAPS

(* A request is a sequence of records with lengths. *)
LEMMA ReqFacts ==
    ASSUME NEW r \in Requests
    PROVE  /\ Len(r) \in Nat \ {0} /\ DOMAIN r = 1..Len(r)
           /\ \A i \in 1..Len(r) : r[i].len \in Nat /\ r[i].pad \in Nat
<1>1. r \in Seq(Record) /\ Len(r) > 0
  BY RequestAssumption
<1>2. \A i \in 1..Len(r) : r[i] \in Record
  BY <1>1, ElementOfSeq
<1>3. Len(r) \in Nat /\ DOMAIN r = 1..Len(r)
  BY <1>1
<1> QED BY <1>1, <1>2, <1>3 DEF Record

(* A message (fcgi_message_parse) has at least its header and its content. *)
LEMMA LenFacts ==
    ASSUME NEW r \in Requests, NEW i \in 1..Len(r)
    PROVE  /\ MessageLen(r[i]) \in Nat /\ MessageLen(r[i]) >= HeaderLen
           /\ MessageLen(r[i]) >= r[i].len /\ r[i].pad \in Nat
  BY ReqFacts DEF MessageLen, HeaderLen

(* A place of the stream. *)
Place(r, p) == \E i \in 1..Len(r) + 1 : \E o \in Offsets(r, i) : p = <<i, o>>

(* What a place is made of. *)
LEMMA PlaceFacts ==
    ASSUME NEW r \in Requests, NEW p, Place(r, p)
    PROVE  /\ p = <<p[1], p[2]>> /\ p[1] \in 1..Len(r) + 1 /\ p[2] \in Nat
           /\ p[1] = Len(r) + 1 => p[2] = 0
           /\ p[1] <= Len(r) => p[2] < MessageLen(r[p[1]]) + r[p[1]].pad
<1>1. PICK i \in 1..Len(r) + 1 : \E o \in Offsets(r, i) : p = <<i, o>>
  BY DEF Place
<1>2. PICK o \in Offsets(r, i) : p = <<i, o>>
  BY <1>1
<1>3. p[1] = i /\ p[2] = o /\ Len(r) \in Nat
  BY <1>2, ReqFacts
<1>4. CASE i > Len(r)
  BY <1>2, <1>3, <1>4 DEF Offsets
<1>5. CASE i \in 1..Len(r)
  <2>1. MessageLen(r[i]) \in Nat /\ r[i].pad \in Nat
    BY <1>5, LenFacts
  <2>2. o \in 0..MessageLen(r[i]) + r[i].pad - 1
    BY <1>3, <1>5 DEF Offsets
  <2>3. o \in Nat /\ o < MessageLen(r[i]) + r[i].pad /\ i # Len(r) + 1
    BY <1>3, <1>5, <2>1, <2>2
  <2> QED BY <1>2, <1>3, <1>5, <2>3
<1> QED BY <1>3, <1>4, <1>5

-----------------------------------------------------------------------------
(* Where the parser is in the stream. *)

(* Every read() ends at a place of the stream; an unfinished message is cut  *)
(* where a read() ended; a parser that is not lost has not gone past what    *)
(* was read, and stands at its end when it waits for more.                   *)
PlaceInv ==
    /\ req \in Requests
    /\ datalist \in Seq(Nat \X Nat) /\ \A k \in 1..Len(datalist) : Place(req, datalist[k])
    /\ parse_done \in BOOLEAN /\ mrec \in 0..Len(req) /\ lost \in BOOLEAN
    /\ ~parse_done => /\ mrec \in 1..Len(req) /\ bytes_read \in 1..MessageLen(req[mrec]) - 1
                      /\ \E k \in 1..Len(datalist) : datalist[k] = <<mrec, bytes_read>>
    /\ ~lost => ~Before(Received, <<Current, Offset>>)
    /\ ~lost /\ pc = "read" => <<Current, Offset>> = Received

(* What was read so far ends at a place of the stream. *)
LEMMA ReceivedPlace ==
    ASSUME PlaceInv
    PROVE  /\ Place(req, Received)
           /\ Received = <<Received[1], Received[2]>>
           /\ Received[1] \in 1..Len(req) + 1 /\ Received[2] \in Nat
           /\ Received[1] = Len(req) + 1 => Received[2] = 0
           /\ Received[1] <= Len(req) =>
                 Received[2] < MessageLen(req[Received[1]]) + req[Received[1]].pad
           /\ Received # <<1, 0>> => \E k \in 1..Len(datalist) : datalist[k] = Received
<1>1. CASE datalist = <<>>
  <2>1. 1 \in 1..Len(req) /\ Len(req) \in Nat
    BY ReqFacts DEF PlaceInv
  <2>2. 0 \in Offsets(req, 1) /\ 1 \in 1..Len(req) + 1
    BY <2>1, LenFacts DEF Offsets, PlaceInv, HeaderLen
  <2>3. Received = <<1, 0>>
    BY <1>1 DEF Received, Start
  <2>4. Place(req, Received)
    BY <2>2, <2>3 DEF Place
  <2> QED BY <2>3, <2>4, PlaceFacts DEF PlaceInv
<1>2. CASE datalist # <<>>
  <2>1. Len(datalist) \in 1..Len(datalist)
    BY <1>2, EmptySeq DEF PlaceInv
  <2>2. Received = datalist[Len(datalist)]
    BY <1>2 DEF Received
  <2>3. Place(req, Received)
    BY <2>1, <2>2 DEF PlaceInv
  <2> QED BY <2>1, <2>2, <2>3, PlaceFacts DEF PlaceInv
<1> QED BY <1>1, <1>2

(* One call of fcgi_message_parse: it takes the bytes b+1..e of message i,   *)
(* up to the end of the message or of the chunk.                             *)
Takes(i, b, e) ==
    /\ i = Current /\ b = Offset
    /\ b \in 0..MessageLen(req[i]) - 1 /\ e \in b + 1..MessageLen(req[i])
    /\ mrec' = i /\ bytes_read' = e /\ parse_done' = ParseDone(i, e)
    /\ e = b + Available(i, b)
    /\ e = MessageLen(req[i]) => parse_done'
    /\ e < MessageLen(req[i]) => Received = <<i, e>>
    /\ e = MessageLen(req[i]) /\ req[i].pad = 0 => Received[1] > i

(* One call of fcgi_message_parse takes bytes of one message only. *)
LEMMA MessageStep ==
    ASSUME PlaceInv, ParseMessage
    PROVE  \E i \in 1..Len(req) : \E b \in Nat : \E e \in Nat : Takes(i, b, e)
<1> DEFINE i == Current
           b == Offset
           n == Available(i, b)
<1>1. /\ Before(<<i, b>>, Received)
      /\ mrec' = i /\ bytes_read' = b + n /\ parse_done' = ParseDone(i, b + n)
  BY DEF ParseMessage
<1>3. /\ Received = <<Received[1], Received[2]>>
      /\ Received[1] \in 1..Len(req) + 1 /\ Received[2] \in Nat
      /\ Received[1] = Len(req) + 1 => Received[2] = 0
      /\ Received[1] <= Len(req) =>
            Received[2] < MessageLen(req[Received[1]]) + req[Received[1]].pad
  BY ReceivedPlace
<1>4. i \in 1..Len(req) + 1 /\ Len(req) \in Nat
  BY ReqFacts DEF PlaceInv, Current
<1>5. \A k \in 1..Len(req) :
         /\ MessageLen(req[k]) \in Nat /\ MessageLen(req[k]) >= HeaderLen
         /\ MessageLen(req[k]) >= req[k].len /\ req[k].pad \in Nat
  BY LenFacts DEF PlaceInv
<1>6. b \in Nat
  BY <1>5 DEF PlaceInv, Offset
<1>7. i \in 1..Len(req)
  BY <1>1, <1>3, <1>4, <1>6 DEF Before
<1>8. b \in 0..MessageLen(req[i]) - 1
  BY <1>5, <1>6, <1>7 DEF PlaceInv, Offset, Current, HeaderLen
<1> HIDE DEF i, b
<1>9. b + n \in b + 1..MessageLen(req[i])
  BY <1>1, <1>3, <1>5, <1>7, <1>8 DEF Before, Available
<1>10. b + n = MessageLen(req[i]) => parse_done'
  BY <1>1, <1>5, <1>7 DEF ParseDone
<1>11. b + n < MessageLen(req[i]) => Received = <<i, b + n>>
  BY <1>1, <1>3, <1>5, <1>7, <1>8 DEF Before, Available
<1>12. b + n = MessageLen(req[i]) /\ req[i].pad = 0 => Received[1] > i
  BY <1>1, <1>3, <1>5, <1>7, <1>8 DEF Before, Available
<1>13. Takes(i, b, b + n)
  BY <1>1, <1>7, <1>8, <1>9, <1>10, <1>11, <1>12 DEF i, b, Takes
<1>14. b + n \in Nat
  BY <1>5, <1>6, <1>7, <1>9
<1> HIDE DEF n
<1> QED BY <1>6, <1>7, <1>13, <1>14

(* A read() adds one chunk to the data list and changes none. *)
LEMMA ReadStep ==
    ASSUME PlaceInv, NEW i \in 1..Len(req) + 1, NEW o \in Offsets(req, i), Read(<<i, o>>)
    PROVE  /\ datalist' \in Seq(Nat \X Nat)
           /\ \A k \in 1..Len(datalist') : Place(req, datalist'[k])
           /\ \A k \in 1..Len(datalist) : k \in 1..Len(datalist') /\ datalist'[k] = datalist[k]
           /\ Received' = <<i, o>> /\ Len(datalist') = Len(datalist) + 1
<1>1. Place(req, <<i, o>>)
  BY DEF Place
<1>2. <<i, o>> \in Nat \X Nat
  BY <1>1, PlaceFacts DEF PlaceInv
<1>3. datalist' = Append(datalist, <<i, o>>) /\ datalist \in Seq(Nat \X Nat)
  BY DEF Read, PlaceInv
<1>4. /\ datalist' \in Seq(Nat \X Nat) /\ Len(datalist') = Len(datalist) + 1
      /\ \A k \in 1..Len(datalist) : datalist'[k] = datalist[k]
      /\ datalist'[Len(datalist) + 1] = <<i, o>>
      /\ datalist' # <<>>
  BY <1>2, <1>3, AppendProperties
<1>5. Len(datalist) \in Nat
  BY <1>3
<1>6. ASSUME NEW k \in 1..Len(datalist') PROVE Place(req, datalist'[k])
  <2>1. CASE k \in 1..Len(datalist)
    BY <1>4, <2>1 DEF PlaceInv
  <2>2. CASE k = Len(datalist) + 1
    BY <1>1, <1>4, <2>2
  <2> QED BY <1>4, <1>5, <2>1, <2>2
<1>7. Received' = <<i, o>>
  BY <1>4 DEF Received
<1> QED BY <1>4, <1>5, <1>6, <1>7

(* The inductive invariant on places, for every request and every cut.       *)
THEOREM PlaceCorrect == Spec => []PlaceInv
<1>1. Init => PlaceInv
  <2> SUFFICES ASSUME Init PROVE PlaceInv
    OBVIOUS
  <2>1. datalist = <<>> /\ datalist \in Seq(Nat \X Nat) /\ Len(datalist) = 0
    BY EmptySeq DEF Init
  <2>2. Current = 1 /\ Offset = 0 /\ Received = <<1, 0>>
    BY DEF Init, Current, Offset, Received, Start
  <2>3. ~Before(<<1, 0>>, <<1, 0>>)
    BY DEF Before
  <2>4. \A k \in 1..Len(datalist) : Place(req, datalist[k])
    BY <2>1
  <2>5. req \in Requests /\ parse_done = TRUE /\ lost = FALSE /\ mrec \in 0..Len(req)
    BY ReqFacts DEF Init
  <2> QED BY <2>1, <2>2, <2>3, <2>4, <2>5 DEF PlaceInv
<1>2. PlaceInv /\ [Next]_vars => PlaceInv'
  <2> SUFFICES ASSUME PlaceInv, [Next]_vars PROVE PlaceInv'
    OBVIOUS
  <2>1. ASSUME NEW i \in 1..Len(req) + 1, NEW o \in Offsets(req, i), Read(<<i, o>>)
        PROVE  PlaceInv'
    <3>1. /\ UNCHANGED <<req, mrec, bytes_read, parse_done, lost>> /\ pc' = "parse"
          /\ pc = "read" /\ Before(Received, <<i, o>>)
      BY <2>1 DEF Read, messageVars
    <3>2. UNCHANGED <<Current, Offset>>
      BY <3>1 DEF Current, Offset
    <3>3. /\ datalist' \in Seq(Nat \X Nat)
          /\ \A k \in 1..Len(datalist') : Place(req, datalist'[k])
          /\ \A k \in 1..Len(datalist) : k \in 1..Len(datalist') /\ datalist'[k] = datalist[k]
          /\ Received' = <<i, o>>
      BY <2>1, ReadStep
    <3>4. ~lost => ~Before(<<i, o>>, <<Current, Offset>>)
      <4>1. SUFFICES ASSUME ~lost PROVE ~Before(<<i, o>>, Received)
        BY <3>1 DEF PlaceInv
      <4>2. Place(req, <<i, o>>)
        BY DEF Place
      <4>3. Received[1] \in Int /\ Received[2] \in Int /\ i \in Int /\ o \in Int
        BY <4>2, PlaceFacts, ReceivedPlace DEF PlaceInv
      <4> QED BY <3>1, <4>3 DEF Before
    <3> QED BY <3>1, <3>2, <3>3, <3>4 DEF PlaceInv
  <2>2. CASE ParseMessage
    <3>1. PICK i \in 1..Len(req) : \E b \in Nat : \E e \in Nat : Takes(i, b, e)
      BY <2>2, MessageStep
    <3>2. PICK b \in Nat : \E e \in Nat : Takes(i, b, e)
      BY <3>1
    <3>3. PICK e \in Nat : Takes(i, b, e)
      BY <3>2
    <3>4. /\ UNCHANGED <<req, datalist, pc>> /\ pc = "parse" /\ ~lost
          /\ lost' = \/ b \in 1..HeaderLen - 1
                     \/ ParseDone(i, e) /\ e < MessageLen(req[i])
                     \/ ParseDone(i, e) /\ req[i].pad > 0
      BY <2>2, <3>3 DEF ParseMessage, Takes
    <3>5. UNCHANGED Received /\ lost' \in BOOLEAN /\ parse_done' \in BOOLEAN
      BY <3>3, <3>4 DEF Received, Start, Takes, ParseDone
    <3>6. Received[1] \in Int /\ Received[2] \in Nat
      BY ReceivedPlace
    <3>7. MessageLen(req[i]) \in Nat /\ req[i].pad \in Nat
      BY LenFacts DEF PlaceInv
    <3>8. CASE parse_done'
      <4>1. Current' = i + 1 /\ Offset' = 0
        BY <3>3, <3>8 DEF Current, Offset, Takes
      <4>2. ~lost' => e = MessageLen(req[i]) /\ req[i].pad = 0
        BY <3>3, <3>4, <3>7, <3>8 DEF Takes
      <4>3. ~lost' => ~Before(Received, <<i + 1, 0>>)
        BY <3>3, <3>6, <4>2 DEF Before, Takes
      <4> QED BY <3>3, <3>4, <3>5, <3>8, <4>1, <4>3 DEF PlaceInv, Takes
    <3>9. CASE ~parse_done'
      <4>1. Current' = i /\ Offset' = e
        BY <3>3, <3>9 DEF Current, Offset, Takes
      <4>2. Received = <<i, e>> /\ e \in 1..MessageLen(req[i]) - 1
        BY <3>3, <3>7, <3>9 DEF Takes
      <4>3. \E k \in 1..Len(datalist) : datalist[k] = <<i, e>>
        BY <4>2, ReceivedPlace
      <4>4. ~Before(Received, <<i, e>>)
        BY <4>2 DEF Before
      <4> QED BY <3>3, <3>4, <3>5, <3>9, <4>1, <4>2, <4>3, <4>4 DEF PlaceInv, Takes
    <3> QED BY <3>8, <3>9
  <2>3. ASSUME UNCHANGED <<req, datalist, mrec, bytes_read, parse_done, lost>>,
               pc' = "read" => lost \/ pc = "read" \/ <<Current, Offset>> = Received
        PROVE  PlaceInv'
    BY <2>3 DEF PlaceInv, Received, Start, Current, Offset
  <2>4. CASE ReadFails
    BY <2>3, <2>4 DEF ReadFails, messageVars
  <2>5. CASE ParseLost
    BY <2>3, <2>5 DEF ParseLost, messageVars
  <2>6. CASE EndOfChunk
    <3>1. ~Before(Received, <<Current, Offset>>) /\ ~Before(<<Current, Offset>>, Received)
      BY <2>6 DEF PlaceInv, EndOfChunk
    <3>2. Current \in Int /\ Offset \in Int
      BY LenFacts DEF PlaceInv, Current, Offset
    <3>3. <<Current, Offset>> = Received
      BY <3>1, <3>2, ReceivedPlace DEF Before
    <3> QED BY <2>3, <2>6, <3>3 DEF EndOfChunk, messageVars
  <2>7. CASE UNCHANGED vars
    BY <2>3, <2>7 DEF vars
  <2> QED BY <2>1, <2>2, <2>4, <2>5, <2>6, <2>7 DEF Next, Finished
<1> QED BY <1>1, <1>2, PTL DEF Spec

-----------------------------------------------------------------------------
(* The session. *)

(* Every record has a role, "none" if it is no begin record. *)
LEMMA RecordFacts ==
    ASSUME NEW r \in Requests, NEW i \in 1..Len(r)
    PROVE  r[i].role \in Roles
<1>1. r \in Seq(Record)
  BY RequestAssumption
<1>2. r[i] \in Record
  BY <1>1, ElementOfSeq
<1> QED BY <1>2 DEF Record

(* Every step keeps the types; a message never gets more than its bytes.     *)
THEOREM TypeCorrect == Spec => []TypeOK
<1>1. Init => TypeOK
  <2> SUFFICES ASSUME Init PROVE TypeOK
    OBVIOUS
  <2>1. datalist \in Seq(Nat \X Nat) /\ Len(datalist) <= MaxReads
    BY EmptySeq, ReadsAssumption DEF Init
  <2>2. mrec \in 0..Len(req) /\ ~(mrec > 0)
    BY ReqFacts DEF Init
  <2> QED BY <2>1, <2>2 DEF Init, TypeOK, SessionStates, Roles
<1>2. PlaceInv /\ PlaceInv' /\ TypeOK /\ [Next]_vars => TypeOK'
  <2> SUFFICES ASSUME PlaceInv, PlaceInv', TypeOK, [Next]_vars PROVE TypeOK'
    OBVIOUS
  <2>1. ASSUME NEW i \in 1..Len(req) + 1, NEW o \in Offsets(req, i), Read(<<i, o>>)
        PROVE  TypeOK'
    <3>1. datalist' \in Seq(Nat \X Nat) /\ Len(datalist') <= MaxReads
      BY <2>1, ReadStep, ReadsAssumption DEF Read, PlaceInv
    <3> QED BY <2>1, <3>1 DEF TypeOK, Read, messageVars, sessionVars
  <2>2. CASE ParseMessage
    <3>1. PICK i \in 1..Len(req) : \E b \in Nat : \E e \in Nat : Takes(i, b, e)
      BY <2>2, MessageStep
    <3>2. PICK b \in Nat : \E e \in Nat : Takes(i, b, e)
      BY <3>1
    <3>3. PICK e \in Nat : Takes(i, b, e)
      BY <3>2
    <3>4. /\ IF ParseDone(i, e) THEN EvaluateMessageDone(i, e) ELSE UNCHANGED sessionVars
          /\ UNCHANGED <<req, datalist, pc>> /\ exited' \in BOOLEAN
      BY <2>2, <3>3 DEF ParseMessage, Takes
    <3>5. state' \in SessionStates /\ role' \in Roles /\ paramlist' \subseteq 1..Len(req)
      <4>1. CASE ParseDone(i, e)
        <5>1. EvaluateMessageDone(i, e)
          BY <3>4, <4>1
        <5>2. state' \in SessionStates
          BY <5>1 DEF EvaluateMessageDone, TypeOK, SessionStates
        <5>3. role' \in Roles
          BY <5>1, RecordFacts DEF EvaluateMessageDone, TypeOK, Roles
        <5>4. paramlist' \subseteq 1..Len(req)
          BY <5>1 DEF EvaluateMessageDone, TypeOK
        <5> QED BY <5>2, <5>3, <5>4
      <4>2. CASE ~ParseDone(i, e)
        BY <3>4, <4>2 DEF sessionVars, TypeOK
      <4> QED BY <4>1, <4>2
    <3>6. bytes_read' \in Nat /\ bytes_read' <= MessageLen(req[i]) /\ mrec' = i
      BY <3>3, LenFacts DEF Takes, PlaceInv
    <3> QED BY <3>4, <3>5, <3>6 DEF TypeOK, PlaceInv
  <2>3. CASE ReadFails
    BY <2>3 DEF TypeOK, ReadFails, messageVars, sessionVars
  <2>4. CASE ParseLost
    BY <2>4 DEF TypeOK, ParseLost, messageVars, SessionStates
  <2>5. CASE EndOfChunk
    BY <2>5 DEF TypeOK, EndOfChunk, messageVars, SessionStates
  <2>6. CASE UNCHANGED vars
    BY <2>6 DEF TypeOK, vars
  <2> QED BY <2>1, <2>2, <2>3, <2>4, <2>5, <2>6 DEF Next, Finished
<1> QED BY <1>1, <1>2, PlaceCorrect, PTL DEF Spec

(* An empty record of that type has been parsed. *)
Seen(type) == \E i \in 1..Len(req) : i < Current /\ req[i].type = type /\ req[i].len = 0

(* While the parser is not lost, the session is what the parsed records say. *)
SessionInv ==
    ~lost =>
       /\ paramlist = {i \in 1..Len(req) : i < Current /\ req[i].type = "params"}
       /\ state = "END" <=> Seen("stdin")
       /\ state = "PARAMS_DONE" <=> Seen("params") /\ ~Seen("stdin")
       /\ pc = "read" => state \in {"INIT", "RUNNING"} /\ (state = "INIT" <=> Received = Start)
       /\ pc = "parse" => Received # Start

(* The role of the request is known after its first record. *)
RoleInv ==
    ~lost /\ (exited => pc = "done") /\ Current > 1 /\ req[1].type = "begin" =>
       /\ (\A i \in 1..Len(req) : req[i].type = "begin" => i = 1) => role = req[1].role
       /\ (\A i \in 1..Len(req) : req[i].type = "begin" => req[i].role # "none") => role # "none"

(* The choice is made from the parameters that were parsed; it ends the      *)
(* daemon for an expression that does not compile or a session without role. *)
(* Only the parser and the choice end the daemon.                            *)
ChoiceInv ==
    /\ exited => pc # "read"
    /\ ~lost /\ pc = "done" /\ state \in {"PARAMS_DONE", "END"} =>
          /\ exited = (\/ RegcompFails(req, paramlist)
                       \/ FindProject(req, paramlist) # NoProject /\ role = "none")
          /\ project = IF role = "responder" THEN FindProject(req, paramlist) ELSE NoProject

(* What fcgi_session_evaluate_message_done keeps of the records, and what    *)
(* the connection thread chooses from it, as long as the parser is not lost. *)
THEOREM SessionCorrect == Spec => [](SessionInv /\ RoleInv /\ ChoiceInv)
<1> DEFINE Inv == SessionInv /\ RoleInv /\ ChoiceInv
<1>1. Init => Inv
  <2> SUFFICES ASSUME Init PROVE Inv
    OBVIOUS
  <2>1. Current = 1 /\ Received = Start
    BY DEF Init, Current, Received
  <2>2. \A i \in 1..Len(req) : ~(i < Current)
    BY <2>1, ReqFacts DEF Init
  <2>3. ~Seen("stdin") /\ ~Seen("params")
    BY <2>2 DEF Seen
  <2>4. SessionInv
    BY <2>1, <2>2, <2>3 DEF Init, SessionInv
  <2> QED BY <2>1, <2>4 DEF Init, RoleInv, ChoiceInv
<1>2. PlaceInv /\ TypeOK /\ Inv /\ [Next]_vars => Inv'
  <2> SUFFICES ASSUME PlaceInv, TypeOK, Inv, [Next]_vars PROVE Inv'
    OBVIOUS
  <2>1. ASSUME NEW i \in 1..Len(req) + 1, NEW o \in Offsets(req, i), Read(<<i, o>>)
        PROVE  Inv'
    <3>1. /\ UNCHANGED <<req, mrec, parse_done, lost, exited, state, role, paramlist>>
          /\ pc' = "parse" /\ Before(Received, <<i, o>>)
      BY <2>1 DEF Read, messageVars, sessionVars
    <3>2. /\ UNCHANGED Current
          /\ (Seen("stdin"))' = Seen("stdin") /\ (Seen("params"))' = Seen("params")
      BY <3>1 DEF Current, Seen
    <3>3. Received' # Start
      <4>1. Place(req, <<i, o>>)
        BY DEF Place
      <4>2. o \in Nat /\ i \in Nat
        BY <4>1, PlaceFacts DEF PlaceInv
      <4>3. <<i, o>> # <<1, 0>>
        BY <3>1, <4>2, ReceivedPlace DEF Before
      <4> QED BY <2>1, <4>3, ReadStep DEF Start
    <3> QED BY <3>1, <3>2, <3>3 DEF SessionInv, RoleInv, ChoiceInv, Start
  <2>2. CASE ParseMessage
    <3>1. PICK i \in 1..Len(req) : \E b \in Nat : \E e \in Nat : Takes(i, b, e)
      BY <2>2, MessageStep
    <3>2. PICK b \in Nat : \E e \in Nat : Takes(i, b, e)
      BY <3>1
    <3>3. PICK e \in Nat : Takes(i, b, e)
      BY <3>2
    <3>4. /\ UNCHANGED <<req, datalist, pc>> /\ pc = "parse" /\ ~lost
          /\ lost' = \/ b \in 1..HeaderLen - 1
                     \/ ParseDone(i, e) /\ e < MessageLen(req[i])
                     \/ ParseDone(i, e) /\ req[i].pad > 0
          /\ IF ParseDone(i, e) THEN EvaluateMessageDone(i, e) ELSE UNCHANGED sessionVars
      BY <2>2, <3>3 DEF ParseMessage, Takes
    <3>5. UNCHANGED Received
      BY <3>4 DEF Received, Start
    <3>6. MessageLen(req[i]) \in Nat /\ MessageLen(req[i]) >= HeaderLen
      BY LenFacts DEF PlaceInv
    <3>7. SUFFICES ASSUME ~lost' PROVE SessionInv' /\ RoleInv'
      BY <3>4, <3>7 DEF SessionInv, RoleInv, ChoiceInv
    <3>8. CASE parse_done'
      <4>1. Current = i /\ Current' = i + 1
        BY <3>3, <3>8 DEF Current, Takes
      <4>2. e = MessageLen(req[i]) /\ EvaluateMessageDone(i, e)
        BY <3>3, <3>4, <3>6, <3>7, <3>8 DEF Takes
      <4>3. Len(req) \in Nat
        BY ReqFacts DEF PlaceInv
      <4>4. \A type : (Seen(type))' <=> Seen(type) \/ (req[i].type = type /\ req[i].len = 0)
        BY <3>4, <4>1, <4>3 DEF Seen
      <4>5. paramlist' = {k \in 1..Len(req) : k < i + 1 /\ req[k].type = "params"}
        <5>1. paramlist = {k \in 1..Len(req) : k < i /\ req[k].type = "params"}
          BY <3>4, <4>1 DEF SessionInv
        <5>2. paramlist' = IF req[i].type = "params" THEN paramlist \cup {i} ELSE paramlist
          BY <4>2 DEF EvaluateMessageDone
        <5> QED BY <4>3, <5>1, <5>2
      <4>6. /\ state' = "END" <=> (Seen("stdin"))'
            /\ state' = "PARAMS_DONE" <=> (Seen("params"))' /\ ~(Seen("stdin"))'
        <5>1. /\ state = "END" <=> Seen("stdin")
              /\ state = "PARAMS_DONE" <=> Seen("params") /\ ~Seen("stdin")
          BY <3>4 DEF SessionInv
        <5>2. state' = IF req[i].len > 0 THEN state
                       ELSE CASE req[i].type = "params" /\ state # "END" -> "PARAMS_DONE"
                              [] req[i].type = "stdin" -> "END"
                              [] OTHER -> state
          BY <4>2 DEF EvaluateMessageDone
        <5>3. req[i].len \in Nat
          BY ReqFacts DEF PlaceInv
        <5>4. CASE req[i].len > 0
          BY <4>4, <5>1, <5>2, <5>3, <5>4
        <5>5. CASE req[i].len = 0
          <6>1. CASE req[i].type = "params"
            BY <4>4, <5>1, <5>2, <5>5, <6>1
          <6>2. CASE req[i].type = "stdin"
            BY <4>4, <5>1, <5>2, <5>5, <6>2
          <6>3. CASE req[i].type \notin {"params", "stdin"}
            BY <4>4, <5>1, <5>2, <5>5, <6>3
          <6> QED BY <6>1, <6>2, <6>3
        <5> QED BY <5>3, <5>4, <5>5
      <4>7. SessionInv'
        BY <3>4, <3>5, <4>1, <4>5, <4>6 DEF SessionInv, Start
      <4>8. RoleInv'
        <5>1. ~exited' /\ req[i].type = "begin" => req[i].len = BeginBodyLen
          BY <2>2, <3>3, <3>6, <4>2 DEF ParseMessage, Takes, HeaderRefused, Bodies
        <5>2. ~exited' /\ req[i].type = "begin" => e >= HeaderLen + 2
          BY <4>2, <5>1 DEF MessageLen, HeaderLen, BeginBodyLen
        <5>3. ~exited
          BY <2>2 DEF ParseMessage
        <5> QED BY <3>4, <4>1, <4>2, <5>2, <5>3 DEF RoleInv, EvaluateMessageDone
      <4> QED BY <4>7, <4>8
    <3>9. CASE ~parse_done'
      <4>1. Current' = Current /\ UNCHANGED sessionVars
        BY <3>3, <3>4, <3>9 DEF Current, Takes
      <4>2. (Seen("stdin"))' = Seen("stdin") /\ (Seen("params"))' = Seen("params")
        BY <3>4, <4>1 DEF Seen
      <4>3. ~exited
        BY <2>2 DEF ParseMessage
      <4> QED BY <3>4, <3>5, <4>1, <4>2, <4>3 DEF SessionInv, RoleInv, sessionVars, Start
    <3> QED BY <3>8, <3>9
  <2>3. CASE ReadFails
    BY <2>3 DEF ReadFails, SessionInv, RoleInv, ChoiceInv, Seen, Current, Received, Start,
                messageVars, sessionVars
  <2>4. CASE ParseLost
    BY <2>4 DEF ParseLost, SessionInv, RoleInv, ChoiceInv
  <2>5. CASE EndOfChunk
    <3>1. /\ UNCHANGED <<req, datalist, mrec, parse_done, role, paramlist, lost>>
          /\ pc = "parse" /\ ~lost /\ ~exited
      BY <2>5 DEF EndOfChunk, messageVars
    <3>2. UNCHANGED <<Current, Received>>
      BY <3>1 DEF Current, Received, Start
    <3>3. (Seen("stdin"))' = Seen("stdin") /\ (Seen("params"))' = Seen("params")
      BY <3>1, <3>2 DEF Seen
    <3>4. RoleInv'
      BY <3>1, <3>2 DEF RoleInv
    <3>5. CASE state \in {"PARAMS_DONE", "END"}
      BY <2>5, <3>1, <3>2, <3>3, <3>4, <3>5 DEF EndOfChunk, SessionInv, ChoiceInv
    <3>6. CASE state \notin {"PARAMS_DONE", "END"}
      <4>1. /\ pc' = "read" /\ state' = "RUNNING" /\ state \in {"INIT", "RUNNING"}
            /\ UNCHANGED exited
        BY <2>5, <3>6 DEF EndOfChunk, TypeOK, SessionStates
      <4> QED BY <3>1, <3>2, <3>3, <3>4, <3>6, <4>1 DEF SessionInv, ChoiceInv, Start
    <3> QED BY <3>5, <3>6
  <2>6. CASE UNCHANGED vars
    BY <2>6 DEF vars, SessionInv, RoleInv, ChoiceInv, Seen, Current, Received, Start
  <2> QED BY <2>1, <2>2, <2>3, <2>4, <2>5, <2>6 DEF Next, Finished
<1> QED BY <1>1, <1>2, PlaceCorrect, TypeCorrect, PTL DEF Spec

-----------------------------------------------------------------------------
(* The properties. *)

(* Whatever request is read in whatever parts, the thread chooses the        *)
(* project that all its parameters ask for, although it chooses before it    *)
(* has read the request completely.                                          *)
THEOREM ProjectCorrect == Spec => []RightProject
<1>1. PlaceInv /\ SessionInv /\ RoleInv /\ ChoiceInv => RightProject
  <2> SUFFICES ASSUME PlaceInv, SessionInv, RoleInv, ChoiceInv, pc = "done", ~lost,
                      WellFormed, state \in {"PARAMS_DONE", "END"}
               PROVE  /\ exited = RegcompFails(req, AllParams)
                      /\ project = IF req[1].role = "responder" THEN FindProject(req, AllParams)
                                                                ELSE NoProject
    BY DEF RightProject
  <2>1. DOMAIN req = 1..Len(req) /\ Len(req) \in Nat \ {0}
    BY ReqFacts DEF PlaceInv
  <2>2. Seen("stdin") \/ Seen("params")
    BY DEF SessionInv
  <2>3. PICK i \in 1..Len(req) : /\ i < Current /\ req[i].len = 0
                                /\ req[i].type \in {"stdin", "params"}
    BY <2>2 DEF Seen
  <2>4. \A j \in 1..Len(req) : req[j].type = "params" => j <= i
    BY <2>1, <2>3 DEF WellFormed
  <2>5. Current \in Int
    BY <2>1 DEF PlaceInv, Current
  <2>6. paramlist = AllParams
    BY <2>1, <2>3, <2>4, <2>5 DEF SessionInv, AllParams
  <2>7. role = req[1].role /\ role # "none"
    BY <2>1, <2>3, <2>5 DEF RoleInv, WellFormed
  <2>8. RegcompFails(req, paramlist) \in BOOLEAN
    BY DEF RegcompFails
  <2> QED BY <2>6, <2>7, <2>8 DEF ChoiceInv
<1> QED BY <1>1, PlaceCorrect, SessionCorrect, PTL

(* As long as every read() ends at a harmless place, the parser is never     *)
(* lost and never ends the daemon: only an expression does that does not     *)
(* compile.                                                                  *)
SafeInv ==
    PlainRequest /\ (\A k \in 1..Len(datalist) : HarmlessCut(datalist[k])) =>
       ~lost /\ (exited => pc = "done" /\ RegcompFails(req, paramlist))

(* For every request without padding and management records and every        *)
(* sequence of harmless cuts, the session after each read() is the one of    *)
(* the records received.                                                     *)
THEOREM CutsCorrect == Spec => []HarmlessCutsDoNotMatter
<1>1. Init => SafeInv
  BY DEF Init, SafeInv
<1>2. PlaceInv /\ SessionInv /\ RoleInv /\ ChoiceInv /\ SafeInv /\ [Next]_vars => SafeInv'
  <2> SUFFICES ASSUME PlaceInv, SessionInv, RoleInv, ChoiceInv, SafeInv, [Next]_vars,
                      PlainRequest', \A k \in 1..Len(datalist') : HarmlessCut(datalist[k])'
               PROVE  ~lost' /\ (exited' => pc' = "done" /\ RegcompFails(req, paramlist)')
    BY DEF SafeInv
  <2>1. UNCHANGED req
    BY DEF Next, Read, ReadFails, ParseMessage, ParseLost, EndOfChunk, Finished, vars
  <2>2. PlainRequest
    BY <2>1 DEF PlainRequest, HeaderRefused
  <2>3. \A k \in 1..Len(datalist') : HarmlessCut(datalist'[k])
    BY <2>1 DEF HarmlessCut
  <2>4. ASSUME NEW i \in 1..Len(req) + 1, NEW o \in Offsets(req, i), Read(<<i, o>>)
        PROVE  ~lost' /\ ~exited'
    <3>1. \A k \in 1..Len(datalist) : HarmlessCut(datalist[k])
      BY <2>3, <2>4, ReadStep
    <3> QED BY <2>2, <2>4, <3>1 DEF SafeInv, ChoiceInv, Read
  <2>5. ASSUME UNCHANGED datalist
        PROVE  ~lost /\ (exited => pc = "done" /\ RegcompFails(req, paramlist))
    BY <2>2, <2>3, <2>5 DEF SafeInv
  <2>6. DOMAIN req = 1..Len(req) /\ Len(req) \in Nat \ {0}
    BY ReqFacts DEF PlaceInv
  <2>7. CASE ParseMessage
    <3>1. PICK i \in 1..Len(req) : \E b \in Nat : \E e \in Nat : Takes(i, b, e)
      BY <2>7, MessageStep
    <3>2. PICK b \in Nat : \E e \in Nat : Takes(i, b, e)
      BY <3>1
    <3>3. PICK e \in Nat : Takes(i, b, e)
      BY <3>2
    <3>4. /\ UNCHANGED datalist
          /\ lost' = \/ b \in 1..HeaderLen - 1
                     \/ ParseDone(i, e) /\ e < MessageLen(req[i])
                     \/ ParseDone(i, e) /\ req[i].pad > 0
          /\ exited' = (e >= HeaderLen /\ (b = 1 \/ HeaderRefused(i)))
      BY <2>7, <3>3 DEF ParseMessage, Takes
    <3>5. req[i].pad = 0 /\ ~HeaderRefused(i)
      BY <2>2, <2>6 DEF PlainRequest
    <3>6. ASSUME NEW o \in Nat \ {0}, \E k \in 1..Len(datalist) : datalist[k] = <<i, o>>
          PROVE  o >= HeaderLen /\ o < req[i].len
      BY <2>3, <3>4, <3>6 DEF HarmlessCut
    <3>7. b # 0 => b >= HeaderLen
      BY <3>3, <3>6 DEF PlaceInv, Takes, Current, Offset
    <3>8. e < MessageLen(req[i]) => ~ParseDone(i, e)
      <4> SUFFICES ASSUME e < MessageLen(req[i]) PROVE ~ParseDone(i, e)
        OBVIOUS
      <4>1. Received = <<i, e>> /\ e \in Nat \ {0}
        BY <3>3 DEF Takes
      <4>2. e < req[i].len
        BY <3>6, <4>1, ReceivedPlace
      <4>3. req[i].len \in Nat
        BY ReqFacts DEF PlaceInv
      <4> QED BY <4>2, <4>3 DEF ParseDone
    <3>9. b \notin 1..HeaderLen - 1 /\ b # 1 /\ ~(req[i].pad > 0)
      BY <3>5, <3>7 DEF HeaderLen
    <3> QED BY <3>4, <3>5, <3>8, <3>9
  <2>8. CASE EndOfChunk
    <3>1. ~lost /\ ~exited /\ UNCHANGED <<req, paramlist, lost>>
      BY <2>5, <2>8 DEF EndOfChunk
    <3>2. ASSUME state \in {"PARAMS_DONE", "END"} PROVE role # "none"
      <4>1. \E i \in 1..Len(req) : i < Current
        BY <3>1, <3>2 DEF SessionInv, Seen
      <4>2. Current > 1
        BY <2>6, <4>1 DEF PlaceInv, Current
      <4> QED BY <2>2, <2>6, <3>1, <4>2 DEF RoleInv, PlainRequest
    <3>3. RegcompFails(req, paramlist)' = RegcompFails(req, paramlist)
      BY <3>1
    <3>4. CASE state \in {"PARAMS_DONE", "END"}
      <4>1. /\ pc' = "done"
            /\ exited' = (\/ RegcompFails(req, paramlist)
                          \/ FindProject(req, paramlist) # NoProject /\ role = "none")
        BY <2>8, <3>4 DEF EndOfChunk
      <4> QED BY <3>1, <3>2, <3>3, <3>4, <4>1
    <3>5. CASE state \notin {"PARAMS_DONE", "END"}
      BY <2>8, <3>1, <3>5 DEF EndOfChunk
    <3> QED BY <3>4, <3>5
  <2>9. CASE ReadFails
    BY <2>5, <2>9 DEF ReadFails
  <2>10. CASE ParseLost
    BY <2>5, <2>10 DEF ParseLost
  <2>11. CASE UNCHANGED vars
    BY <2>5, <2>11 DEF vars
  <2> QED BY <2>4, <2>7, <2>8, <2>9, <2>10, <2>11 DEF Next, Finished
<1>3. PlaceInv /\ SessionInv /\ SafeInv => HarmlessCutsDoNotMatter
  <2> SUFFICES ASSUME PlaceInv, SessionInv, SafeInv, PlainRequest,
                      \A k \in DOMAIN datalist : HarmlessCut(datalist[k])
               PROVE  FollowsStream
    BY DEF HarmlessCutsDoNotMatter
  <2>1. DOMAIN datalist = 1..Len(datalist) /\ DOMAIN req = 1..Len(req) /\ Len(req) \in Nat
    BY ReqFacts DEF PlaceInv
  <2>2. ~lost /\ (exited => pc = "done" /\ RegcompFails(req, paramlist))
    BY <2>1 DEF SafeInv
  <2>3. SUFFICES ASSUME pc = "read"
                 PROVE  state = ReferenceState /\ paramlist = Complete \cap AllParams
    BY <2>2 DEF FollowsStream, PlaceInv
  <2>4. Received[1] = Current
    BY <2>2, <2>3 DEF PlaceInv
  <2>5. EmptyArrived("stdin") = Seen("stdin") /\ EmptyArrived("params") = Seen("params")
    BY <2>1, <2>4 DEF EmptyArrived, Seen, Complete
  <2>6. ~Seen("stdin") /\ ~Seen("params") /\ state \in {"INIT", "RUNNING"}
        /\ (state = "INIT" <=> Received = Start)
    BY <2>2, <2>3 DEF SessionInv
  <2>7. state = ReferenceState
    BY <2>5, <2>6 DEF ReferenceState
  <2>8. paramlist = Complete \cap AllParams
    BY <2>1, <2>2, <2>4 DEF SessionInv, Complete, AllParams
  <2> QED BY <2>7, <2>8
<1> QED BY <1>1, <1>2, <1>3, PlaceCorrect, SessionCorrect, PTL DEF Spec
=============================================================================
