----------------------------- MODULE RelayProofs -----------------------------
(* What the relay promises, for requests and responses of every length, every *)
(* data list and every buffer.                                                *)
EXTENDS Relay, SequenceTheorems, TLAPS

(* The bytes after a up to b follow the ones up to a. *)
LEMMA BytesJoin ==
    ASSUME NEW a \in Nat, NEW b \in Nat, a < b
    PROVE  Bytes(0, a) \o Bytes(a, b) = Bytes(0, b)
  BY DEF Bytes

(* The first a bytes are a bytes. *)
LEMMA BytesLen ==
    ASSUME NEW a \in Nat
    PROVE  Len(Bytes(0, a)) = a
  BY DEF Bytes

(* Bytes are numbers. *)
LEMMA BytesType ==
    ASSUME NEW s \in Seq(Nat), NEW a \in Nat, NEW b \in Nat
    PROVE  s \o Bytes(a, b) \in Seq(Nat)
  BY DEF Bytes

(* What a write() to the child leaves behind. *)
LEMMA WriteChildType ==
    ASSUME NEW a \in Nat, NEW b \in Nat, WriteChild(a, b),
           tochild \in Seq(Nat), short \in BOOLEAN, exited \in BOOLEAN, unixroom \in BOOLEAN
    PROVE  /\ tochild' \in Seq(Nat)
           /\ short' \in BOOLEAN /\ exited' \in BOOLEAN /\ unixroom' \in BOOLEAN
<1>1. CASE child = "closed" /\ exited' = TRUE /\ UNCHANGED <<short, tochild, unixroom>>
  BY <1>1
<1>2. CASE /\ child = "open"
           /\ \E n \in a + 1..b : tochild' = tochild \o Bytes(a, n) /\ short' = (short \/ n < b)
           /\ unixroom' \in BOOLEAN
           /\ UNCHANGED exited
  <2>1. PICK n \in a + 1..b : tochild' = tochild \o Bytes(a, n) /\ short' = (short \/ n < b)
    BY <1>2
  <2>2. tochild' \in Seq(Nat)
    BY <2>1, BytesType
  <2> QED BY <1>2, <2>1, <2>2
<1> QED BY <1>1, <1>2 DEF WriteChild

(* The same for a write() to the client. *)
LEMMA WriteClientType ==
    ASSUME NEW a \in Nat, NEW b \in Nat, WriteClient(a, b),
           toclient \in Seq(Nat), short \in BOOLEAN, exited \in BOOLEAN, netroom \in BOOLEAN
    PROVE  /\ toclient' \in Seq(Nat) /\ client' \in {"open", "broken"}
           /\ short' \in BOOLEAN /\ exited' \in BOOLEAN /\ netroom' \in BOOLEAN
<1>1. CASE /\ client = "open"
           /\ \E n \in a + 1..b : toclient' = toclient \o Bytes(a, n) /\ short' = (short \/ n < b)
           /\ netroom' \in BOOLEAN
           /\ UNCHANGED <<client, exited>>
  <2>1. PICK n \in a + 1..b : toclient' = toclient \o Bytes(a, n) /\ short' = (short \/ n < b)
    BY <1>1
  <2>2. toclient' \in Seq(Nat)
    BY <2>1, BytesType
  <2> QED BY <1>1, <2>1, <2>2
<1>2. CASE client = "closed" /\ client' = "broken" /\ UNCHANGED <<short, toclient, netroom, exited>>
  BY <1>2
<1>3. CASE client = "broken" /\ exited' = TRUE /\ UNCHANGED <<short, client, toclient, netroom>>
  BY <1>3
<1> QED BY <1>1, <1>2, <1>3 DEF WriteClient

(* A chunk of a data list begins where the one before it ends. *)
LEMMA ChunkFacts ==
    ASSUME queue \in Queues, NEW k \in 1..Len(queue)
    PROVE  /\ queue \in Seq(1..ReqLen) /\ Len(queue) \in Nat \ {0}
           /\ queue[k] \in 1..ReqLen
           /\ ChunkStart(k) \in Nat /\ ChunkStart(k) < queue[k]
           /\ ChunkStart(k + 1) = queue[k]
<1>1. queue \in Seq(1..ReqLen) /\ Len(queue) \in Nat \ {0}
  BY QueueAssumption
<1>2. queue[k] \in 1..ReqLen
  BY <1>1, ElementOfSeq
<1>3. ASSUME k # 1 PROVE queue[k - 1] \in 1..ReqLen /\ queue[k - 1] < queue[k]
  <2>1. k - 1 \in 1..Len(queue) /\ k \in 2..Len(queue)
    BY <1>1, <1>3
  <2>2. queue[k - 1] < queue[k]
    BY <2>1, QueueAssumption
  <2> QED BY <1>1, <2>1, <2>2, ElementOfSeq
<1> QED BY <1>1, <1>2, <1>3, LengthAssumption DEF ChunkStart

(* Every step keeps the types: no more is read than was sent, the iterator stays in the list. *)
THEOREM TypeCorrect == Spec => []TypeOK
<1>1. Init => TypeOK
  <2> SUFFICES ASSUME Init PROVE TypeOK
    OBVIOUS
  <2>1. queue \in Seq(1..ReqLen) /\ Len(queue) \in Nat \ {0}
    BY QueueAssumption DEF Init
  <2>2. queue[Len(queue)] \in 1..ReqLen
    <3>1. Len(queue) \in 1..Len(queue)
      BY <2>1
    <3> QED BY <2>1, <3>1, ElementOfSeq
  <2>3. toclient \in Seq(Nat) /\ tochild \in Seq(Nat)
    BY DEF Init
  <2>4. iterator \in 1..Len(queue) + 1
    BY <2>1 DEF Init
  <2>5. nread \in 0..csent /\ csent \in 0..ReqLen /\ rread \in 0..rmade /\ rmade \in 0..RespLen
    BY <2>2, LengthAssumption DEF Init
  <2> QED BY <2>3, <2>4, <2>5 DEF Init, TypeOK
<1>2. TypeOK /\ [Next]_vars => TypeOK'
  <2> SUFFICES ASSUME TypeOK, [Next]_vars PROVE TypeOK'
    OBVIOUS
  <2> USE LengthAssumption
  <2>1. ASSUME Prepare PROVE TypeOK'
    BY <2>1 DEF TypeOK, Prepare, Goto, flags, clientVars, childVars
  <2>2. ASSUME Poll PROVE TypeOK'
    BY <2>2 DEF TypeOK, Poll, PollReturns, PollNetIn, NetReadable, NetWritable, UnixReadable,
       UnixWritable,
       HasData, Goto, flags, clientVars, childVars
  <2>3. ASSUME PollInterrupted PROVE TypeOK'
    BY <2>3 DEF TypeOK, PollInterrupted, Goto, flags, clientVars, childVars
  <2>4. ASSUME PollFails PROVE TypeOK'
    BY <2>4 DEF TypeOK, PollFails, SendAbort, Goto, flags, clientVars, childVars
  <2>5. ASSUME ForwardQueue PROVE TypeOK'
    <3>1. iterator \in 1..Len(queue) /\ Len(queue) \in Nat
      BY <2>5, QueueAssumption DEF ForwardQueue, HasData, TypeOK
    <3>2. ChunkStart(iterator) \in Nat /\ queue[iterator] \in Nat
      BY <3>1, ChunkFacts DEF TypeOK
    <3>3. WriteChild(ChunkStart(iterator), queue[iterator])
      BY <2>5 DEF ForwardQueue
    <3>4. /\ tochild' \in Seq(Nat)
          /\ short' \in BOOLEAN /\ exited' \in BOOLEAN /\ unixroom' \in BOOLEAN
      BY <3>2, <3>3, WriteChildType DEF TypeOK
    <3>5. iterator' \in 1..Len(queue') + 1
      BY <2>5, <3>1 DEF ForwardQueue
    <3> QED BY <2>5, <3>4, <3>5 DEF TypeOK, ForwardQueue, Goto, clientVars
  <2>6. ASSUME ForwardNetwork PROVE TypeOK'
    <3>1. ReadEnd(nread, csent) \in nread..csent
      BY <2>6 DEF ForwardNetwork, ReadEnd, TypeOK
    <3>2. WriteChild(nread, ReadEnd(nread, csent)) /\ nread' = ReadEnd(nread, csent)
      BY <2>6 DEF ForwardNetwork
    <3>3. /\ tochild' \in Seq(Nat)
          /\ short' \in BOOLEAN /\ exited' \in BOOLEAN /\ unixroom' \in BOOLEAN
      BY <3>1, <3>2, WriteChildType DEF TypeOK
    <3>4. nread' \in 0..csent'
      BY <2>6, <3>1, <3>2 DEF ForwardNetwork, clientVars, TypeOK
    <3> QED BY <2>6, <3>3, <3>4 DEF TypeOK, ForwardNetwork, Goto, clientVars
  <2>7. ASSUME ForwardEnds PROVE TypeOK'
    BY <2>7 DEF TypeOK, ForwardEnds, HasData, Goto, flags, clientVars, childVars
  <2>8. ASSUME ForwardNothing PROVE TypeOK'
    BY <2>8 DEF TypeOK, ForwardNothing, HasData, Goto, flags, clientVars, childVars
  <2>9. ASSUME Backward PROVE TypeOK'
    <3>1. ReadEnd(rread, rmade) \in rread..rmade
      BY <2>9 DEF Backward, ReadEnd, TypeOK
    <3>2. WriteClient(rread, ReadEnd(rread, rmade)) /\ rread' = ReadEnd(rread, rmade)
      BY <2>9 DEF Backward
    <3>3. /\ toclient' \in Seq(Nat) /\ client' \in {"open", "broken"}
          /\ short' \in BOOLEAN /\ exited' \in BOOLEAN /\ netroom' \in BOOLEAN
      BY <3>1, <3>2, WriteClientType DEF TypeOK
    <3>4. rread' \in 0..rmade'
      BY <2>9, <3>1, <3>2 DEF Backward, childVars, TypeOK
    <3> QED BY <2>9, <3>3, <3>4 DEF TypeOK, Backward, Goto, childVars
  <2>10. ASSUME BackwardReset PROVE TypeOK'
    BY <2>10 DEF TypeOK, BackwardReset, ReadEnd, Goto, flags, clientVars, childVars
  <2>11. ASSUME BackwardEnds PROVE TypeOK'
    BY <2>11 DEF TypeOK, BackwardEnds, Goto, flags, clientVars, childVars
  <2>12. ASSUME BackwardFails PROVE TypeOK'
    BY <2>12 DEF TypeOK, BackwardFails, SendAbort, Goto, flags, clientVars, childVars
  <2>13. ASSUME BackwardNothing PROVE TypeOK'
    BY <2>13 DEF TypeOK, BackwardNothing, Goto, flags, clientVars, childVars
  <2>14. ASSUME Close PROVE TypeOK'
    BY <2>14 DEF TypeOK, Close, Goto, flags, clientVars, childVars
  <2>15. ASSUME ClientSends PROVE TypeOK'
    BY <2>15 DEF TypeOK, ClientSends, Alive, threadVars, flags, clientVars, childVars
  <2>16. ASSUME ClientReceives PROVE TypeOK'
    BY <2>16 DEF TypeOK, ClientReceives, Alive, threadVars, flags, clientVars, childVars
  <2>17. ASSUME ClientLeaves PROVE TypeOK'
    BY <2>17 DEF TypeOK, ClientLeaves, Alive, threadVars, flags, clientVars, childVars
  <2>18. ASSUME ChildReceives PROVE TypeOK'
    BY <2>18 DEF TypeOK, ChildReceives, Alive, threadVars, flags, clientVars, childVars
  <2>19. ASSUME ChildResponds PROVE TypeOK'
    BY <2>19 DEF TypeOK, ChildResponds, Alive, threadVars, flags, clientVars, childVars
  <2>20. ASSUME ChildCloses PROVE TypeOK'
    BY <2>20 DEF TypeOK, ChildCloses, Alive, threadVars, flags, clientVars, childVars
  <2>21. ASSUME ChildDies PROVE TypeOK'
    BY <2>21 DEF TypeOK, ChildDies, Alive, threadVars, flags, clientVars, childVars
  <2>22. ASSUME UNCHANGED vars PROVE TypeOK'
    BY <2>22 DEF TypeOK, vars, flags, clientVars, childVars
  <2> QED BY <2>1, <2>2, <2>3, <2>4, <2>5, <2>6, <2>7, <2>8, <2>9, <2>10, <2>11, <2>12, <2>13,
     <2>14, <2>15, <2>16, <2>17, <2>18, <2>19, <2>20, <2>21, <2>22 DEF Next, Thread, PollError,
     Ended
<1> QED BY <1>1, <1>2, PTL DEF Spec

-----------------------------------------------------------------------------
(* The request. *)

(* How much of the request has been given to the child. *)
Sent == IF HasData THEN ChunkStart(iterator) ELSE nread

(* Nothing is read past the data list before it is sent; what was given to   *)
(* the child is what it has.                                                 *)
RequestInv ==
    /\ HasData => nread = queue[Len(queue)]
    /\ ~short => tochild = Bytes(0, Len(tochild))
    /\ ~short /\ child = "open" => Len(tochild) = Sent

(* The thread never loses its place in the request. *)
LEMMA RequestInvariant == Spec => []RequestInv
<1>1. Init => RequestInv
  <2> SUFFICES ASSUME Init PROVE RequestInv
    OBVIOUS
  <2>1. Len(queue) \in Nat \ {0}
    BY QueueAssumption DEF Init
  <2>2. HasData /\ Sent = 0
    BY <2>1 DEF Init, Sent, HasData, ChunkStart
  <2>3. Bytes(0, 0) = <<>>
    BY DEF Bytes
  <2> QED BY <2>2, <2>3 DEF Init, RequestInv
<1>2. TypeOK /\ RequestInv /\ [Next]_vars => RequestInv'
  <2> SUFFICES ASSUME TypeOK, RequestInv, [Next]_vars PROVE RequestInv'
    OBVIOUS
  <2>1. ASSUME ForwardQueue PROVE RequestInv'
    <3>1. iterator \in 1..Len(queue) /\ Len(queue) \in Nat /\ UNCHANGED <<queue, nread>>
      BY <2>1, QueueAssumption DEF ForwardQueue, HasData, TypeOK
    <3> DEFINE a == ChunkStart(iterator)
               b == queue[iterator]
    <3>2. a \in Nat /\ b \in Nat /\ a < b /\ ChunkStart(iterator + 1) = b
      BY <3>1, ChunkFacts DEF TypeOK
    <3>3. iterator' = iterator + 1 /\ HasData /\ nread = queue[Len(queue)]
      BY <2>1 DEF ForwardQueue, RequestInv
    <3>4. Sent = a /\ Sent' = b
      <4>1. Sent = a
        BY <3>3 DEF Sent
      <4>2. Sent' = IF iterator + 1 <= Len(queue) THEN b ELSE nread
        BY <3>1, <3>2, <3>3 DEF Sent, HasData, ChunkStart
      <4>3. ~(iterator + 1 <= Len(queue)) => nread = b
        BY <3>1, <3>3
      <4> QED BY <4>1, <4>2, <4>3
    <3>5. HasData' => nread' = queue'[Len(queue')]
      BY <2>1, <3>1 DEF ForwardQueue, RequestInv
    <3>6. CASE child = "closed"
      BY <2>1, <3>5, <3>6 DEF ForwardQueue, WriteChild, RequestInv
    <3>7. CASE child = "open"
      <4>1. PICK n \in a + 1..b : tochild' = tochild \o Bytes(a, n) /\ short' = (short \/ n < b)
        BY <2>1, <3>7 DEF ForwardQueue, WriteChild
      <4>2. ASSUME ~short' PROVE tochild' = Bytes(0, b)
        <5>1. ~short /\ ~(n < b)
          BY <4>1, <4>2
        <5>2. n = b
          BY <3>2, <5>1
        <5>3. tochild = Bytes(0, a)
          BY <2>1, <3>4, <3>7, <5>1 DEF RequestInv
        <5>4. Bytes(0, a) \o Bytes(a, b) = Bytes(0, b)
          <6> HIDE DEF a, b
          <6> QED BY <3>2, BytesJoin
        <5> QED BY <4>1, <5>2, <5>3, <5>4
      <4>3. Len(Bytes(0, b)) = b
        <5> HIDE DEF a, b
        <5> QED BY <3>2, BytesLen
      <4> QED BY <3>2, <3>4, <3>5, <4>2, <4>3 DEF RequestInv
    <3> QED BY <3>6, <3>7 DEF TypeOK
  <2>2. ASSUME ForwardNetwork PROVE RequestInv'
    <3> DEFINE a == nread
               b == ReadEnd(nread, csent)
    <3>1. a \in Nat /\ b \in Nat /\ a < b /\ nread' = b
      BY <2>2, LengthAssumption DEF ForwardNetwork, ReadEnd, TypeOK
    <3>2. ~HasData /\ ~HasData' /\ Sent = a /\ Sent' = b
      BY <2>2, <3>1 DEF ForwardNetwork, HasData, Sent
    <3>3. CASE child = "closed"
      BY <2>2, <3>2, <3>3 DEF ForwardNetwork, WriteChild, RequestInv
    <3>4. CASE child = "open"
      <4>1. PICK n \in a + 1..b : tochild' = tochild \o Bytes(a, n) /\ short' = (short \/ n < b)
        BY <2>2, <3>4 DEF ForwardNetwork, WriteChild
      <4>2. ASSUME ~short' PROVE tochild' = Bytes(0, b)
        <5>1. ~short /\ ~(n < b)
          BY <4>1, <4>2
        <5>2. n = b
          BY <3>1, <5>1
        <5>3. tochild = Bytes(0, a)
          BY <2>2, <3>2, <3>4, <5>1 DEF RequestInv
        <5>4. Bytes(0, a) \o Bytes(a, b) = Bytes(0, b)
          <6> HIDE DEF a, b
          <6> QED BY <3>1, BytesJoin
        <5> QED BY <4>1, <5>2, <5>3, <5>4
      <4>3. Len(Bytes(0, b)) = b
        <5> HIDE DEF a, b
        <5> QED BY <3>1, BytesLen
      <4> QED BY <3>1, <3>2, <4>2, <4>3 DEF RequestInv
    <3> QED BY <3>3, <3>4 DEF TypeOK
  <2>3. ASSUME UNCHANGED <<queue, iterator, nread, tochild>>, short => short',
               child' = "open" => child = "open"
        PROVE  RequestInv'
    BY <2>3 DEF RequestInv, HasData, Sent, ChunkStart
  <2>4. ASSUME Prepare PROVE RequestInv'
    BY <2>3, <2>4 DEF Prepare, Goto, flags, clientVars, childVars
  <2>5. ASSUME Poll PROVE RequestInv'
    BY <2>3, <2>5 DEF Poll, PollReturns, PollNetIn, NetReadable, NetWritable, UnixReadable,
       UnixWritable,
       Goto, flags, clientVars, childVars
  <2>6. ASSUME PollInterrupted PROVE RequestInv'
    BY <2>3, <2>6 DEF PollInterrupted, Goto, flags, clientVars, childVars
  <2>7. ASSUME PollFails PROVE RequestInv'
    BY <2>3, <2>7 DEF PollFails, SendAbort, Goto, flags, clientVars, childVars
  <2>8. ASSUME ForwardEnds PROVE RequestInv'
    BY <2>3, <2>8 DEF ForwardEnds, Goto, flags, clientVars, childVars
  <2>9. ASSUME ForwardNothing PROVE RequestInv'
    BY <2>3, <2>9 DEF ForwardNothing, Goto, flags, clientVars, childVars
  <2>10. ASSUME Backward PROVE RequestInv'
    <3>1. /\ WriteClient(rread, ReadEnd(rread, rmade))
          /\ UNCHANGED <<queue, iterator, nread, tochild, child>>
      BY <2>10 DEF Backward, childVars
    <3>2. short => short'
      BY <3>1 DEF WriteClient
    <3> QED BY <2>3, <2>10, <3>1, <3>2
  <2>11. ASSUME BackwardReset PROVE RequestInv'
    BY <2>3, <2>11 DEF BackwardReset, Goto, flags, clientVars, childVars
  <2>12. ASSUME BackwardEnds PROVE RequestInv'
    BY <2>3, <2>12 DEF BackwardEnds, Goto, flags, clientVars, childVars
  <2>13. ASSUME BackwardFails PROVE RequestInv'
    BY <2>3, <2>13 DEF BackwardFails, SendAbort, Goto, flags, clientVars, childVars
  <2>14. ASSUME BackwardNothing PROVE RequestInv'
    BY <2>3, <2>14 DEF BackwardNothing, Goto, flags, clientVars, childVars
  <2>15. ASSUME Close PROVE RequestInv'
    BY <2>3, <2>15 DEF Close, Goto, flags, clientVars, childVars
  <2>16. ASSUME ClientSends PROVE RequestInv'
    BY <2>3, <2>16 DEF ClientSends, Alive, threadVars, flags, clientVars, childVars
  <2>17. ASSUME ClientReceives PROVE RequestInv'
    BY <2>3, <2>17 DEF ClientReceives, Alive, threadVars, flags, clientVars, childVars
  <2>18. ASSUME ClientLeaves PROVE RequestInv'
    BY <2>3, <2>18 DEF ClientLeaves, Alive, threadVars, flags, clientVars, childVars
  <2>19. ASSUME ChildReceives PROVE RequestInv'
    BY <2>3, <2>19 DEF ChildReceives, Alive, threadVars, flags, clientVars, childVars
  <2>20. ASSUME ChildResponds PROVE RequestInv'
    BY <2>3, <2>20 DEF ChildResponds, Alive, threadVars, flags, clientVars, childVars
  <2>21. ASSUME ChildCloses PROVE RequestInv'
    BY <2>3, <2>21 DEF ChildCloses, Alive, threadVars, flags, clientVars, childVars
  <2>22. ASSUME ChildDies PROVE RequestInv'
    BY <2>3, <2>22 DEF ChildDies, Alive, threadVars, flags, clientVars, childVars
  <2>23. ASSUME UNCHANGED vars PROVE RequestInv'
    BY <2>23 DEF RequestInv, HasData, Sent, ChunkStart, vars, flags, clientVars, childVars
  <2> QED BY <2>1, <2>2, <2>4, <2>5, <2>6, <2>7, <2>8, <2>9, <2>10, <2>11, <2>12, <2>13, <2>14,
     <2>15, <2>16, <2>17, <2>18, <2>19, <2>20, <2>21, <2>22, <2>23 DEF Next, Thread,
     PollError, Ended
<1> QED BY <1>1, <1>2, TypeCorrect, PTL DEF Spec

(* For every data list and every buffer, the child receives the bytes of the *)
(* request once and in order, unless a write() was short.                    *)
THEOREM RequestCorrect == Spec => []RequestInOrder
<1>1. RequestInv => RequestInOrder
  BY DEF RequestInv, RequestInOrder
<1> QED BY <1>1, RequestInvariant, PTL

-----------------------------------------------------------------------------
(* The response. *)

(* A socket that is known to be readable stays so; when the thread stops     *)
(* without an error and the client is there, the child has closed and        *)
(* everything is read.                                                       *)
ResponseInv ==
    /\ ResponseInOrder
    /\ can_read_networksock => nread < csent \/ client # "open"
    /\ can_read_unixsock /\ pc \notin {"close", "done"} => rread < rmade \/ child = "closed"
    /\ pc \in {"close", "done"} /\ client = "open" /\ ~cut => rread = rmade /\ child = "closed"

(* What was read of the response is what the client has. *)
LEMMA ResponseInvariant == Spec => []ResponseInv
<1>1. Init => ResponseInv
  <2>1. Bytes(0, 0) = <<>>
    BY DEF Bytes
  <2> QED BY <2>1 DEF Init, ResponseInv, ResponseInOrder
<1>2. TypeOK /\ ResponseInv /\ [Next]_vars => ResponseInv'
  <2> SUFFICES ASSUME TypeOK, ResponseInv, [Next]_vars PROVE ResponseInv'
    OBVIOUS
  <2>1. ASSUME Prepare PROVE ResponseInv'
    BY <2>1 DEF TypeOK, ResponseInv, ResponseInOrder, Prepare, Goto, flags, clientVars, childVars
  <2>2. ASSUME Poll PROVE ResponseInv'
    BY <2>2 DEF TypeOK, ResponseInv, ResponseInOrder, Poll, PollReturns, PollNetIn,
       NetReadable, NetWritable,
       UnixReadable, UnixWritable, HasData, Goto, flags, clientVars, childVars
  <2>3. ASSUME PollInterrupted PROVE ResponseInv'
    BY <2>3 DEF TypeOK, ResponseInv, ResponseInOrder, PollInterrupted, Goto, flags, clientVars,
       childVars
  <2>4. ASSUME PollFails PROVE ResponseInv'
    BY <2>4 DEF TypeOK, ResponseInv, ResponseInOrder, PollFails, SendAbort, Goto, flags,
       clientVars, childVars
  <2>5. ASSUME ForwardQueue PROVE ResponseInv'
    BY <2>5 DEF TypeOK, ResponseInv, ResponseInOrder, ForwardQueue, WriteChild, HasData,
       ChunkStart, Goto, flags, clientVars, childVars
  <2>6. ASSUME ForwardNetwork PROVE ResponseInv'
    BY <2>6 DEF TypeOK, ResponseInv, ResponseInOrder, ForwardNetwork, WriteChild, HasData,
       ReadEnd, Goto, flags, clientVars, childVars
  <2>7. ASSUME ForwardEnds PROVE ResponseInv'
    BY <2>7 DEF TypeOK, ResponseInv, ResponseInOrder, ForwardEnds, HasData, Goto, flags,
       clientVars, childVars
  <2>8. ASSUME ForwardNothing PROVE ResponseInv'
    BY <2>8 DEF TypeOK, ResponseInv, ResponseInOrder, ForwardNothing, HasData, Goto, flags,
       clientVars, childVars
  <2>9. ASSUME Backward PROVE ResponseInv'
    <3> DEFINE b == ReadEnd(rread, rmade)
    <3>1. b \in Nat /\ rread < b /\ rread \in Nat /\ rread' = b
      BY <2>9, LengthAssumption DEF Backward, ReadEnd, TypeOK
    <3>2. client' = "open" /\ ~short' => toclient' = Bytes(0, b)
      <4>1. SUFFICES ASSUME client' = "open", ~short' PROVE toclient' = Bytes(0, b)
        OBVIOUS
      <4>2. PICK n \in rread + 1..b : /\ toclient' = toclient \o Bytes(rread, n)
                                     /\ short' = (short \/ n < b) /\ client = "open"
        BY <2>9, <4>1 DEF Backward, WriteClient
      <4>3. ~short /\ ~(n < b)
        BY <4>1, <4>2
      <4>4. n = b
        BY <3>1, <4>3
      <4>5. toclient = Bytes(0, rread)
        BY <4>2, <4>3 DEF ResponseInv, ResponseInOrder
      <4>6. Bytes(0, rread) \o Bytes(rread, b) = Bytes(0, b)
        <5> HIDE DEF b
        <5> QED BY <3>1, BytesJoin
      <4> QED BY <4>2, <4>4, <4>5, <4>6
    <3>3. UNCHANGED <<can_read_networksock, nread, csent>> /\ (client = client' \/ client' # "open")
      BY <2>9 DEF Backward, WriteClient
    <3> QED BY <2>9, <3>1, <3>2, <3>3 DEF ResponseInv, ResponseInOrder, Backward, Goto
  <2>10. ASSUME BackwardReset PROVE ResponseInv'
    BY <2>10 DEF TypeOK, ResponseInv, ResponseInOrder, BackwardReset, ReadEnd, Goto, flags,
       clientVars, childVars
  <2>11. ASSUME BackwardEnds PROVE ResponseInv'
    BY <2>11 DEF TypeOK, ResponseInv, ResponseInOrder, BackwardEnds, Goto, flags, clientVars,
       childVars
  <2>12. ASSUME BackwardFails PROVE ResponseInv'
    BY <2>12 DEF TypeOK, ResponseInv, ResponseInOrder, BackwardFails, SendAbort, Goto, flags,
       clientVars, childVars
  <2>13. ASSUME BackwardNothing PROVE ResponseInv'
    BY <2>13 DEF TypeOK, ResponseInv, ResponseInOrder, BackwardNothing, Goto, flags, clientVars,
       childVars
  <2>14. ASSUME Close PROVE ResponseInv'
    BY <2>14 DEF TypeOK, ResponseInv, ResponseInOrder, Close, Goto, flags, clientVars, childVars
  <2>15. ASSUME ClientSends PROVE ResponseInv'
    BY <2>15 DEF TypeOK, ResponseInv, ResponseInOrder, ClientSends, Alive, threadVars, flags,
       clientVars, childVars
  <2>16. ASSUME ClientReceives PROVE ResponseInv'
    BY <2>16 DEF TypeOK, ResponseInv, ResponseInOrder, ClientReceives, Alive, threadVars, flags,
       clientVars, childVars
  <2>17. ASSUME ClientLeaves PROVE ResponseInv'
    BY <2>17 DEF TypeOK, ResponseInv, ResponseInOrder, ClientLeaves, Alive, threadVars, flags,
       clientVars, childVars
  <2>18. ASSUME ChildReceives PROVE ResponseInv'
    BY <2>18 DEF TypeOK, ResponseInv, ResponseInOrder, ChildReceives, Alive, threadVars, flags,
       clientVars, childVars
  <2>19. ASSUME ChildResponds PROVE ResponseInv'
    BY <2>19 DEF TypeOK, ResponseInv, ResponseInOrder, ChildResponds, Alive, threadVars, flags,
       clientVars, childVars
  <2>20. ASSUME ChildCloses PROVE ResponseInv'
    BY <2>20 DEF TypeOK, ResponseInv, ResponseInOrder, ChildCloses, Alive, threadVars, flags,
       clientVars, childVars
  <2>21. ASSUME ChildDies PROVE ResponseInv'
    BY <2>21 DEF TypeOK, ResponseInv, ResponseInOrder, ChildDies, Alive, threadVars, flags,
       clientVars, childVars
  <2>22. ASSUME UNCHANGED vars PROVE ResponseInv'
    BY <2>22 DEF ResponseInv, ResponseInOrder, vars, flags, clientVars, childVars
  <2> QED BY <2>1, <2>2, <2>3, <2>4, <2>5, <2>6, <2>7, <2>8, <2>9, <2>10, <2>11, <2>12, <2>13,
     <2>14, <2>15, <2>16, <2>17, <2>18, <2>19, <2>20, <2>21, <2>22 DEF Next, Thread, PollError,
     Ended
<1> QED BY <1>1, <1>2, TypeCorrect, PTL DEF Spec

(* For every length of the response and every buffer, a client that stays    *)
(* gets the bytes of the response once and in order, unless a write() was    *)
(* short.                                                                    *)
THEOREM ResponseOrdered == Spec => []ResponseInOrder
<1>1. ResponseInv => ResponseInOrder
  BY DEF ResponseInv
<1> QED BY <1>1, ResponseInvariant, PTL

(* It gets all that the child wrote, unless a write() was short or poll()    *)
(* failed: the end of file of the child never overtakes its last bytes.      *)
THEOREM ResponseComplete == Spec => []WholeResponse
<1>1. ResponseInv => WholeResponse
  BY DEF ResponseInv, ResponseInOrder, WholeResponse
<1> QED BY <1>1, ResponseInvariant, PTL

-----------------------------------------------------------------------------
(* Readiness. *)

(* A pair of sockets that is known to be ready is served before the thread   *)
(* calls poll() again.                                                       *)
ReadyServed ==
    /\ pc \in {"back", "poll"} => ~(can_write_unixsock /\ (HasData \/ can_read_networksock))
    /\ pc = "poll" => ~(can_read_unixsock /\ can_write_networksock)

ReadyInv ==
    /\ pc = "prepare" => ~can_read_networksock /\ ~can_write_networksock
                         /\ ~can_read_unixsock /\ ~can_write_unixsock
    /\ ReadinessNotStale
    /\ ReadyServed

(* The flags are true and used. *)
LEMMA ReadyInvariant == Spec => []ReadyInv
<1> USE DEF ReadyInv, ReadinessNotStale, ReadyServed, NetReadable, NetWritable, UnixReadable,
            UnixWritable, HasData
<1>1. Init => ReadyInv
  BY DEF Init
<1>2. TypeOK /\ ReadyInv /\ [Next]_vars => ReadyInv'
  <2> SUFFICES ASSUME TypeOK, ReadyInv, [Next]_vars PROVE ReadyInv'
    OBVIOUS
  <2>1. ASSUME Prepare PROVE ReadyInv'
BY <2>1 DEF TypeOK, Prepare, Goto, flags, clientVars, childVars
  <2>2. ASSUME Poll PROVE ReadyInv'
BY <2>2 DEF TypeOK, Poll, Goto, flags, clientVars, childVars, PollReturns, PollNetIn
  <2>3. ASSUME PollInterrupted PROVE ReadyInv'
BY <2>3 DEF TypeOK, PollInterrupted, Goto, flags, clientVars, childVars
  <2>4. ASSUME PollFails PROVE ReadyInv'
BY <2>4 DEF TypeOK, PollFails, Goto, flags, clientVars, childVars, SendAbort
  <2>5. ASSUME ForwardQueue PROVE ReadyInv'
BY <2>5 DEF TypeOK, ForwardQueue, Goto, flags, clientVars, childVars, WriteChild
  <2>6. ASSUME ForwardNetwork PROVE ReadyInv'
BY <2>6 DEF TypeOK, ForwardNetwork, Goto, flags, clientVars, childVars, WriteChild, ReadEnd
  <2>7. ASSUME ForwardEnds PROVE ReadyInv'
BY <2>7 DEF TypeOK, ForwardEnds, Goto, flags, clientVars, childVars
  <2>8. ASSUME ForwardNothing PROVE ReadyInv'
BY <2>8 DEF TypeOK, ForwardNothing, Goto, flags, clientVars, childVars
  <2>9. ASSUME Backward PROVE ReadyInv'
BY <2>9 DEF TypeOK, Backward, Goto, flags, clientVars, childVars, WriteClient
  <2>10. ASSUME BackwardReset PROVE ReadyInv'
BY <2>10 DEF TypeOK, BackwardReset, Goto, flags, clientVars, childVars
  <2>11. ASSUME BackwardEnds PROVE ReadyInv'
BY <2>11 DEF TypeOK, BackwardEnds, Goto, flags, clientVars, childVars
  <2>12. ASSUME BackwardFails PROVE ReadyInv'
BY <2>12 DEF TypeOK, BackwardFails, Goto, flags, clientVars, childVars, SendAbort
  <2>13. ASSUME BackwardNothing PROVE ReadyInv'
BY <2>13 DEF TypeOK, BackwardNothing, Goto, flags, clientVars, childVars
  <2>14. ASSUME Close PROVE ReadyInv'
BY <2>14 DEF TypeOK, Close, Goto, flags, clientVars, childVars
  <2>15. ASSUME ClientSends PROVE ReadyInv'
BY <2>15 DEF TypeOK, ClientSends, Goto, flags, clientVars, childVars, Alive, threadVars
  <2>16. ASSUME ClientReceives PROVE ReadyInv'
BY <2>16 DEF TypeOK, ClientReceives, Goto, flags, clientVars, childVars, Alive, threadVars
  <2>17. ASSUME ClientLeaves PROVE ReadyInv'
BY <2>17 DEF TypeOK, ClientLeaves, Goto, flags, clientVars, childVars, Alive, threadVars
  <2>18. ASSUME ChildReceives PROVE ReadyInv'
BY <2>18 DEF TypeOK, ChildReceives, Goto, flags, clientVars, childVars, Alive, threadVars
  <2>19. ASSUME ChildResponds PROVE ReadyInv'
BY <2>19 DEF TypeOK, ChildResponds, Goto, flags, clientVars, childVars, Alive, threadVars
  <2>20. ASSUME ChildCloses PROVE ReadyInv'
BY <2>20 DEF TypeOK, ChildCloses, Goto, flags, clientVars, childVars, Alive, threadVars
  <2>21. ASSUME ChildDies PROVE ReadyInv'
BY <2>21 DEF TypeOK, ChildDies, Goto, flags, clientVars, childVars, Alive, threadVars
  <2>22. ASSUME UNCHANGED vars PROVE ReadyInv'
    BY <2>22 DEF vars, flags, clientVars, childVars
<2> QED BY <2>1, <2>2, <2>3, <2>4, <2>5, <2>6, <2>7, <2>8, <2>9, <2>10, <2>11, <2>12, <2>13,
     <2>14, <2>15, <2>16, <2>17, <2>18, <2>19, <2>20, <2>21, <2>22 DEF Next, Thread, PollError,
     Ended
<1> QED BY <1>1, <1>2, TypeCorrect, PTL DEF Spec

(* No read() or write() relies on a readiness that is gone, for every buffer *)
(* and whatever the peers do between two calls of poll().                    *)
THEOREM ReadinessTrue == Spec => []ReadinessNotStale
<1>1. ReadyInv => ReadinessNotStale
  BY DEF ReadyInv
<1> QED BY <1>1, ReadyInvariant, PTL

(* The thread never sleeps over bytes that it could carry: the place in the  *)
(* request and in the response (RequestInv, ResponseInv) and the flags       *)
(* (ReadyInv) together.                                                      *)
THEOREM SleepsOnlyIdle == Spec => []NothingHeldBack
<1>1. TypeOK /\ RequestInv /\ ResponseInv /\ ReadyInv => NothingHeldBack
  <2> SUFFICES ASSUME TypeOK, RequestInv, ResponseInv, ReadyInv, pc = "poll", ~PollReturns, ~short
               PROVE  /\ child = "open" /\ unixroom => Len(tochild) = csent
                      /\ client = "open" /\ netroom => Len(toclient) = rmade
    BY DEF NothingHeldBack
  <2>1. ASSUME child = "open", unixroom PROVE Len(tochild) = csent
    <3>1. can_write_unixsock
      BY <2>1 DEF PollReturns, UnixWritable
    <3>2. ~HasData /\ ~can_read_networksock
      BY <3>1 DEF ReadyInv, ReadyServed
    <3>3. ~(nread < csent)
      BY <3>2 DEF PollReturns, PollNetIn, NetReadable
    <3>4. Len(tochild) = nread
      BY <2>1, <3>2 DEF RequestInv, Sent
    <3> QED BY <3>3, <3>4 DEF TypeOK
  <2>2. ASSUME client = "open", netroom PROVE Len(toclient) = rmade
    <3>1. can_write_networksock
      BY <2>2 DEF PollReturns, NetWritable
    <3>2. ~can_read_unixsock
      BY <3>1 DEF ReadyInv, ReadyServed
    <3>3. ~(rread < rmade)
      BY <3>2 DEF PollReturns, UnixReadable
    <3>4. rread \in Nat /\ rread = rmade
      BY <3>3, LengthAssumption DEF TypeOK
    <3>5. toclient = Bytes(0, rread)
      BY <2>2 DEF ResponseInv, ResponseInOrder
    <3> QED BY <3>4, <3>5, BytesLen
  <2> QED BY <2>1, <2>2
<1> QED BY <1>1, TypeCorrect, RequestInvariant, ResponseInvariant, ReadyInvariant, PTL
=============================================================================
