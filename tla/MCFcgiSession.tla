---------------------------- MODULE MCFcgiSession ----------------------------
(* Requests and projects for TLC. *)
EXTENDS FcgiSession

CONSTANTS pa, pb, pd, query, path, va, vb

Rec(type, len) == [type |-> type, role |-> "none", len |-> len, pad |-> 0, pairs |-> <<>>]
Begin(r) == [Rec("begin", 8) EXCEPT !.role = r]
Params(len, pairs) == [Rec("params", len) EXCEPT !.pairs = pairs]
Pair(k, v) == [name |-> k, value |-> v]
NoMore == Rec("params", 0)
EndStdin == Rec("stdin", 0)

MCKey == {query, path}
MCValue == {va, vb}

(* pb also accepts what pa accepts, and comes later. What neither accepts    *)
(* comes to an expression that does not compile.                             *)
MCSections == <<[name |-> pa, key |-> query, values |-> {va}, compiles |-> TRUE],
                [name |-> pb, key |-> query, values |-> {va, vb}, compiles |-> TRUE],
                [name |-> pd, key |-> path, values |-> {va}, compiles |-> FALSE]>>

(* A short and a long params record; two parameters of one name; a body;     *)
(* another role; padding; a management record; an aborted request.           *)
MCRequests == {
    <<Begin("responder"), Params(5, <<Pair(query, va)>>), NoMore, EndStdin>>,
    <<Begin("responder"), Params(11, <<Pair(path, va)>>),
      Params(3, <<Pair(query, vb), Pair(query, va)>>), NoMore, Rec("stdin", 10), EndStdin>>,
    <<Begin("authorizer"), Params(4, <<Pair(query, va)>>), NoMore, EndStdin>>,
    <<Begin("responder"), [Params(4, <<Pair(query, va)>>) EXCEPT !.pad = 4], NoMore, EndStdin>>,
    <<Begin("responder"), NoMore, Rec("abort", 0)>>,
    <<Rec("get_values", 3)>> }
=============================================================================
