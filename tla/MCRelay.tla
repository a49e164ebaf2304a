------------------------------- MODULE MCRelay -------------------------------
(* Data lists for TLC: a cut header, a cut begin record, the whole record in *)
(* one chunk or with more in the next.                                       *)
EXTENDS Relay

MCWholeHeaders == {<<2>>, <<3>>, <<2, 4>>, <<3, 4>>}
MCQueues == MCWholeHeaders \cup {<<1, 3>>}
=============================================================================
