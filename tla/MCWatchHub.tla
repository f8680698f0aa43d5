----------------------------- MODULE MCWatchHub ------------------------------
(***************************************************************************)
(* Small instances of WatchHub: the number 1 and the string "1", which     *)
(* share a key, and an id of another key.                                  *)
(***************************************************************************)
EXTENDS WatchHub, FiniteSets, TLC

One       == [kind |-> "number", text |-> "1"]
OneString == [kind |-> "string", text |-> "1"]
Two       == [kind |-> "number", text |-> "2"]

OneKey     == {One}
MixedIds   == {One, OneString, Two}

Symmetry == Permutations(Requests)

\* Three requests and one event, or two requests and as many events as it
\* takes for a receiver to lag.
FewAtOnce == sent + Cardinality({q \in Requests : Received(q)}) <= 4
=============================================================================
