---------------------------- MODULE MCEventSync ----------------------------
(* Two devices and a database with one event; push() can mint more keys.   *)
EXTENDS EventSync, TLC

CONSTANTS k1, k2, d1, d2

\* One event, as another program left it: it has attendees, but lacks a field
\* that _saveEvent always writes.
BareEvent == k1 :> [details |-> d1, attendees |-> 3] @@ k2 :> Nothing

\* One event as the pages write it.
OneEvent ==
  k1 :> [details |-> d1, attendees |-> 3, capacity |-> 5] @@ k2 :> Nothing

\* The same event in a database that takes no others.
OnlyEvent == k1 :> OneEvent[k1]

\* A typed capacity; negative numbers validate as well.
TypedCapacities == {-1}
StoredNumbers == {-1, 0, 3, 5}
=============================================================================
