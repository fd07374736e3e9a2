----------------------------- MODULE MCConsole -----------------------------
(* The console on a small instance: two ids to draw, so that ids collide,   *)
(* a third one to type, and capacities on both sides of the interesting     *)
(* counts.                                                                  *)
EXTENDS Console, TLC

=============================================================================
