----------------------------- MODULE EventModel -----------------------------
(***************************************************************************)
(* The Event class of src/event_system/lib/models/event.dart and the       *)
(* database node it is read from.  A node holds the fields somebody wrote; *)
(* a node without fields does not exist, as in the Realtime Database.      *)
(* Title, date, time, location and image only travel together from a form  *)
(* to the screen, so they are one field, details.                          *)
(***************************************************************************)
EXTENDS Integers

Fields == {"details", "attendees", "capacity"}

\* snapshot.value == null
Nothing == [f \in {} |-> 0]

\* What fromMap and the edit form put in the place of a missing text.
Blank == ""

FieldOr(node, f, default) == IF f \in DOMAIN node THEN node[f] ELSE default

\* Event.fromMap
fromMap(node) ==
  [details   |-> FieldOr(node, "details", Blank),
   attendees |-> FieldOr(node, "attendees", 0),
   capacity  |-> FieldOr(node, "capacity", 0)]
=============================================================================
