----------------------------- MODULE EventSync -----------------------------
(***************************************************************************)
(* Organizers' devices that create, edit and delete events of one Firebase *)
(* Realtime Database: _saveEvent of CreateEventPage, and the edit and      *)
(* delete buttons and the StreamBuilder of DashboardScreen.                *)
(*                                                                         *)
(* The database is not part of the repository; it is modelled as the code  *)
(* uses it.  A device applies its writes to its own copy at once, sends    *)
(* them in order, and sends those again whose acknowledgement it has not   *)
(* seen when the connection comes back; the future a page awaits completes *)
(* with the acknowledgement.  The app enables no disk persistence, so what *)
(* has not been sent when the process dies is lost.                        *)
(***************************************************************************)
EXTENDS EventModel, Sequences

CONSTANTS
  Clients,     \* devices
  Keys,        \* children of "events": those that exist and those push() mints
  Details,     \* the texts a form may hold when it validates
  Numbers,     \* the integers the database may hold
  Capacities,  \* those a form may hold as a capacity: any integer validates
  Seed,        \* the database the app finds: a node for every key
  MaxTaps,     \* bound: taps on Save and on Delete, over all devices
  MaxDrops     \* bound: lost connections and killed processes

Node == UNION {[D -> Details \cup Numbers] : D \in SUBSET Fields}

ASSUME EventSyncAssumption ==
  /\ Capacities \cup {0} \subseteq Numbers
  /\ Seed \in [Keys -> Node]
  /\ MaxTaps \in Nat
  /\ MaxDrops \in Nat

VARIABLES
  server,   \* the events in the database
  loaded,   \* the device's StreamBuilder has received a snapshot
  seen,     \* the last snapshot it received
  queue,    \* the device's writes that are not acknowledged
  applied,  \* how many of them the server has applied on this connection
  form,     \* CreateEventPage, if it is open
  dialog,   \* the event the delete dialog asks about, or None
  minted,   \* keys that exist or that push() has returned
  taps,     \* taps so far: every tap makes one write, which carries its number
  drops,    \* connections lost and processes killed so far
  saved,    \* history: every map _saveEvent has submitted, with its key
  landed,   \* history: the taps whose write reached the server
  told      \* history: the taps that were answered with a success message

device == <<loaded, seen, queue, applied, form, dialog>>
history == <<saved, landed, told>>
vars == <<server, device, minted, taps, drops, history>>

None == "none"
ClosedForm == [mode |-> "closed", key |-> None, attendees |-> 0]

\* The effect of a write on a node: update() writes the fields it is given and
\* leaves the others alone, set() replaces the node; remove() is set(null).
Written(node, w) ==
  IF w.op = "update"
  THEN [f \in DOMAIN node \cup DOMAIN w.data |->
          IF f \in DOMAIN w.data THEN w.data[f] ELSE node[f]]
  ELSE w.data

-----------------------------------------------------------------------------
(* What a device shows *)

Touches(c, k) == {i \in DOMAIN queue[c] : queue[c][i].key = k}
LastTouches(c, k) == {i \in Touches(c, k) : \A j \in Touches(c, k) : j <= i}

\* The node a device shows for a key, as a set of one node: the last snapshot
\* with the device's own writes on top.  Every write of the app is a whole
\* record, so of several writes to the key only the last one shows.
Shown(c, k) ==
  {Written(seen[c][k], queue[c][i]) : i \in LastTouches(c, k)}
    \cup {n \in {seen[c][k]} : Touches(c, k) = {}}

\* The entries of the dashboard's list.
Listed(c) == {k \in Keys : loaded[c] /\ Nothing \notin Shown(c, k)}

\* The body of DashboardScreen.
DashboardBody(c) ==
  IF ~loaded[c] \/ \A k \in Keys : Shown(c, k) = {Nothing} THEN "spinner"
  ELSE IF Listed(c) = {} THEN "No events created yet" ELSE "events"

-----------------------------------------------------------------------------
(* The pages *)

Idle(c) == form[c].mode = "closed" /\ dialog[c] = None

\* Pages that have closed no longer wait for the writes they made.
Abandoned(writes, page) ==
  [i \in DOMAIN writes |->
     IF writes[i].from = page THEN [writes[i] EXCEPT !.from = "gone"]
     ELSE writes[i]]

OpenCreate(c) ==
  /\ Idle(c)
  /\ form' = [form EXCEPT ![c] =
       [mode |-> "create", key |-> None, attendees |-> 0]]
  /\ UNCHANGED <<server, loaded, seen, queue, applied, dialog, minted, taps,
                 drops, history>>

\* Mutant: the copy of the event makes an edit form, with or without its key.
OpenEditWithoutId(c) ==
  /\ Idle(c)
  /\ \E k \in Listed(c) : \E node \in Shown(c, k) :
       form' = [form EXCEPT ![c] =
         [mode |-> "edit", key |-> None, attendees |-> fromMap(node).attendees]]
  /\ UNCHANGED <<server, loaded, seen, queue, applied, dialog, minted, taps,
                 drops, history>>

\* The form keeps a copy of the event as it was listed when Edit was tapped.
OpenEdit(c) ==
  /\ Idle(c)
  /\ \E k \in Listed(c) : \E node \in Shown(c, k) :
       form' = [form EXCEPT ![c] =
         [mode |-> "edit", key |-> k, attendees |-> fromMap(node).attendees]]
  /\ UNCHANGED <<server, loaded, seen, queue, applied, dialog, minted, taps,
                 drops, history>>

CancelForm(c) ==
  /\ form[c].mode # "closed"
  /\ form' = [form EXCEPT ![c] = ClosedForm]
  /\ queue' = [queue EXCEPT ![c] = Abandoned(queue[c], "form")]
  /\ UNCHANGED <<server, loaded, seen, applied, dialog, minted, taps, drops,
                 history>>

\* Mutant: every save starts counting attendees anew.
SubmittedFresh(c, d, n) ==
  [details |-> d, attendees |-> 0, capacity |-> n]

\* Mutant: an edit sends the texts only and trusts update() to merge them.
SubmittedTexts(c, d, n) ==
  IF form[c].mode = "edit" THEN [details |-> d]
  ELSE [details |-> d, attendees |-> 0, capacity |-> n]

\* The map _saveEvent builds: in edit mode the attendees are the ones the form
\* was opened with, otherwise 0.
Submitted(c, d, n) ==
  [details   |-> d,
   attendees |-> IF form[c].mode = "edit" THEN form[c].attendees ELSE 0,
   capacity  |-> n]

\* A write joins the device's queue; the page it comes from awaits it.
Send(c, w) ==
  /\ taps < MaxTaps
  /\ taps' = taps + 1
  /\ queue' = [queue EXCEPT ![c] = Append(queue[c], w)]

\* Mutant: the success message does not wait for the write.
SaveEditUnawaited(c) ==
  /\ form[c].mode = "edit"
  /\ \E d \in Details, n \in Capacities :
       /\ Send(c, [key |-> form[c].key, op |-> "update",
                   data |-> Submitted(c, d, n), from |-> "gone",
                   tap |-> taps + 1])
       /\ saved' = saved \cup {<<form[c].key, Submitted(c, d, n)>>}
  /\ told' = told \cup {taps + 1}
  /\ form' = [form EXCEPT ![c] = ClosedForm]
  /\ UNCHANGED <<server, loaded, seen, applied, dialog, minted, drops, landed>>

\* _saveEvent up to its await, once the form validates: update() in edit mode,
\* push().set() otherwise.  Nothing disables the button meanwhile, so the same
\* form may be saved again before the first save has completed.
SaveEdit(c) ==
  /\ form[c].mode = "edit"
  /\ \E d \in Details, n \in Capacities :
       /\ Send(c, [key |-> form[c].key, op |-> "update",
                   data |-> Submitted(c, d, n), from |-> "form",
                   tap |-> taps + 1])
       /\ saved' = saved \cup {<<form[c].key, Submitted(c, d, n)>>}
  /\ UNCHANGED <<server, loaded, seen, applied, form, dialog, minted, drops,
                 landed, told>>

SaveCreate(c) ==
  /\ form[c].mode = "create"
  /\ \E k \in Keys \ minted, d \in Details, n \in Capacities :
       /\ Send(c, [key |-> k, op |-> "set", data |-> Submitted(c, d, n),
                   from |-> "form", tap |-> taps + 1])
       /\ saved' = saved \cup {<<k, Submitted(c, d, n)>>}
       /\ minted' = minted \cup {k}
  /\ UNCHANGED <<server, loaded, seen, applied, form, dialog, drops, landed,
                 told>>

OpenDelete(c) ==
  /\ Idle(c)
  /\ \E k \in Listed(c) : dialog' = [dialog EXCEPT ![c] = k]
  /\ UNCHANGED <<server, loaded, seen, queue, applied, form, minted, taps,
                 drops, history>>

DismissDelete(c) ==
  /\ dialog[c] # None
  /\ dialog' = [dialog EXCEPT ![c] = None]
  /\ queue' = [queue EXCEPT ![c] = Abandoned(queue[c], "dialog")]
  /\ UNCHANGED <<server, loaded, seen, applied, form, minted, taps, drops,
                 history>>

\* The Delete button of the dialog, up to its await.
ConfirmDelete(c) ==
  /\ dialog[c] # None
  /\ Send(c, [key |-> dialog[c], op |-> "set", data |-> Nothing,
              from |-> "dialog", tap |-> taps + 1])
  /\ UNCHANGED <<server, loaded, seen, applied, form, dialog, minted, drops,
                 history>>

-----------------------------------------------------------------------------
(* The database and the network *)

\* The server applies a device's next write.
Apply(c) ==
  /\ applied[c] < Len(queue[c])
  /\ LET w == queue[c][applied[c] + 1]
     IN  /\ server' = [server EXCEPT ![w.key] = Written(server[w.key], w)]
         /\ landed' = landed \cup {w.tap}
  /\ applied' = [applied EXCEPT ![c] = applied[c] + 1]
  /\ UNCHANGED <<loaded, seen, queue, form, dialog, minted, taps, drops, saved,
                 told>>

\* What follows the await of _saveEvent and of the Delete button: a success
\* message and a pop of the page, unless the page has closed meanwhile (then
\* _saveEvent throws and the dialog's mounted check skips the rest).  The
\* server has sent the data it now holds before it acknowledges.
Acknowledge(c) ==
  /\ applied[c] > 0
  /\ LET w == Head(queue[c])
     IN  /\ queue' = [queue EXCEPT ![c] = Abandoned(Tail(queue[c]), w.from)]
         /\ told' = IF w.from = "gone" THEN told ELSE told \cup {w.tap}
         /\ form' = IF w.from = "form" THEN [form EXCEPT ![c] = ClosedForm]
                    ELSE form
         /\ dialog' = IF w.from = "dialog" THEN [dialog EXCEPT ![c] = None]
                      ELSE dialog
  /\ applied' = [applied EXCEPT ![c] = applied[c] - 1]
  /\ seen' = [seen EXCEPT ![c] = server]
  /\ UNCHANGED <<server, loaded, minted, taps, drops, saved, landed>>

\* The server refuses a write: the future completes with an error, nothing
\* catches it and the page stays open.
Refuse(c) ==
  /\ applied[c] = 0
  /\ queue[c] # <<>>
  /\ queue' = [queue EXCEPT ![c] = Tail(queue[c])]
  /\ UNCHANGED <<server, loaded, seen, applied, form, dialog, minted, taps,
                 drops, history>>

\* Mutant: the page reads the events once instead of listening to them.
DeliverOnce(c) ==
  /\ ~loaded[c]
  /\ loaded' = [loaded EXCEPT ![c] = TRUE]
  /\ seen' = [seen EXCEPT ![c] = server]
  /\ UNCHANGED <<server, queue, applied, form, dialog, minted, taps, drops,
                 history>>

\* onValue delivers the present events to the StreamBuilder of the page.
Deliver(c) ==
  /\ ~loaded[c] \/ seen[c] # server
  /\ loaded' = [loaded EXCEPT ![c] = TRUE]
  /\ seen' = [seen EXCEPT ![c] = server]
  /\ UNCHANGED <<server, queue, applied, form, dialog, minted, taps, drops,
                 history>>

\* The connection breaks before the acknowledgements arrive: everything that
\* is not acknowledged is sent again.
Reconnect(c) ==
  /\ drops < MaxDrops
  /\ applied[c] > 0
  /\ drops' = drops + 1
  /\ applied' = [applied EXCEPT ![c] = 0]
  /\ UNCHANGED <<server, loaded, seen, queue, form, dialog, minted, taps,
                 history>>

\* The process is killed and the app started again.
Restart(c) ==
  /\ drops < MaxDrops
  /\ drops' = drops + 1
  /\ loaded' = [loaded EXCEPT ![c] = FALSE]
  /\ queue' = [queue EXCEPT ![c] = <<>>]
  /\ applied' = [applied EXCEPT ![c] = 0]
  /\ form' = [form EXCEPT ![c] = ClosedForm]
  /\ dialog' = [dialog EXCEPT ![c] = None]
  /\ UNCHANGED <<server, seen, minted, taps, history>>

-----------------------------------------------------------------------------
Init ==
  /\ server = Seed
  /\ loaded = [c \in Clients |-> FALSE]
  /\ seen = [c \in Clients |-> Seed]
  /\ queue = [c \in Clients |-> <<>>]
  /\ applied = [c \in Clients |-> 0]
  /\ form = [c \in Clients |-> ClosedForm]
  /\ dialog = [c \in Clients |-> None]
  /\ minted = {k \in Keys : Seed[k] # Nothing}
  /\ taps = 0
  /\ drops = 0
  /\ saved = {}
  /\ landed = {}
  /\ told = {}

Pages(c) ==
  \/ OpenCreate(c) \/ OpenEdit(c) \/ CancelForm(c)
  \/ SaveEdit(c) \/ SaveCreate(c)
  \/ OpenDelete(c) \/ DismissDelete(c) \/ ConfirmDelete(c)

Network(c) ==
  \/ Apply(c) \/ Acknowledge(c) \/ Refuse(c) \/ Deliver(c)
  \/ Reconnect(c) \/ Restart(c)

Next == \E c \in Clients : Pages(c) \/ Network(c)

Spec == Init /\ [][Next]_vars

\* The device and the server go on exchanging writes, acknowledgements and
\* snapshots while they are connected; nobody has to tap anything.
FairSpec ==
  /\ Spec
  /\ \A c \in Clients :
       WF_vars(Apply(c)) /\ WF_vars(Acknowledge(c)) /\ WF_vars(Deliver(c))

-----------------------------------------------------------------------------
(* Properties *)

Write ==
  [key : Keys, op : {"set", "update"}, data : Node,
   from : {"form", "dialog", "gone"}, tap : 1..MaxTaps]

\* The type of every variable.
TypeOK ==
  /\ server \in [Keys -> Node]
  /\ loaded \in [Clients -> BOOLEAN]
  /\ seen \in [Clients -> [Keys -> Node]]
  /\ queue \in [Clients -> Seq(Write)]
  /\ applied \in [Clients -> Nat]
  /\ \A c \in Clients : applied[c] <= Len(queue[c])
  /\ form \in [Clients -> [mode : {"closed", "create", "edit"},
                           key : Keys \cup {None}, attendees : Details \cup Numbers]]
  /\ \A c \in Clients : form[c].mode = "edit" => form[c].key \in Keys
  /\ dialog \in [Clients -> Keys \cup {None}]
  /\ minted \subseteq Keys
  /\ taps \in 0..MaxTaps
  /\ drops \in 0..MaxDrops
  /\ saved \subseteq Keys \X Node
  /\ landed \subseteq 1..MaxTaps
  /\ told \subseteq 1..MaxTaps

\* No page counts attendees, so however edits race with edits, deletions,
\* resent writes and killed devices, an event in the database has the attendees
\* it was found with, and an event made by the app has none (_saveEvent copies
\* the number the form was opened with).
AttendeesKept ==
  \A k \in Keys : server[k] # Nothing =>
    fromMap(server[k]).attendees = fromMap(Seed[k]).attendees

\* Concurrent edits never mix: an event is as it was found or exactly as one
\* form submitted it, because _saveEvent writes every field with every update.
WholeRecords ==
  \A k \in Keys :
    server[k] \in {Nothing, Seed[k]} \/ <<k, server[k]>> \in saved

\* "Event Created Successfully", "Event Updated Successfully" and "... deleted"
\* appear only for a write the server has applied, which therefore survives
\* the death of the device: the pages await the write before they say so.
SuccessIsDurable == told \subseteq landed

\* Once nobody taps and no connection breaks any more, every dashboard comes to
\* show what the database holds, and keeps showing it.
Converges ==
  <>[](\A c \in Clients : loaded[c] /\ \A k \in Keys : Shown(c, k) = {server[k]})

\* dashboard_page.dart calls the button "Edit button - Update operation": saving
\* the form it opens must not bring an event into being.
UpdateNeverCreates ==
  [][\A c \in Clients :
       applied'[c] > applied[c] /\ queue[c][applied'[c]].op = "update" =>
         server[queue[c][applied'[c]].key] # Nothing]_vars

\* dashboard_page.dart has a text for a database without events: a dashboard
\* that has received such a snapshot must show it.
EmptyDashboardSaysSo ==
  \A c \in Clients : loaded[c] /\ Listed(c) = {} =>
    DashboardBody(c) = "No events created yet"
=============================================================================
