-------------------------- MODULE EventSyncProofs --------------------------
(***************************************************************************)
(* Proofs about the devices and the database, for any number of devices,   *)
(* any database the app may find and any bounds: the type invariant, and   *)
(* that racing edits, deletions, resent writes and killed devices neither  *)
(* lose attendees nor mix two forms nor make a success message untrue.     *)
(***************************************************************************)
EXTENDS EventSync, SequenceTheorems, TLAPS

-----------------------------------------------------------------------------
(* Nodes, writes and queues *)

\* A node somebody submits with all its fields is a node.
LEMMA SubmittedIsNode ==
  ASSUME NEW d \in Details, NEW n \in Capacities,
         NEW a \in Details \cup Numbers
  PROVE  /\ [details |-> d, attendees |-> a, capacity |-> n] \in Node
         /\ DOMAIN [details |-> d, attendees |-> a, capacity |-> n] = Fields
<1> DEFINE r == [details |-> d, attendees |-> a, capacity |-> n]
<1>1. DOMAIN r = Fields
  BY DEF Fields
<1>2. \A f \in Fields : r[f] \in Details \cup Numbers
  BY EventSyncAssumption DEF Fields, EventSyncAssumption
<1>3. r = [f \in Fields |-> r[f]]
  BY <1>1
<1>4. r \in [Fields -> Details \cup Numbers]
  BY <1>2, <1>3
<1> QED
  BY <1>1, <1>4 DEF Node

LEMMA NothingIsNode == Nothing \in Node
<1>1. Nothing \in [{} -> Details \cup Numbers]
  BY DEF Nothing
<1> QED
  BY <1>1 DEF Node

\* The attendees fromMap reads from a node.
LEMMA AttendeesType ==
  ASSUME NEW node \in Node
  PROVE  fromMap(node).attendees \in Details \cup Numbers
<1>1. PICK D \in SUBSET Fields : node \in [D -> Details \cup Numbers]
  BY DEF Node
<1> QED
  BY <1>1, EventSyncAssumption DEF fromMap, FieldOr, EventSyncAssumption

LEMMA WrittenType ==
  ASSUME NEW node \in Node, NEW w \in Write
  PROVE  Written(node, w) \in Node
<1>1. PICK D \in SUBSET Fields : node \in [D -> Details \cup Numbers]
  BY DEF Node
<1>2. w.data \in Node
  BY DEF Write
<1>3. PICK E \in SUBSET Fields : w.data \in [E -> Details \cup Numbers]
  BY <1>2 DEF Node
<1>4. [f \in DOMAIN node \cup DOMAIN w.data |->
         IF f \in DOMAIN w.data THEN w.data[f] ELSE node[f]]
        \in [D \cup E -> Details \cup Numbers]
  BY <1>1, <1>3
<1>5. D \cup E \in SUBSET Fields
  OBVIOUS
<1>6. [f \in DOMAIN node \cup DOMAIN w.data |->
         IF f \in DOMAIN w.data THEN w.data[f] ELSE node[f]] \in Node
  BY <1>4, <1>5 DEF Node
<1> QED
  BY <1>2, <1>6 DEF Written

\* Abandoned changes nothing of a write but the page that awaits it.
LEMMA AbandonedType ==
  ASSUME NEW q \in Seq(Write), NEW page
  PROVE  /\ Abandoned(q, page) \in Seq(Write)
         /\ Len(Abandoned(q, page)) = Len(q)
         /\ DOMAIN Abandoned(q, page) = DOMAIN q
         /\ \A i \in DOMAIN q :
              /\ Abandoned(q, page)[i].key = q[i].key
              /\ Abandoned(q, page)[i].op = q[i].op
              /\ Abandoned(q, page)[i].data = q[i].data
              /\ Abandoned(q, page)[i].tap = q[i].tap
              /\ Abandoned(q, page)[i].from =
                   IF q[i].from = page THEN "gone" ELSE q[i].from
<1> DEFINE ab == Abandoned(q, page)
<1>1. /\ DOMAIN ab = DOMAIN q
      /\ \A i \in DOMAIN q :
           ab[i] = IF q[i].from = page THEN [q[i] EXCEPT !.from = "gone"]
                   ELSE q[i]
  BY DEF Abandoned
<1>2. ASSUME NEW i \in DOMAIN q
      PROVE  /\ ab[i] \in Write
             /\ ab[i].key = q[i].key /\ ab[i].op = q[i].op
             /\ ab[i].data = q[i].data /\ ab[i].tap = q[i].tap
             /\ ab[i].from = IF q[i].from = page THEN "gone" ELSE q[i].from
  <2>1. q[i] \in Write
    OBVIOUS
  <2> QED
    BY <1>1, <2>1 DEF Write
<1>3. ab = [i \in 1..Len(q) |-> ab[i]]
  BY DEF Abandoned
<1>4. ab \in Seq(Write) /\ Len(ab) = Len(q)
  <2>1. Len(q) \in Nat /\ DOMAIN q = 1..Len(q)
    BY LenProperties
  <2>2. ab \in [1..Len(q) -> Write]
    BY <1>2, <1>3, <2>1
  <2>3. ab \in Seq(Write)
    BY <2>1, <2>2, SeqDef
  <2>4. Len(ab) \in Nat /\ DOMAIN ab = 1..Len(ab)
    BY <2>3, LenProperties
  <2> QED
    BY <1>1, <2>1, <2>3, <2>4
<1> QED
  BY <1>1, <1>2, <1>4

\* A device shows nodes.
LEMMA ShownType ==
  ASSUME TypeOK, NEW c \in Clients, NEW k \in Keys, NEW node \in Shown(c, k)
  PROVE  node \in Node
<1>1. seen[c][k] \in Node /\ queue[c] \in Seq(Write)
  BY DEF TypeOK
<1>2. ASSUME NEW i \in DOMAIN queue[c]
      PROVE  Written(seen[c][k], queue[c][i]) \in Node
  BY <1>1, WrittenType
<1> QED
  BY <1>1, <1>2 DEF Shown, LastTouches, Touches

-----------------------------------------------------------------------------
(* Type correctness *)

\* A tap adds one write to one queue.
LEMMA SendType ==
  ASSUME TypeOK, NEW c \in Clients, NEW w \in [key : Keys,
           op : {"set", "update"}, data : Node,
           from : {"form", "dialog", "gone"}, tap : {taps + 1}],
         Send(c, w)
  PROVE  /\ w \in Write
         /\ queue' \in [Clients -> Seq(Write)]
         /\ taps' \in 0..MaxTaps /\ taps' = taps + 1
         /\ queue'[c] = Append(queue[c], w)
         /\ \A e \in Clients : Len(queue[e]) <= Len(queue'[e])
<1>1. taps \in 0..MaxTaps /\ taps < MaxTaps /\ taps' = taps + 1
  BY DEF TypeOK, Send
<1>2. taps + 1 \in 1..MaxTaps /\ taps' \in 0..MaxTaps
  BY <1>1, EventSyncAssumption DEF EventSyncAssumption
<1>3. w \in Write
  BY <1>2 DEF Write
<1>4. queue \in [Clients -> Seq(Write)]
  BY DEF TypeOK
<1>5. queue' = [queue EXCEPT ![c] = Append(queue[c], w)]
  BY DEF Send
<1> QED
  BY <1>1, <1>2, <1>3, <1>4, <1>5

\* The steps of the pages keep the types.
LEMMA PagesType ==
  ASSUME TypeOK, NEW c \in Clients, Pages(c)
  PROVE  TypeOK'
<1>1. CASE OpenCreate(c)
  BY <1>1, EventSyncAssumption DEF OpenCreate, TypeOK, history, EventSyncAssumption
<1>2. CASE OpenEdit(c)
  <2>0. PICK k \in Keys : \E node \in Shown(c, k) :
          form' = [form EXCEPT ![c] =
            [mode |-> "edit", key |-> k, attendees |-> fromMap(node).attendees]]
    BY <1>2 DEF OpenEdit, Listed
  <2>1. PICK node \in Shown(c, k) :
          form' = [form EXCEPT ![c] =
            [mode |-> "edit", key |-> k, attendees |-> fromMap(node).attendees]]
    BY <2>0
  <2>2. fromMap(node).attendees \in Details \cup Numbers
    BY ShownType, AttendeesType
  <2>3. /\ form' \in [Clients -> [mode : {"closed", "create", "edit"},
                           key : Keys \cup {None}, attendees : Details \cup Numbers]]
        /\ \A e \in Clients : form'[e].mode = "edit" => form'[e].key \in Keys
    BY <2>1, <2>2 DEF TypeOK
  <2> QED
    BY <1>2, <2>3 DEF OpenEdit, TypeOK, history
<1>3. CASE CancelForm(c)
  <2>1. /\ form' \in [Clients -> [mode : {"closed", "create", "edit"},
                           key : Keys \cup {None}, attendees : Details \cup Numbers]]
        /\ \A e \in Clients : form'[e].mode = "edit" => form'[e].key \in Keys
    BY <1>3, EventSyncAssumption
       DEF CancelForm, ClosedForm, TypeOK, EventSyncAssumption
  <2>2. /\ queue' \in [Clients -> Seq(Write)]
        /\ \A e \in Clients : Len(queue'[e]) = Len(queue[e])
    BY <1>3, AbandonedType DEF CancelForm, TypeOK
  <2> QED
    BY <1>3, <2>1, <2>2 DEF CancelForm, TypeOK, history
<1>4. CASE SaveEdit(c)
  <2>1. PICK d \in Details, n \in Capacities :
          /\ Send(c, [key |-> form[c].key, op |-> "update",
                      data |-> Submitted(c, d, n), from |-> "form",
                      tap |-> taps + 1])
          /\ saved' = saved \cup {<<form[c].key, Submitted(c, d, n)>>}
    BY <1>4 DEF SaveEdit
  <2>2. form[c].key \in Keys /\ form[c].attendees \in Details \cup Numbers
    BY <1>4 DEF SaveEdit, TypeOK
  <2>3. Submitted(c, d, n) \in Node
    BY <1>4, <2>2, SubmittedIsNode DEF Submitted, SaveEdit
  <2>4. /\ queue' \in [Clients -> Seq(Write)]
        /\ taps' \in 0..MaxTaps /\ taps' = taps + 1
        /\ \A e \in Clients : Len(queue[e]) <= Len(queue'[e])
    BY <2>1, <2>2, <2>3, SendType
  <2>5. saved' \subseteq Keys \X Node
    BY <2>1, <2>2, <2>3 DEF TypeOK
  <2>6. /\ \A e \in Clients : applied'[e] <= Len(queue'[e])
        /\ landed' \subseteq 1..MaxTaps /\ told' \subseteq 1..MaxTaps
    BY <1>4, <2>4 DEF SaveEdit, TypeOK
  <2> QED
    BY <1>4, <2>4, <2>5, <2>6 DEF SaveEdit, TypeOK
<1>5. CASE SaveCreate(c)
  <2>1. PICK k \in Keys \ minted, d \in Details, n \in Capacities :
          /\ Send(c, [key |-> k, op |-> "set", data |-> Submitted(c, d, n),
                      from |-> "form", tap |-> taps + 1])
          /\ saved' = saved \cup {<<k, Submitted(c, d, n)>>}
          /\ minted' = minted \cup {k}
    BY <1>5 DEF SaveCreate
  <2>2. Submitted(c, d, n) \in Node
    BY <1>5, SubmittedIsNode, EventSyncAssumption
       DEF Submitted, SaveCreate, EventSyncAssumption
  <2>3. /\ queue' \in [Clients -> Seq(Write)]
        /\ taps' \in 0..MaxTaps /\ taps' = taps + 1
        /\ \A e \in Clients : Len(queue[e]) <= Len(queue'[e])
    BY <2>1, <2>2, SendType
  <2>4. saved' \subseteq Keys \X Node /\ minted' \subseteq Keys
    BY <2>1, <2>2 DEF TypeOK
  <2>5. /\ \A e \in Clients : applied'[e] <= Len(queue'[e])
        /\ landed' \subseteq 1..MaxTaps /\ told' \subseteq 1..MaxTaps
    BY <1>5, <2>3 DEF SaveCreate, TypeOK
  <2> QED
    BY <1>5, <2>3, <2>4, <2>5 DEF SaveCreate, TypeOK
<1>6. CASE OpenDelete(c)
  BY <1>6 DEF OpenDelete, Listed, TypeOK, history
<1>7. CASE DismissDelete(c)
  <2>1. /\ queue' \in [Clients -> Seq(Write)]
        /\ \A e \in Clients : Len(queue'[e]) = Len(queue[e])
    BY <1>7, AbandonedType DEF DismissDelete, TypeOK
  <2> QED
    BY <1>7, <2>1 DEF DismissDelete, TypeOK, history
<1>8. CASE ConfirmDelete(c)
  <2>1. dialog[c] \in Keys
    BY <1>8 DEF ConfirmDelete, TypeOK
  <2>2. /\ queue' \in [Clients -> Seq(Write)]
        /\ taps' \in 0..MaxTaps /\ taps' = taps + 1
        /\ \A e \in Clients : Len(queue[e]) <= Len(queue'[e])
    BY <1>8, <2>1, NothingIsNode, SendType DEF ConfirmDelete
  <2>3. /\ \A e \in Clients : applied'[e] <= Len(queue'[e])
        /\ landed' \subseteq 1..MaxTaps /\ told' \subseteq 1..MaxTaps
    BY <1>8, <2>2 DEF ConfirmDelete, TypeOK, history
  <2> QED
    BY <1>8, <2>2, <2>3 DEF ConfirmDelete, TypeOK, history
<1> QED
  BY <1>1, <1>2, <1>3, <1>4, <1>5, <1>6, <1>7, <1>8 DEF Pages

\* The steps of the database and the network keep the types.
LEMMA NetworkType ==
  ASSUME TypeOK, NEW c \in Clients, Network(c)
  PROVE  TypeOK'
<1>0. /\ queue[c] \in Seq(Write) /\ Len(queue[c]) \in Nat
      /\ applied[c] \in Nat /\ applied[c] <= Len(queue[c])
  BY LenProperties DEF TypeOK
<1>1. CASE Apply(c)
  <2> DEFINE w == queue[c][applied[c] + 1]
  <2>1. applied[c] + 1 \in 1..Len(queue[c]) /\ w \in Write
    BY <1>0, <1>1, ElementOfSeq DEF Apply
  <2>2. w.key \in Keys /\ w.tap \in 1..MaxTaps
    BY <2>1 DEF Write
  <2>3. Written(server[w.key], w) \in Node
    BY <2>1, <2>2, WrittenType DEF TypeOK
  <2>4. server' \in [Keys -> Node]
    BY <1>1, <2>2, <2>3 DEF Apply, TypeOK
  <2>5. /\ applied' \in [Clients -> Nat]
        /\ \A e \in Clients : applied'[e] <= Len(queue'[e])
    BY <1>0, <1>1, <2>1 DEF Apply, TypeOK
  <2>6. landed' \subseteq 1..MaxTaps
    BY <1>1, <2>2 DEF Apply, TypeOK
  <2> QED
    BY <1>1, <2>4, <2>5, <2>6 DEF Apply, TypeOK
<1>2. CASE Acknowledge(c)
  <2> DEFINE w == Head(queue[c])
  <2>1. /\ queue[c] # <<>> /\ w = queue[c][1] /\ w \in Write
        /\ Tail(queue[c]) \in Seq(Write)
        /\ Len(Tail(queue[c])) = Len(queue[c]) - 1
    BY <1>0, <1>2 DEF Acknowledge
  <2>2. /\ queue' \in [Clients -> Seq(Write)]
        /\ applied' \in [Clients -> Nat]
        /\ \A e \in Clients : applied'[e] <= Len(queue'[e])
    <3>1. /\ Abandoned(Tail(queue[c]), w.from) \in Seq(Write)
          /\ Len(Abandoned(Tail(queue[c]), w.from)) = Len(queue[c]) - 1
      BY <2>1, AbandonedType
    <3>2. /\ queue' = [queue EXCEPT ![c] = Abandoned(Tail(queue[c]), w.from)]
          /\ applied' = [applied EXCEPT ![c] = applied[c] - 1]
          /\ applied[c] - 1 \in Nat
      BY <1>0, <1>2 DEF Acknowledge
    <3> QED
      BY <1>0, <3>1, <3>2 DEF TypeOK
  <2>3. /\ form' \in [Clients -> [mode : {"closed", "create", "edit"},
                           key : Keys \cup {None}, attendees : Details \cup Numbers]]
        /\ \A e \in Clients : form'[e].mode = "edit" => form'[e].key \in Keys
    BY <1>2, EventSyncAssumption
       DEF Acknowledge, ClosedForm, TypeOK, EventSyncAssumption
  <2>4. dialog' \in [Clients -> Keys \cup {None}]
    BY <1>2 DEF Acknowledge, TypeOK
  <2>5. seen' \in [Clients -> [Keys -> Node]]
    BY <1>2 DEF Acknowledge, TypeOK
  <2>6. told' \subseteq 1..MaxTaps
    BY <1>2, <2>1 DEF Acknowledge, TypeOK, Write
  <2> QED
    BY <1>2, <2>2, <2>3, <2>4, <2>5, <2>6 DEF Acknowledge, TypeOK
<1>3. CASE Refuse(c)
  <2>1. Tail(queue[c]) \in Seq(Write) /\ Len(Tail(queue[c])) \in Nat
    BY <1>0, <1>3 DEF Refuse
  <2>2. /\ queue' \in [Clients -> Seq(Write)]
        /\ \A e \in Clients : applied'[e] <= Len(queue'[e])
    BY <1>0, <1>3, <2>1 DEF Refuse, TypeOK
  <2> QED
    BY <1>3, <2>2 DEF Refuse, TypeOK, history
<1>4. CASE Deliver(c)
  <2>1. loaded' \in [Clients -> BOOLEAN]
    BY <1>4, Zenon DEF Deliver, TypeOK
  <2>2. seen' \in [Clients -> [Keys -> Node]]
    BY <1>4 DEF Deliver, TypeOK
  <2> QED
    BY <1>4, <2>1, <2>2 DEF Deliver, TypeOK, history
<1>5. CASE Reconnect(c)
  <2>1. /\ applied' \in [Clients -> Nat]
        /\ \A e \in Clients : applied'[e] <= Len(queue'[e])
    BY <1>0, <1>5 DEF Reconnect, TypeOK
  <2>2. drops' \in 0..MaxDrops
    BY <1>5, EventSyncAssumption DEF Reconnect, TypeOK, EventSyncAssumption
  <2> QED
    BY <1>5, <2>1, <2>2 DEF Reconnect, TypeOK, history
<1>6. CASE Restart(c)
  <2>1. loaded' \in [Clients -> BOOLEAN]
    BY <1>6 DEF Restart, TypeOK
  <2>2. /\ queue' \in [Clients -> Seq(Write)]
        /\ applied' \in [Clients -> Nat]
        /\ \A e \in Clients : applied'[e] <= Len(queue'[e])
    BY <1>6, EmptySeq DEF Restart, TypeOK
  <2>3. /\ form' \in [Clients -> [mode : {"closed", "create", "edit"},
                           key : Keys \cup {None}, attendees : Details \cup Numbers]]
        /\ \A e \in Clients : form'[e].mode = "edit" => form'[e].key \in Keys
    BY <1>6, EventSyncAssumption
       DEF Restart, ClosedForm, TypeOK, EventSyncAssumption
  <2>4. dialog' \in [Clients -> Keys \cup {None}]
    BY <1>6 DEF Restart, TypeOK
  <2>5. drops' \in 0..MaxDrops
    BY <1>6, EventSyncAssumption DEF Restart, TypeOK, EventSyncAssumption
  <2> QED
    BY <1>6, <2>1, <2>2, <2>3, <2>4, <2>5 DEF Restart, TypeOK, history
<1> QED
  BY <1>1, <1>2, <1>3, <1>4, <1>5, <1>6 DEF Network

\* The type invariant holds of every behaviour of the devices.
THEOREM TypeCorrect == Spec => []TypeOK
<1>1. Init => TypeOK
  <2> SUFFICES ASSUME Init
               PROVE  TypeOK
    OBVIOUS
  <2>1. /\ server \in [Keys -> Node]
        /\ seen \in [Clients -> [Keys -> Node]]
    BY EventSyncAssumption DEF Init, EventSyncAssumption
  <2>2. loaded \in [Clients -> BOOLEAN]
    BY DEF Init
  <2>3. /\ queue \in [Clients -> Seq(Write)]
        /\ applied \in [Clients -> Nat]
        /\ \A c \in Clients : applied[c] <= Len(queue[c])
    BY EmptySeq DEF Init
  <2>4. /\ form \in [Clients -> [mode : {"closed", "create", "edit"},
                          key : Keys \cup {None}, attendees : Details \cup Numbers]]
        /\ \A c \in Clients : form[c].mode = "edit" => form[c].key \in Keys
        /\ dialog \in [Clients -> Keys \cup {None}]
    BY EventSyncAssumption DEF Init, ClosedForm, EventSyncAssumption
  <2>5. /\ minted \subseteq Keys /\ saved = {} /\ landed = {} /\ told = {}
        /\ taps \in 0..MaxTaps /\ drops \in 0..MaxDrops
    BY EventSyncAssumption DEF Init, EventSyncAssumption
  <2> QED
    BY <2>1, <2>2, <2>3, <2>4, <2>5 DEF TypeOK
<1>2. TypeOK /\ [Next]_vars => TypeOK'
  <2> SUFFICES ASSUME TypeOK, [Next]_vars
               PROVE  TypeOK'
    OBVIOUS
  <2>1. CASE UNCHANGED vars
    BY <2>1 DEF TypeOK, vars, device, history
  <2>2. CASE Next
    BY <2>2, PagesType, NetworkType DEF Next
  <2> QED
    BY <2>1, <2>2
<1> QED
  BY <1>1, <1>2, PTL DEF Spec

-----------------------------------------------------------------------------
(* What the database holds *)

Found(k) == fromMap(Seed[k]).attendees

\* A node an event may have, here or on any device.
GoodNode(k, node) == node = Nothing \/ fromMap(node).attendees = Found(k)

\* A write of the app: it removes the event, or it carries every field of a
\* form that was submitted for the event, with the attendees it was found with.
GoodWrite(w, submitted) ==
  \/ w.op = "set" /\ w.data = Nothing
  \/ /\ DOMAIN w.data = Fields
     /\ w.data["attendees"] = Found(w.key)
     /\ <<w.key, w.data>> \in submitted

\* The inductive invariant.  The database is good because every write on its
\* way is, a write is because the form it comes from is, and a form is because
\* everything a device may show is.
GoodServer ==
  \A k \in Keys :
    /\ GoodNode(k, server[k])
    /\ server[k] \in {Nothing, Seed[k]} \/ <<k, server[k]>> \in saved
GoodDevices ==
  \A c \in Clients :
    /\ \A k \in Keys : GoodNode(k, seen[c][k])
    /\ \A i \in DOMAIN queue[c] : GoodWrite(queue[c][i], saved)
    /\ form[c].mode = "edit" => form[c].attendees = Found(form[c].key)
SeedIsMinted == \A k \in Keys : Seed[k] # Nothing => k \in minted
Good == GoodServer /\ GoodDevices /\ SeedIsMinted

\* A write of the app replaces the node it is written to, update() included.
LEMMA WholeWrite ==
  ASSUME NEW node \in Node, NEW w \in Write, GoodWrite(w, saved)
  PROVE  Written(node, w) = w.data
<1>1. CASE w.op # "update"
  BY <1>1 DEF Written
<1>2. CASE w.op = "update"
  <2>1. w.data \in Node /\ DOMAIN w.data = Fields
    BY <1>2 DEF GoodWrite, Write
  <2>2. PICK D \in SUBSET Fields : node \in [D -> Details \cup Numbers]
    BY DEF Node
  <2>3. DOMAIN node \cup DOMAIN w.data = DOMAIN w.data
    BY <2>1, <2>2
  <2>4. PICK E \in SUBSET Fields : w.data \in [E -> Details \cup Numbers]
    BY <2>1 DEF Node
  <2>5. w.data = [f \in DOMAIN w.data |-> w.data[f]]
    BY <2>4
  <2> QED
    BY <1>2, <2>3, <2>5 DEF Written
<1> QED
  BY <1>1, <1>2

\* The data of such a write is a good node.
LEMMA GoodWriteGoodNode ==
  ASSUME NEW w, GoodWrite(w, saved)
  PROVE  GoodNode(w.key, w.data)
BY DEF GoodWrite, GoodNode, fromMap, FieldOr, Fields

\* A device shows good nodes.
LEMMA ShownGood ==
  ASSUME TypeOK, Good, NEW c \in Clients, NEW k \in Keys,
         NEW node \in Shown(c, k)
  PROVE  GoodNode(k, node)
<1>1. /\ seen[c][k] \in Node /\ GoodNode(k, seen[c][k])
      /\ queue[c] \in Seq(Write)
  BY DEF TypeOK, Good, GoodDevices
<1>2. ASSUME NEW i \in Touches(c, k)
      PROVE  GoodNode(k, Written(seen[c][k], queue[c][i]))
  <2>1. i \in DOMAIN queue[c] /\ queue[c][i].key = k
    BY DEF Touches
  <2>2. queue[c][i] \in Write /\ GoodWrite(queue[c][i], saved)
    BY <1>1, <2>1 DEF Good, GoodDevices
  <2> QED
    BY <1>1, <2>1, <2>2, WholeWrite, GoodWriteGoodNode
<1> QED
  BY <1>1, <1>2 DEF Shown, LastTouches

\* More submitted forms keep every write good.
LEMMA GoodWriteMonotonic ==
  ASSUME NEW w, NEW v, NEW S, NEW T, GoodWrite(w, S), S \subseteq T,
         v.key = w.key, v.op = w.op, v.data = w.data
  PROVE  GoodWrite(v, T)
BY DEF GoodWrite

\* A tap with a good write leaves good queues.
LEMMA SendGood ==
  ASSUME TypeOK, Good, NEW c \in Clients, NEW w, Send(c, w), GoodWrite(w, saved'),
         saved \subseteq saved'
  PROVE  \A e \in Clients : \A i \in DOMAIN queue'[e] : GoodWrite(queue'[e][i], saved')
<1> SUFFICES ASSUME NEW e \in Clients, NEW i \in DOMAIN queue'[e]
             PROVE  GoodWrite(queue'[e][i], saved')
  OBVIOUS
<1>1. /\ queue \in [Clients -> Seq(Write)]
      /\ queue' = [queue EXCEPT ![c] = Append(queue[c], w)]
  BY DEF TypeOK, Send
<1>2. CASE i \in DOMAIN queue[e]
  <2>1. queue'[e][i] = queue[e][i] /\ GoodWrite(queue[e][i], saved)
    BY <1>1, <1>2 DEF Good, GoodDevices
  <2> QED
    BY <2>1, GoodWriteMonotonic
<1>3. CASE i \notin DOMAIN queue[e]
  <2>1. queue'[e][i] = w
    BY <1>1, <1>3
  <2> QED
    BY <2>1 DEF GoodWrite, Found
<1> QED
  BY <1>2, <1>3

\* Closing a page leaves good queues.
LEMMA AbandonedGood ==
  ASSUME NEW q \in Seq(Write), NEW page, NEW S,
         \A i \in DOMAIN q : GoodWrite(q[i], S)
  PROVE  \A i \in DOMAIN Abandoned(q, page) :
           GoodWrite(Abandoned(q, page)[i], S)
<1> SUFFICES ASSUME NEW i \in DOMAIN Abandoned(q, page)
             PROVE  GoodWrite(Abandoned(q, page)[i], S)
  OBVIOUS
<1>1. /\ i \in DOMAIN q
      /\ Abandoned(q, page)[i].key = q[i].key
      /\ Abandoned(q, page)[i].op = q[i].op
      /\ Abandoned(q, page)[i].data = q[i].data
  BY AbandonedType
<1> QED
  BY <1>1, GoodWriteMonotonic

\* What Good needs when neither the server nor a snapshot changes.
LEMMA GoodFromQueuesAndForms ==
  ASSUME Good, server' = server, seen' = seen, saved \subseteq saved',
         minted \subseteq minted',
         \A c \in Clients : \A i \in DOMAIN queue'[c] : GoodWrite(queue'[c][i], saved'),
         \A c \in Clients : form'[c].mode = "edit" =>
           form'[c].attendees = Found(form'[c].key)
  PROVE  Good'
<1>1. GoodServer'
  BY DEF Good, GoodServer, GoodNode, Found
<1>2. GoodDevices'
  BY DEF Good, GoodDevices, GoodNode, Found
<1>3. SeedIsMinted'
  BY DEF Good, SeedIsMinted
<1> QED
  BY <1>1, <1>2, <1>3 DEF Good

\* Closing a form, or leaving every form as it is, leaves good forms.
LEMMA ClosedFormsGood ==
  ASSUME TypeOK, Good, NEW c \in Clients,
         form' = form \/ form' = [form EXCEPT ![c] = ClosedForm]
  PROVE  \A e \in Clients : form'[e].mode = "edit" =>
           form'[e].attendees = Found(form'[e].key)
<1> SUFFICES ASSUME NEW e \in Clients, form'[e].mode = "edit"
             PROVE  form'[e].attendees = Found(form'[e].key)
  OBVIOUS
<1>1. DOMAIN form = Clients
  BY DEF TypeOK
<1>2. form'[e] = form[e] \/ form'[e] = ClosedForm
  BY <1>1
<1>3. form'[e] = form[e]
  BY <1>2 DEF ClosedForm
<1> QED
  BY <1>3 DEF Good, GoodDevices

\* The steps of the pages keep Good.
LEMMA PagesGood ==
  ASSUME TypeOK, Good, NEW c \in Clients, Pages(c)
  PROVE  Good'
<1>0. /\ queue \in [Clients -> Seq(Write)]
      /\ form \in [Clients -> [mode : {"closed", "create", "edit"},
                       key : Keys \cup {None}, attendees : Details \cup Numbers]]
      /\ \A e \in Clients : \A i \in DOMAIN queue[e] : GoodWrite(queue[e][i], saved)
      /\ \A e \in Clients : form[e].mode = "edit" =>
           form[e].attendees = Found(form[e].key)
  BY DEF TypeOK, Good, GoodDevices
<1>1. CASE OpenCreate(c) \/ OpenDelete(c)
  <2>1. /\ server' = server /\ seen' = seen /\ saved' = saved
        /\ minted' = minted /\ queue' = queue
    BY <1>1 DEF OpenCreate, OpenDelete, history
  <2>2. \A e \in Clients : \A i \in DOMAIN queue'[e] : GoodWrite(queue'[e][i], saved')
    BY <1>0, <2>1 DEF GoodWrite, Found
  <2>3. \A e \in Clients : form'[e].mode = "edit" =>
          form'[e].attendees = Found(form'[e].key)
    BY <1>0, <1>1 DEF OpenCreate, OpenDelete
  <2> QED
    BY <2>1, <2>2, <2>3, GoodFromQueuesAndForms
<1>2. CASE OpenEdit(c)
  <2>1. /\ server' = server /\ seen' = seen /\ saved' = saved
        /\ minted' = minted /\ queue' = queue
    BY <1>2 DEF OpenEdit, history
  <2>2. \A e \in Clients : \A i \in DOMAIN queue'[e] : GoodWrite(queue'[e][i], saved')
    BY <1>0, <2>1 DEF GoodWrite, Found
  <2>3. PICK k \in Keys : /\ Nothing \notin Shown(c, k)
                          /\ \E node \in Shown(c, k) :
                               form' = [form EXCEPT ![c] =
                                 [mode |-> "edit", key |-> k,
                                  attendees |-> fromMap(node).attendees]]
    BY <1>2 DEF OpenEdit, Listed
  <2>4. PICK node \in Shown(c, k) :
          form' = [form EXCEPT ![c] = [mode |-> "edit", key |-> k,
                                       attendees |-> fromMap(node).attendees]]
    BY <2>3
  <2>5. fromMap(node).attendees = Found(k)
    BY <2>3, ShownGood DEF GoodNode
  <2>6. \A e \in Clients : form'[e].mode = "edit" =>
          form'[e].attendees = Found(form'[e].key)
    BY <1>0, <2>4, <2>5
  <2> QED
    BY <2>1, <2>2, <2>6, GoodFromQueuesAndForms
<1>3. CASE CancelForm(c) \/ DismissDelete(c)
  <2>1. /\ server' = server /\ seen' = seen /\ saved' = saved
        /\ minted' = minted
    BY <1>3 DEF CancelForm, DismissDelete, history
  <2>2. PICK page : queue' = [queue EXCEPT ![c] = Abandoned(queue[c], page)]
    BY <1>3 DEF CancelForm, DismissDelete
  <2>3. ASSUME NEW e \in Clients, NEW i \in DOMAIN queue'[e]
        PROVE  GoodWrite(queue'[e][i], saved')
    <3>1. CASE e = c
      <4>1. queue'[e] = Abandoned(queue[c], page)
        BY <1>0, <2>2, <3>1
      <4> QED
        BY <1>0, <2>1, <4>1, AbandonedGood
    <3>2. CASE e # c
      BY <1>0, <2>1, <2>2, <3>2 DEF GoodWrite, Found
    <3> QED
      BY <3>1, <3>2
  <2>4. \A e \in Clients : form'[e].mode = "edit" =>
          form'[e].attendees = Found(form'[e].key)
    <3>1. form' = form \/ form' = [form EXCEPT ![c] = ClosedForm]
      BY <1>3 DEF CancelForm, DismissDelete
    <3> QED
      BY <3>1, ClosedFormsGood
  <2> QED
    BY <2>1, <2>3, <2>4, GoodFromQueuesAndForms
<1>4. CASE SaveEdit(c)
  <2>1. PICK d \in Details, n \in Capacities :
          /\ Send(c, [key |-> form[c].key, op |-> "update",
                      data |-> Submitted(c, d, n), from |-> "form",
                      tap |-> taps + 1])
          /\ saved' = saved \cup {<<form[c].key, Submitted(c, d, n)>>}
    BY <1>4 DEF SaveEdit
  <2> DEFINE w == [key |-> form[c].key, op |-> "update",
                   data |-> Submitted(c, d, n), from |-> "form",
                   tap |-> taps + 1]
  <2>2. /\ DOMAIN Submitted(c, d, n) = Fields
        /\ Submitted(c, d, n)["attendees"] = Found(form[c].key)
    BY <1>0, <1>4 DEF SaveEdit, Submitted, Fields
  <2>3. GoodWrite(w, saved')
    BY <2>1, <2>2 DEF GoodWrite
  <2>4. \A e \in Clients : \A i \in DOMAIN queue'[e] : GoodWrite(queue'[e][i], saved')
    BY <2>1, <2>3, SendGood
  <2>5. /\ server' = server /\ seen' = seen /\ saved \subseteq saved'
        /\ minted' = minted /\ form' = form
    BY <1>4, <2>1 DEF SaveEdit
  <2> QED
    BY <1>0, <2>4, <2>5, GoodFromQueuesAndForms
<1>5. CASE SaveCreate(c)
  <2>1. PICK k \in Keys \ minted, d \in Details, n \in Capacities :
          /\ Send(c, [key |-> k, op |-> "set", data |-> Submitted(c, d, n),
                      from |-> "form", tap |-> taps + 1])
          /\ saved' = saved \cup {<<k, Submitted(c, d, n)>>}
          /\ minted' = minted \cup {k}
    BY <1>5 DEF SaveCreate
  <2> DEFINE w == [key |-> k, op |-> "set", data |-> Submitted(c, d, n),
                   from |-> "form", tap |-> taps + 1]
  <2>2. Seed[k] = Nothing
    BY <2>1 DEF Good, SeedIsMinted
  <2>3. Found(k) = 0
    BY <2>2 DEF Found, fromMap, FieldOr, Nothing
  <2>4. /\ DOMAIN Submitted(c, d, n) = Fields
        /\ Submitted(c, d, n)["attendees"] = Found(k)
    BY <1>5, <2>3 DEF SaveCreate, Submitted, Fields
  <2>5. GoodWrite(w, saved')
    BY <2>1, <2>4 DEF GoodWrite
  <2>6. \A e \in Clients : \A i \in DOMAIN queue'[e] :
          GoodWrite(queue'[e][i], saved')
    BY <2>1, <2>5, SendGood
  <2>7. /\ server' = server /\ seen' = seen /\ saved \subseteq saved'
        /\ minted \subseteq minted' /\ form' = form
    BY <1>5, <2>1 DEF SaveCreate
  <2> QED
    BY <1>0, <2>6, <2>7, GoodFromQueuesAndForms
<1>6. CASE ConfirmDelete(c)
  <2> DEFINE w == [key |-> dialog[c], op |-> "set", data |-> Nothing,
                   from |-> "dialog", tap |-> taps + 1]
  <2>1. GoodWrite(w, saved') /\ Send(c, w)
    BY <1>6 DEF GoodWrite, ConfirmDelete
  <2>2. /\ server' = server /\ seen' = seen /\ saved' = saved
        /\ minted' = minted /\ form' = form
    BY <1>6 DEF ConfirmDelete, history
  <2>3. \A e \in Clients : \A i \in DOMAIN queue'[e] :
          GoodWrite(queue'[e][i], saved')
    BY <2>1, <2>2, SendGood
  <2> QED
    BY <1>0, <2>2, <2>3, GoodFromQueuesAndForms
<1> QED
  BY <1>1, <1>2, <1>3, <1>4, <1>5, <1>6 DEF Pages

\* A queue of which a part stays, page by page or as a tail, stays good.
LEMMA TailGood ==
  ASSUME NEW q \in Seq(Write), q # <<>>, NEW S,
         \A i \in DOMAIN q : GoodWrite(q[i], S)
  PROVE  \A i \in DOMAIN Tail(q) : GoodWrite(Tail(q)[i], S)
<1> SUFFICES ASSUME NEW i \in DOMAIN Tail(q)
             PROVE  GoodWrite(Tail(q)[i], S)
  OBVIOUS
<1>1. Tail(q)[i] = q[i + 1] /\ i + 1 \in DOMAIN q
  OBVIOUS
<1> QED
  BY <1>1

\* The steps of the database and the network keep Good.
LEMMA NetworkGood ==
  ASSUME TypeOK, Good, NEW c \in Clients, Network(c)
  PROVE  Good'
<1>0. /\ queue \in [Clients -> Seq(Write)]
      /\ seen \in [Clients -> [Keys -> Node]]
      /\ server \in [Keys -> Node]
      /\ \A e \in Clients : \A i \in DOMAIN queue[e] :
           GoodWrite(queue[e][i], saved)
      /\ \A e \in Clients : form[e].mode = "edit" =>
           form[e].attendees = Found(form[e].key)
  BY DEF TypeOK, Good, GoodDevices
<1>1. CASE Apply(c)
  <2> DEFINE w == queue[c][applied[c] + 1]
  <2>1. /\ server' = [server EXCEPT ![w.key] = Written(server[w.key], w)]
        /\ seen' = seen /\ queue' = queue /\ form' = form
        /\ saved' = saved /\ minted' = minted
    BY <1>1 DEF Apply
  <2>2. applied[c] + 1 \in DOMAIN queue[c]
    BY <1>0, <1>1 DEF Apply, TypeOK
  <2>3. w \in Write /\ GoodWrite(w, saved)
    BY <1>0, <2>2
  <2>4. w.key \in Keys
    BY <2>3 DEF Write
  <2>5. Written(server[w.key], w) = w.data
    BY <1>0, <2>3, <2>4, WholeWrite
  <2>6. /\ GoodNode(w.key, w.data)
        /\ w.data = Nothing \/ <<w.key, w.data>> \in saved
    BY <2>3, GoodWriteGoodNode DEF GoodWrite
  <2>7. GoodServer'
    <3> SUFFICES ASSUME NEW k \in Keys
                 PROVE  /\ GoodNode(k, server'[k])
                        /\ \/ server'[k] \in {Nothing, Seed[k]}
                           \/ <<k, server'[k]>> \in saved
      BY <2>1 DEF GoodServer, GoodNode, Found
    <3>1. CASE k = w.key
      BY <1>0, <2>1, <2>5, <2>6, <3>1
    <3>2. CASE k # w.key
      BY <1>0, <2>1, <3>2 DEF Good, GoodServer
    <3> QED
      BY <3>1, <3>2
  <2>8. GoodDevices' /\ SeedIsMinted'
    BY <2>1 DEF Good, GoodDevices, SeedIsMinted, GoodNode, GoodWrite, Found
  <2> QED
    BY <2>7, <2>8 DEF Good
<1>2. CASE Acknowledge(c)
  <2> DEFINE w == Head(queue[c])
             q == Abandoned(Tail(queue[c]), w.from)
  <2>1. /\ server' = server /\ saved' = saved /\ minted' = minted
        /\ seen' = [seen EXCEPT ![c] = server]
        /\ queue' = [queue EXCEPT ![c] = q]
        /\ form' = form \/ form' = [form EXCEPT ![c] = ClosedForm]
    BY <1>2 DEF Acknowledge
  <2>2. queue[c] \in Seq(Write) /\ queue[c] # <<>>
    BY <1>2 DEF Acknowledge, TypeOK
  <2>3. \A i \in DOMAIN Tail(queue[c]) : GoodWrite(Tail(queue[c])[i], saved)
    BY <1>0, <2>2, TailGood
  <2>4. Tail(queue[c]) \in Seq(Write)
    BY <2>2
  <2>5. \A i \in DOMAIN q : GoodWrite(q[i], saved)
    BY <2>3, <2>4, AbandonedGood
  <2> HIDE DEF q, w
  <2>6. \A e \in Clients : \A i \in DOMAIN queue'[e] :
          GoodWrite(queue'[e][i], saved')
    BY <1>0, <2>1, <2>5
  <2>7. \A e \in Clients : \A k \in Keys : GoodNode(k, seen'[e][k])
    BY <1>0, <2>1 DEF Good, GoodServer, GoodDevices
  <2>8. \A e \in Clients : form'[e].mode = "edit" =>
          form'[e].attendees = Found(form'[e].key)
    BY <2>1, ClosedFormsGood
  <2>9. GoodDevices'
    BY <2>6, <2>7, <2>8 DEF GoodDevices, GoodNode, Found
  <2> QED
    BY <2>1, <2>9 DEF Good, GoodServer, SeedIsMinted, GoodNode, Found
<1>3. CASE Refuse(c) \/ Restart(c)
  <2>1. /\ server' = server /\ seen' = seen /\ saved' = saved
        /\ minted' = minted
        /\ form' = form \/ form' = [form EXCEPT ![c] = ClosedForm]
    BY <1>3 DEF Refuse, Restart, history
  <2>2. PICK q : /\ queue' = [queue EXCEPT ![c] = q]
                 /\ q = <<>> \/ (q = Tail(queue[c]) /\ queue[c] # <<>>)
    BY <1>3 DEF Refuse, Restart
  <2>3. \A i \in DOMAIN q : GoodWrite(q[i], saved)
    <3>1. CASE q = <<>>
      BY <3>1
    <3>2. CASE q = Tail(queue[c]) /\ queue[c] # <<>>
      <4>1. queue[c] \in Seq(Write)
        BY <1>0
      <4>2. \A i \in DOMAIN Tail(queue[c]) : GoodWrite(Tail(queue[c])[i], saved)
        BY <1>0, <3>2, <4>1, TailGood
      <4> QED
        BY <3>2, <4>2
    <3> QED
      BY <2>2, <3>1, <3>2
  <2>4. \A e \in Clients : \A i \in DOMAIN queue'[e] :
          GoodWrite(queue'[e][i], saved')
    BY <1>0, <2>1, <2>2, <2>3
  <2>5. \A e \in Clients : form'[e].mode = "edit" =>
          form'[e].attendees = Found(form'[e].key)
    BY <2>1, ClosedFormsGood
  <2> QED
    BY <2>1, <2>4, <2>5, GoodFromQueuesAndForms
<1>4. CASE Deliver(c)
  <2>1. /\ server' = server /\ saved' = saved /\ minted' = minted
        /\ queue' = queue /\ form' = form
        /\ seen' = [seen EXCEPT ![c] = server]
    BY <1>4 DEF Deliver, history
  <2>2. \A e \in Clients : \A k \in Keys : GoodNode(k, seen'[e][k])
    BY <1>0, <2>1 DEF Good, GoodServer, GoodDevices
  <2>3. GoodDevices'
    BY <1>0, <2>1, <2>2 DEF GoodDevices, GoodNode, Found
  <2> QED
    BY <2>1, <2>3 DEF Good, GoodServer, SeedIsMinted, GoodNode, Found
<1>5. CASE Reconnect(c)
  BY <1>5 DEF Reconnect, history, Good, GoodServer, GoodDevices, SeedIsMinted
<1> QED
  BY <1>1, <1>2, <1>3, <1>4, <1>5 DEF Network

\* The inductive invariant holds of every behaviour of the devices.
THEOREM GoodAlways == Spec => []Good
<1>1. Init => Good
  <2> SUFFICES ASSUME Init
               PROVE  Good
    OBVIOUS
  <2>1. GoodServer /\ SeedIsMinted
    BY DEF Init, GoodServer, SeedIsMinted, GoodNode, Found
  <2>2. GoodDevices
    BY DEF Init, GoodDevices, GoodNode, Found, ClosedForm
  <2> QED
    BY <2>1, <2>2 DEF Good
<1>2. TypeOK /\ Good /\ [Next]_vars => Good'
  <2> SUFFICES ASSUME TypeOK, Good, [Next]_vars
               PROVE  Good'
    OBVIOUS
  <2>1. CASE UNCHANGED vars
    BY <2>1 DEF Good, GoodServer, GoodDevices, SeedIsMinted, vars, device,
       history
  <2>2. CASE Next
    BY <2>2, PagesGood, NetworkGood DEF Next
  <2> QED
    BY <2>1, <2>2
<1> QED
  BY <1>1, <1>2, TypeCorrect, PTL DEF Spec

\* No race of edits, deletions, resent writes and killed devices changes the
\* attendees of an event.
THEOREM AttendeesNeverLost == Spec => []AttendeesKept
<1>1. Good => AttendeesKept
  BY DEF Good, GoodServer, GoodNode, Found, AttendeesKept
<1> QED
  BY <1>1, GoodAlways, PTL

\* An event in the database is always one somebody submitted, or as found.
THEOREM EditsNeverMix == Spec => []WholeRecords
<1>1. Good => WholeRecords
  BY DEF Good, GoodServer, WholeRecords
<1> QED
  BY <1>1, GoodAlways, PTL

-----------------------------------------------------------------------------
(* Success messages *)

\* The writes at the head of a queue that count as applied have reached the
\* server, on this connection or on an earlier one.
AppliedLanded ==
  \A c \in Clients : \A i \in 1..applied[c] : queue[c][i].tap \in landed

LEMMA PagesDurable ==
  ASSUME TypeOK, AppliedLanded, NEW c \in Clients, Pages(c)
  PROVE  AppliedLanded' /\ told' = told /\ landed' = landed
<1>0. /\ queue \in [Clients -> Seq(Write)]
      /\ \A e \in Clients : applied[e] \in Nat /\ applied[e] <= Len(queue[e])
  BY DEF TypeOK
<1>1. /\ applied' = applied /\ told' = told /\ landed' = landed
  BY DEF Pages, OpenCreate, OpenEdit, CancelForm, SaveEdit, SaveCreate,
     OpenDelete, DismissDelete, ConfirmDelete, history
<1>2. \/ queue' = queue
      \/ \E page : queue' = [queue EXCEPT ![c] = Abandoned(queue[c], page)]
      \/ \E w : queue' = [queue EXCEPT ![c] = Append(queue[c], w)]
  BY DEF Pages, OpenCreate, OpenEdit, CancelForm, SaveEdit, SaveCreate,
     OpenDelete, DismissDelete, ConfirmDelete, Send
<1>3. ASSUME NEW e \in Clients, NEW i \in 1..applied[e]
      PROVE  queue'[e][i].tap = queue[e][i].tap
  <2>1. i \in DOMAIN queue[e] /\ queue[e] \in Seq(Write)
    BY <1>0
  <2>2. CASE queue' = queue
    BY <2>2
  <2>3. ASSUME NEW page, queue' = [queue EXCEPT ![c] = Abandoned(queue[c], page)]
        PROVE  queue'[e][i].tap = queue[e][i].tap
    <3>1. Abandoned(queue[e], page)[i].tap = queue[e][i].tap
      BY <2>1, AbandonedType
    <3>2. queue'[e] = Abandoned(queue[e], page) \/ queue'[e] = queue[e]
      BY <1>0, <2>3
    <3> QED
      BY <3>1, <3>2
  <2>4. ASSUME NEW w, queue' = [queue EXCEPT ![c] = Append(queue[c], w)]
        PROVE  queue'[e][i].tap = queue[e][i].tap
    <3>1. Append(queue[e], w)[i] = queue[e][i]
      BY <2>1
    <3>2. queue'[e] = Append(queue[e], w) \/ queue'[e] = queue[e]
      BY <1>0, <2>4
    <3> QED
      BY <3>1, <3>2
  <2> QED
    BY <1>2, <2>2, <2>3, <2>4
<1>4. AppliedLanded'
  BY <1>1, <1>3 DEF AppliedLanded
<1> QED
  BY <1>1, <1>4

LEMMA NetworkDurable ==
  ASSUME TypeOK, AppliedLanded, told \subseteq landed, NEW c \in Clients,
         Network(c)
  PROVE  AppliedLanded' /\ told' \subseteq landed'
<1>0. /\ queue \in [Clients -> Seq(Write)]
      /\ applied \in [Clients -> Nat]
      /\ \A e \in Clients : applied[e] <= Len(queue[e])
  BY DEF TypeOK
<1>1. CASE Apply(c)
  <2>1. /\ queue' = queue /\ told' = told
        /\ landed' = landed \cup {queue[c][applied[c] + 1].tap}
        /\ applied' = [applied EXCEPT ![c] = applied[c] + 1]
    BY <1>1 DEF Apply
  <2> QED
    BY <1>0, <2>1 DEF AppliedLanded
<1>2. CASE Acknowledge(c)
  <2> DEFINE w == Head(queue[c])
             q == Abandoned(Tail(queue[c]), w.from)
  <2>1. /\ landed' = landed
        /\ told' = told \/ told' = told \cup {w.tap}
        /\ queue' = [queue EXCEPT ![c] = q]
        /\ applied' = [applied EXCEPT ![c] = applied[c] - 1]
        /\ applied[c] > 0
    BY <1>2 DEF Acknowledge
  <2>2. queue[c] \in Seq(Write) /\ queue[c] # <<>> /\ w = queue[c][1]
    BY <1>0, <2>1
  <2>3. w.tap \in landed
    BY <1>0, <2>1, <2>2 DEF AppliedLanded
  <2>4. ASSUME NEW i \in 1..(applied[c] - 1)
        PROVE  q[i].tap \in landed
    <3>1. /\ Tail(queue[c]) \in Seq(Write)
          /\ i \in DOMAIN Tail(queue[c])
          /\ Tail(queue[c])[i] = queue[c][i + 1]
      BY <1>0, <2>2
    <3>2. \A t \in Seq(Write) : i \in DOMAIN t =>
            Abandoned(t, w.from)[i].tap = t[i].tap
      BY AbandonedType
    <3>3. q[i].tap = Tail(queue[c])[i].tap
      BY <3>1, <3>2
    <3>4. i + 1 \in 1..applied[c]
      BY <1>0
    <3> QED
      BY <3>1, <3>3, <3>4 DEF AppliedLanded
  <2> HIDE DEF w, q
  <2>5. AppliedLanded'
    BY <1>0, <2>1, <2>4 DEF AppliedLanded
  <2> QED
    BY <2>1, <2>3, <2>5
<1>3. CASE Refuse(c) \/ Reconnect(c) \/ Restart(c)
  <2>1. /\ told' = told /\ landed' = landed
        /\ applied'[c] = 0
        /\ \A e \in Clients \ {c} :
             applied'[e] = applied[e] /\ queue'[e] = queue[e]
    BY <1>0, <1>3 DEF Refuse, Reconnect, Restart, history
  <2> QED
    BY <2>1 DEF AppliedLanded
<1>4. CASE Deliver(c)
  BY <1>4 DEF Deliver, history, AppliedLanded
<1> QED
  BY <1>1, <1>2, <1>3, <1>4 DEF Network

\* A success message is never untrue: the write it speaks of has reached the
\* server, whatever happens to the device and to the connection.
THEOREM ToldIsTrue == Spec => []SuccessIsDurable
<1> DEFINE Inv == AppliedLanded /\ SuccessIsDurable
<1>1. Init => Inv
  BY DEF Init, AppliedLanded, SuccessIsDurable
<1>2. TypeOK /\ Inv /\ [Next]_vars => Inv'
  <2> SUFFICES ASSUME TypeOK, Inv, [Next]_vars
               PROVE  Inv'
    OBVIOUS
  <2>1. CASE UNCHANGED vars
    BY <2>1 DEF AppliedLanded, SuccessIsDurable, vars, device, history
  <2>2. CASE Next
    BY <2>2, PagesDurable, NetworkDurable DEF Next, SuccessIsDurable
  <2> QED
    BY <2>1, <2>2
<1>3. Inv => SuccessIsDurable
  OBVIOUS
<1> HIDE DEF Inv
<1> QED
  BY <1>1, <1>2, <1>3, TypeCorrect, PTL DEF Spec
=============================================================================
