------------------------------ MODULE Console ------------------------------
(***************************************************************************)
(* The console program: src/main.dart with the classes Event, Session,     *)
(* Registration, the enum RegistrationStatus and CapacityMixin.            *)
(*                                                                         *)
(* One thread loops over a menu and reads its input line by line.  Every   *)
(* handler is broken into the prompts it waits at, because the loop        *)
(* catches whatever a prompt throws (a line that is no number, the end of  *)
(* the input) and goes back to the menu: pc is the prompt the program      *)
(* waits at and arg the number read at an earlier prompt of the same       *)
(* handler.  Titles, dates, locations, organizers and speakers are stored  *)
(* and printed but never decide anything, so an event is its id.           *)
(***************************************************************************)
EXTENDS Integers, Sequences, FiniteSets

CONSTANTS
  Ids,          \* what Random().nextInt(100000) may draw
  Typed,        \* the event and session ids a user may type
  Users,        \* the user ids a user may type
  Capacities,   \* the capacities a user may type: any integer is accepted
  MaxEvents,    \* bound: positions of the list of events
  MaxSessions   \* bound: sessions ever added

ASSUME ConsoleAssumption ==
  /\ IsFiniteSet(Ids)
  /\ Capacities \subseteq Int
  /\ MaxEvents \in Nat
  /\ MaxSessions \in Nat

VARIABLES
  events,         \* List<Event>: the ids, by position; add appends
  sessions,       \* List<Session>, which only grows
  registrations,  \* Map<int, Registration>
  pc,             \* the prompt the program waits at
  arg,            \* what an earlier prompt of the handler read
  reply,          \* the last line a handler printed, and the id it is about
  eof             \* standard input is exhausted: readLineSync returns null

data == <<events, sessions, registrations>>
vars == <<events, sessions, registrations, pc, arg, reply, eof>>

None == "none"
Positions == 1..MaxEvents
RegistrationStatus == {"confirmed", "pending", "cancelled"}
Session == [sessionId : Ids, eventId : Typed, capacity : Capacities]
Registration ==
  [userId : Users, sessionId : Typed, status : RegistrationStatus]

Prompts ==
  {"menu", "organizer", "searchId", "deleteId", "confirmDelete",
   "sessionEvent", "sessionDetails", "userId", "sessionId"}

Messages ==
  {"started", "silent", "EventAdded", "NoEvents", "EventsListed",
   "EventFound", "EventNotFound", "NoSuchEvent", "Deleted",
   "DeletionCancelled", "AddAnEventFirst", "EventIdNotFound",
   "SessionAdded", "NoSessions", "SessionNotFound", "Registered",
   "SessionFull", "InvalidChoice", "InvalidInput", "Goodbye"}

-----------------------------------------------------------------------------
(* What the handlers compute *)

\* Mutant: the off-by-one the comparison invites.
hasAvailableSeatsOffByOne(capacity, registered) == registered <= capacity

\* mixins.dart, CapacityMixin.
hasAvailableSeats(capacity, registered) == registered < capacity

\* events.any((e) => e.eventId == id)
HasEvent(id) == \E n \in DOMAIN events : events[n] = id

\* The position a new event takes: the end of the list.
EndOfList(n) ==
  /\ \A m \in DOMAIN events : m < n
  /\ n = 1 \/ n - 1 \in DOMAIN events

\* events.add(...)
WithEvent(n, id) ==
  [m \in DOMAIN events \cup {n} |-> IF m = n THEN id ELSE events[m]]

\* Mutant: removes the first event with the id and stops.
WithoutFirstEvent(id) ==
  [m \in {k \in DOMAIN events :
            events[k] # id \/ \E j \in DOMAIN events : j < k /\ events[j] = id}
     |-> events[m]]

\* events.removeWhere((e) => e.eventId == id): every event with that id.
WithoutEvent(id) ==
  [m \in {k \in DOMAIN events : events[k] # id} |-> events[m]]

\* sessions.any and sessions.firstWhere of registerUser.
HasSession(id) == \E i \in DOMAIN sessions : sessions[i].sessionId = id
IsFirst(i) ==
  \A j \in 1..(i - 1) : sessions[j].sessionId # sessions[i].sessionId
\* Mutant: lastWhere instead of firstWhere.
IsLastWhere(i, id) ==
  /\ sessions[i].sessionId = id
  /\ \A j \in (i + 1)..Len(sessions) : sessions[j].sessionId # id
IsFirstWhere(i, id) == sessions[i].sessionId = id /\ IsFirst(i)

\* int registeredCount = registrations.length
registeredCount == Cardinality(DOMAIN registrations)

\* Mutant: a user's new registration takes the place of the earlier ones.
WithOnlyRegistration(id, r) ==
  [k \in {j \in DOMAIN registrations : registrations[j].userId # r.userId}
           \cup {id} |->
     IF k = id THEN r ELSE registrations[k]]

\* registrations[id] = r: a key drawn a second time replaces its registration.
WithRegistration(id, r) ==
  [k \in DOMAIN registrations \cup {id} |->
     IF k = id THEN r ELSE registrations[k]]

\* The registrations that name a session id.
SeatsTaken(id) ==
  {k \in DOMAIN registrations : registrations[k].sessionId = id}

-----------------------------------------------------------------------------
(* The loop's bookkeeping *)

\* A handler goes on to its next prompt, remembering what it has read.
Ask(prompt, read) ==
  /\ pc' = prompt
  /\ arg' = read
  /\ reply' = [msg |-> "silent", id |-> None]

\* Mutant: the number read earlier survives the handler.
AnswerKeepingArg(message, about) ==
  /\ pc' = "menu"
  /\ arg' = arg
  /\ reply' = [msg |-> message, id |-> about]

\* A handler prints its outcome and returns to the menu.
Answer(message, about) ==
  /\ pc' = "menu"
  /\ arg' = None
  /\ reply' = [msg |-> message, id |-> about]

\* The program waits at a prompt and a line arrives.
Read(prompt) == pc = prompt /\ ~eof /\ UNCHANGED eof

-----------------------------------------------------------------------------
(* Choices 1 to 7 *)

ChooseAddEvent == Read("menu") /\ Ask("organizer", None) /\ UNCHANGED data

\* Title, date, location and organizer id are read, then the event is added.
addEvent ==
  /\ Read("organizer")
  /\ \E n \in Positions, id \in Ids :
       /\ EndOfList(n)
       /\ events' = WithEvent(n, id)
       /\ Answer("EventAdded", id)
  /\ UNCHANGED <<sessions, registrations>>

displayEvents ==
  /\ Read("menu")
  /\ Answer(IF DOMAIN events = {} THEN "NoEvents" ELSE "EventsListed", None)
  /\ UNCHANGED data

ChooseSearchEvent == Read("menu") /\ Ask("searchId", None) /\ UNCHANGED data

searchEvent ==
  /\ Read("searchId")
  /\ \E id \in Typed :
       Answer(IF HasEvent(id) THEN "EventFound" ELSE "EventNotFound", id)
  /\ UNCHANGED data

ChooseDeleteEvent == Read("menu") /\ Ask("deleteId", None) /\ UNCHANGED data

\* Mutant: the event is removed before the user has confirmed.
deleteEventUnasked ==
  /\ Read("deleteId")
  /\ \E id \in Typed :
       \/ /\ HasEvent(id)
          /\ events' = WithoutEvent(id)
          /\ Ask("confirmDelete", id)
       \/ ~HasEvent(id) /\ Answer("NoSuchEvent", id) /\ UNCHANGED events
  /\ UNCHANGED <<sessions, registrations>>

deleteEvent ==
  /\ Read("deleteId")
  /\ \E id \in Typed :
       \/ HasEvent(id) /\ Ask("confirmDelete", id)
       \/ ~HasEvent(id) /\ Answer("NoSuchEvent", id)
  /\ UNCHANGED data

\* Mutant: the sessions of the event go with it, their registrations stay.
ConfirmDeleteCascading ==
  /\ Read("confirmDelete")
  /\ \/ /\ events' = WithoutEvent(arg)
        /\ sessions' = SelectSeq(sessions, LAMBDA s : s.eventId # arg)
        /\ Answer("Deleted", arg)
     \/ Answer("DeletionCancelled", arg) /\ UNCHANGED <<events, sessions>>
  /\ UNCHANGED registrations

\* "Are you sure? (y/n)": sessions and registrations stay either way.
ConfirmDelete ==
  /\ Read("confirmDelete")
  /\ \/ events' = WithoutEvent(arg) /\ Answer("Deleted", arg)
     \/ Answer("DeletionCancelled", arg) /\ UNCHANGED events
  /\ UNCHANGED <<sessions, registrations>>

ChooseAddSession ==
  /\ Read("menu")
  /\ \/ DOMAIN events = {} /\ Answer("AddAnEventFirst", None)
     \/ DOMAIN events # {} /\ Ask("sessionEvent", None)
  /\ UNCHANGED data

PickSessionEvent ==
  /\ Read("sessionEvent")
  /\ \E id \in Typed :
       \/ HasEvent(id) /\ Ask("sessionDetails", id)
       \/ ~HasEvent(id) /\ Answer("EventIdNotFound", id)
  /\ UNCHANGED data

addSession ==
  /\ Read("sessionDetails")
  /\ Len(sessions) < MaxSessions
  /\ \E id \in Ids, c \in Capacities :
       /\ sessions' =
            Append(sessions, [sessionId |-> id, eventId |-> arg, capacity |-> c])
       /\ Answer("SessionAdded", id)
  /\ UNCHANGED <<events, registrations>>

ChooseRegisterUser ==
  /\ Read("menu")
  /\ \/ sessions = <<>> /\ Answer("NoSessions", None)
     \/ sessions # <<>> /\ Ask("userId", None)
  /\ UNCHANGED data

EnterUser ==
  /\ Read("userId")
  /\ \E u \in Users : Ask("sessionId", u)
  /\ UNCHANGED data

SessionNotFound ==
  /\ Read("sessionId")
  /\ \E id \in Typed : ~HasSession(id) /\ Answer("SessionNotFound", id)
  /\ UNCHANGED data

registerUser ==
  /\ Read("sessionId")
  /\ \E i \in DOMAIN sessions, s \in Typed :
       /\ IsFirstWhere(i, s)
       /\ \/ /\ hasAvailableSeats(sessions[i].capacity, registeredCount)
             /\ \E id \in Ids :
                  /\ registrations' = WithRegistration(id,
                       [userId |-> arg, sessionId |-> s, status |-> "confirmed"])
                  /\ Answer("Registered", id)
          \/ /\ ~hasAvailableSeats(sessions[i].capacity, registeredCount)
             /\ Answer("SessionFull", s)
             /\ UNCHANGED registrations
  /\ UNCHANGED <<events, sessions>>

Exit ==
  /\ Read("menu")
  /\ pc' = "exit"
  /\ arg' = None
  /\ reply' = [msg |-> "Goodbye", id |-> None]
  /\ UNCHANGED data

InvalidChoice == Read("menu") /\ Answer("InvalidChoice", None) /\ UNCHANGED data

-----------------------------------------------------------------------------
(* The catch of the menu loop *)

\* int.parse throws on a line that is no number.  The y/n prompt parses nothing.
BadNumber ==
  /\ pc \in Prompts \ {"confirmDelete"}
  /\ ~eof
  /\ Answer("InvalidInput", None)
  /\ UNCHANGED <<data, eof>>

\* Mutant: the loop ends with its input.
ReturnAtEof ==
  /\ pc \in Prompts
  /\ eof
  /\ pc' = "exit"
  /\ arg' = None
  /\ UNCHANGED <<data, reply, eof>>

\* readLineSync()! throws at every prompt once the input is exhausted, and the
\* loop goes round again: only choice 7 returns from it.
ThrowAtEof ==
  /\ pc \in Prompts
  /\ eof
  /\ Answer("InvalidInput", None)
  /\ UNCHANGED <<data, eof>>

\* The user closes the terminal or the piped input ends.
InputEnds == pc \in Prompts /\ ~eof /\ eof' = TRUE /\ UNCHANGED <<data, pc, arg, reply>>

-----------------------------------------------------------------------------
Init ==
  /\ events = [m \in {} |-> None]
  /\ sessions = <<>>
  /\ registrations = [k \in {} |-> None]
  /\ pc = "menu"
  /\ arg = None
  /\ reply = [msg |-> "started", id |-> None]
  /\ eof = FALSE

Next ==
  \/ ChooseAddEvent \/ addEvent
  \/ displayEvents
  \/ ChooseSearchEvent \/ searchEvent
  \/ ChooseDeleteEvent \/ deleteEvent \/ ConfirmDelete
  \/ ChooseAddSession \/ PickSessionEvent \/ addSession
  \/ ChooseRegisterUser \/ EnterUser \/ SessionNotFound \/ registerUser
  \/ Exit \/ InvalidChoice
  \/ BadNumber \/ ThrowAtEof \/ InputEnds

Spec == Init /\ [][Next]_vars

\* A user may leave a prompt unanswered for ever, but at the end of the input
\* readLineSync returns at once and the loop cannot but go on.
FairSpec == Spec /\ WF_vars(ThrowAtEof)
-----------------------------------------------------------------------------
(* Properties *)

\* The type of every variable: a prompt that comes after a check or a first
\* number remembers it, and no other prompt remembers anything (the locals of
\* a handler of main.dart die with it).
TypeOK ==
  /\ events \in UNION {[D -> Ids] : D \in SUBSET Positions}
  /\ sessions \in Seq(Session)
  /\ registrations \in UNION {[D -> Registration] : D \in SUBSET Ids}
  /\ pc \in Prompts \cup {"exit"}
  /\ pc \in {"confirmDelete", "sessionDetails"} => arg \in Typed
  /\ pc = "sessionId" => arg \in Users
  /\ pc \notin {"confirmDelete", "sessionDetails", "sessionId"} => arg = None
  /\ reply.msg \in Messages
  /\ eof \in BOOLEAN

\* A session is never overbooked by registerUser: the registrations that name
\* its id fit the capacity of the session firstWhere finds for that id, however
\* ids collide, whatever events are deleted and whatever capacity was typed.
CapacityRespected ==
  \A i \in DOMAIN sessions :
    IsFirst(i) /\ SeatsTaken(sessions[i].sessionId) # {} =>
      Cardinality(SeatsTaken(sessions[i].sessionId)) <= sessions[i].capacity

\* registerUser counts the registrations of every session together, so the
\* whole program never holds more of them than its largest session has seats.
SharedPool ==
  DOMAIN registrations # {} =>
    \E i \in DOMAIN sessions : registeredCount <= sessions[i].capacity

\* A registration always names a session that is still listed, also after
\* deleteEvent has removed the event the session belongs to.
RegistrationsKeepTheirSession ==
  \A k \in DOMAIN registrations : HasSession(registrations[k].sessionId)

\* When deleteEvent prints "Deleted successfully." no event with that id is
\* left, also when two events had drawn the same id.
DeletedIsGone == reply.msg = "Deleted" => ~HasEvent(reply.id)

\* Stored data changes only in the step that reports the change: a handler that
\* a bad line, the end of the input or a refusal ends half way has stored nothing.
ChangesAreReported ==
  [][ /\ events' # events => reply'.msg \in {"EventAdded", "Deleted"}
      /\ sessions' # sessions => reply'.msg = "SessionAdded"
      /\ registrations' # registrations => reply'.msg = "Registered" ]_vars

\* A registration is never dropped, and it is replaced only by the registration
\* that draws its id a second time (registrations[id] = ... in registerUser).
LostOnlyByCollision ==
  [][ \A k \in DOMAIN registrations :
        /\ k \in DOMAIN registrations'
        /\ registrations'[k] # registrations[k] => reply'.id = k ]_vars

\* Once the input has ended the program neither stops nor stores anything: every
\* handler falls back to the menu, which prints "Invalid input" for ever.
EofSpinsAtMenu ==
  (eof /\ pc # "exit") ~> [](pc = "menu" /\ reply.msg = "InvalidInput")

\* mixins.dart calls the check one of the seats "for an event", and registerUser
\* prints "Session is full.": the session must then have no seat left.
FullMeansNoSeats ==
  reply.msg = "SessionFull" =>
    \A i \in DOMAIN sessions :
      IsFirstWhere(i, reply.id) =>
        Cardinality(SeatsTaken(reply.id)) >= sessions[i].capacity
=============================================================================
