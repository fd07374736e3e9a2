--------------------------- MODULE ConsoleProofs ---------------------------
(***************************************************************************)
(* Proofs about the console program, for any set of ids, users and         *)
(* capacities and any bounds: the type invariant, and that registerUser    *)
(* never overbooks a session although ids are drawn at random and may      *)
(* collide.                                                                *)
(***************************************************************************)
EXTENDS Console, FiniteSetTheorems, TLAPS

-----------------------------------------------------------------------------
(* Type correctness *)

\* The steps that only move between prompts keep the types.
LEMMA PromptStepsKeepType ==
  ASSUME TypeOK, UNCHANGED data,
         \/ ChooseAddEvent \/ displayEvents \/ ChooseSearchEvent
         \/ searchEvent \/ ChooseDeleteEvent \/ deleteEvent
         \/ ChooseAddSession \/ PickSessionEvent \/ ChooseRegisterUser
         \/ EnterUser \/ SessionNotFound \/ Exit \/ InvalidChoice
         \/ BadNumber \/ ThrowAtEof \/ InputEnds
  PROVE  TypeOK'
<1>0. /\ events' = events /\ sessions' = sessions
      /\ registrations' = registrations
  BY DEF data
<1>1. CASE ChooseAddEvent \/ ChooseSearchEvent \/ ChooseDeleteEvent
  BY <1>0, <1>1 DEF TypeOK, ChooseAddEvent, ChooseSearchEvent,
     ChooseDeleteEvent, Read, Ask, Prompts, Messages
<1>2. CASE displayEvents \/ searchEvent \/ InvalidChoice \/ SessionNotFound
  BY <1>0, <1>2 DEF TypeOK, displayEvents, searchEvent, InvalidChoice,
     SessionNotFound, Read, Answer, Prompts, Messages
<1>3. CASE deleteEvent \/ PickSessionEvent
  BY <1>0, <1>3 DEF TypeOK, deleteEvent, PickSessionEvent, Read, Ask, Answer,
     Prompts, Messages
<1>4. CASE ChooseAddSession \/ ChooseRegisterUser
  BY <1>0, <1>4 DEF TypeOK, ChooseAddSession, ChooseRegisterUser, Read, Ask,
     Answer, Prompts, Messages
<1>5. CASE EnterUser \/ Exit
  BY <1>0, <1>5 DEF TypeOK, EnterUser, Exit, Read, Ask, Prompts, Messages
<1>6. CASE BadNumber \/ ThrowAtEof
  BY <1>0, <1>6 DEF TypeOK, BadNumber, ThrowAtEof, Answer, Prompts, Messages
<1>7. CASE InputEnds
  <2>1. /\ eof' \in BOOLEAN
        /\ pc' = pc /\ arg' = arg /\ reply' = reply
    BY <1>7 DEF InputEnds
  <2> QED
    BY <1>0, <2>1 DEF TypeOK
<1> QED
  BY <1>1, <1>2, <1>3, <1>4, <1>5, <1>6, <1>7

\* The type invariant holds of every behaviour of the console.
THEOREM TypeCorrect == Spec => []TypeOK
<1>1. Init => TypeOK
  <2> SUFFICES ASSUME Init
               PROVE  TypeOK
    OBVIOUS
  <2>1. events \in [{} -> Ids] /\ {} \in SUBSET Positions
    BY DEF Init
  <2>2. registrations \in [{} -> Registration] /\ {} \in SUBSET Ids
    BY DEF Init
  <2>3. eof \in BOOLEAN
    BY DEF Init
  <2>4. sessions \in Seq(Session)
    BY DEF Init
  <2>5. pc = "menu" /\ arg = None /\ reply.msg \in Messages
    BY DEF Init, Messages
  <2> QED
    BY <2>1, <2>2, <2>3, <2>4, <2>5 DEF TypeOK, Prompts
<1>2. TypeOK /\ [Next]_vars => TypeOK'
  <2> SUFFICES ASSUME TypeOK, [Next]_vars
               PROVE  TypeOK'
    OBVIOUS
  <2>1. CASE addEvent
    <3>1. PICK n \in Positions, id \in Ids :
            /\ events' = WithEvent(n, id)
            /\ Answer("EventAdded", id)
      BY <2>1 DEF addEvent
    <3>2. events' \in UNION {[D -> Ids] : D \in SUBSET Positions}
      <4>1. PICK D \in SUBSET Positions : events \in [D -> Ids]
        BY DEF TypeOK
      <4>2. events' \in [D \cup {n} -> Ids] /\ D \cup {n} \in SUBSET Positions
        BY <3>1, <4>1 DEF WithEvent
      <4> QED
        BY <4>2
    <3>3. pc' = "menu" /\ arg' = None /\ reply'.msg \in Messages
      BY <3>1 DEF Answer, Messages
    <3> QED
      BY <2>1, <3>2, <3>3 DEF TypeOK, addEvent, Read, Prompts
  <2>2. CASE ConfirmDelete
    <3>1. /\ \/ events' = WithoutEvent(arg)
             \/ events' = events
          /\ pc' = "menu" /\ arg' = None /\ reply'.msg \in Messages
      BY <2>2 DEF ConfirmDelete, Answer, Messages
    <3>2. events' \in UNION {[D -> Ids] : D \in SUBSET Positions}
      BY <3>1 DEF TypeOK, WithoutEvent
    <3> QED
      BY <2>2, <3>1, <3>2 DEF TypeOK, ConfirmDelete, Read, Prompts
  <2>3. CASE addSession
    <3>1. PICK id \in Ids, c \in Capacities :
            /\ sessions' = Append(sessions,
                 [sessionId |-> id, eventId |-> arg, capacity |-> c])
            /\ Answer("SessionAdded", id)
      BY <2>3 DEF addSession
    <3>2. arg \in Typed
      BY <2>3 DEF TypeOK, addSession, Read
    <3>3. sessions' \in Seq(Session)
      BY <3>1, <3>2 DEF TypeOK, Session
    <3>4. pc' = "menu" /\ arg' = None /\ reply'.msg \in Messages
      BY <3>1 DEF Answer, Messages
    <3> QED
      BY <2>3, <3>3, <3>4 DEF TypeOK, addSession, Read, Prompts
  <2>4. CASE registerUser
    <3>1. PICK s \in Typed :
            \/ \E id \in Ids :
                 /\ registrations' = WithRegistration(id,
                      [userId |-> arg, sessionId |-> s, status |-> "confirmed"])
                 /\ Answer("Registered", id)
            \/ Answer("SessionFull", s) /\ registrations' = registrations
      BY <2>4 DEF registerUser
    <3>2. arg \in Users
      BY <2>4 DEF TypeOK, registerUser, Read
    <3>3. registrations' \in UNION {[D -> Registration] : D \in SUBSET Ids}
      <4>1. PICK D \in SUBSET Ids : registrations \in [D -> Registration]
        BY DEF TypeOK
      <4>2. [userId |-> arg, sessionId |-> s, status |-> "confirmed"]
              \in Registration
        BY <3>2 DEF Registration, RegistrationStatus
      <4>3. ASSUME NEW id \in Ids,
                   registrations' = WithRegistration(id,
                     [userId |-> arg, sessionId |-> s, status |-> "confirmed"])
            PROVE  /\ registrations' \in [D \cup {id} -> Registration]
                   /\ D \cup {id} \in SUBSET Ids
        BY <4>1, <4>2, <4>3 DEF WithRegistration
      <4>4. CASE registrations' = registrations
        BY <4>1, <4>4
      <4>5. CASE \E id \in Ids :
                   registrations' = WithRegistration(id,
                     [userId |-> arg, sessionId |-> s, status |-> "confirmed"])
        <5>1. PICK id \in Ids : registrations' \in [D \cup {id} -> Registration]
          BY <4>3, <4>5
        <5> QED
          BY <5>1
      <4> QED
        BY <3>1, <4>4, <4>5
    <3>4. pc' = "menu" /\ arg' = None /\ reply'.msg \in Messages
      BY <3>1 DEF Answer, Messages
    <3> QED
      BY <2>4, <3>3, <3>4 DEF TypeOK, registerUser, Read, Prompts
  <2>5. CASE UNCHANGED vars
    BY <2>5 DEF TypeOK, vars
  <2>6. CASE \/ ChooseAddEvent \/ displayEvents \/ ChooseSearchEvent
             \/ searchEvent \/ ChooseDeleteEvent \/ deleteEvent
             \/ ChooseAddSession \/ PickSessionEvent \/ ChooseRegisterUser
             \/ EnterUser \/ SessionNotFound \/ Exit \/ InvalidChoice
             \/ BadNumber \/ ThrowAtEof \/ InputEnds
    <3>1. UNCHANGED data
      BY <2>6 DEF ChooseAddEvent, displayEvents, ChooseSearchEvent,
         searchEvent, ChooseDeleteEvent, deleteEvent, ChooseAddSession,
         PickSessionEvent, ChooseRegisterUser, EnterUser, SessionNotFound,
         Exit, InvalidChoice, BadNumber, ThrowAtEof, InputEnds, data
    <3> QED
      BY <2>6, <3>1, PromptStepsKeepType
  <2> QED
    BY <2>1, <2>2, <2>3, <2>4, <2>5, <2>6 DEF Next
<1> QED
  BY <1>1, <1>2, PTL DEF Spec

-----------------------------------------------------------------------------
(* Registrations and capacity *)

\* What the three statements about registrations say together.  None of them
\* is inductive alone: CapacityRespected survives a new session only because
\* RegistrationsKeepTheirSession rules out registrations that wait for it.
Bookings == RegistrationsKeepTheirSession /\ CapacityRespected /\ SharedPool

\* Bookings looks at nothing but the sessions and the registrations.
LEMMA BookingsUnchanged ==
  ASSUME Bookings, sessions' = sessions, registrations' = registrations
  PROVE  Bookings'
BY DEF Bookings, RegistrationsKeepTheirSession, CapacityRespected, SharedPool,
   HasSession, IsFirst, SeatsTaken, registeredCount

\* Any integer may be typed for a capacity, and nothing else is stored.
LEMMA CapacityIsInt ==
  ASSUME TypeOK, NEW i \in DOMAIN sessions
  PROVE  sessions[i].capacity \in Int
<1>1. sessions[i] \in Session
  BY DEF TypeOK
<1>2. sessions[i].capacity \in Capacities
  BY <1>1 DEF Session
<1> QED
  BY <1>2, ConsoleAssumption DEF ConsoleAssumption

\* addSession: a session listed before keeps its place, and the new one is the
\* first with its id only when no registration names that id.
LEMMA AddSessionKeepsBookings ==
  ASSUME TypeOK, Bookings, addSession
  PROVE  Bookings'
<1>1. PICK id \in Ids, c \in Capacities :
        sessions' = Append(sessions,
          [sessionId |-> id, eventId |-> arg, capacity |-> c])
  BY DEF addSession
<1>2. registrations' = registrations
  BY DEF addSession
<1>3. /\ Len(sessions) \in Nat
      /\ DOMAIN sessions = 1..Len(sessions)
      /\ DOMAIN sessions' = 1..(Len(sessions) + 1)
      /\ \A j \in DOMAIN sessions : sessions'[j] = sessions[j]
  BY <1>1 DEF TypeOK
<1>4. RegistrationsKeepTheirSession'
  BY <1>2, <1>3 DEF Bookings, RegistrationsKeepTheirSession, HasSession
<1>5. CapacityRespected'
  <2> SUFFICES ASSUME NEW i \in DOMAIN sessions', IsFirst(i)',
                      SeatsTaken(sessions[i].sessionId)' # {}
               PROVE  (Cardinality(SeatsTaken(sessions[i].sessionId))
                        <= sessions[i].capacity)'
    BY DEF CapacityRespected
  <2>1. SeatsTaken(sessions[i].sessionId)' = SeatsTaken(sessions'[i].sessionId)
    BY <1>2 DEF SeatsTaken
  <2>2. i \in DOMAIN sessions
    <3>1. PICK k \in DOMAIN registrations :
            registrations[k].sessionId = sessions'[i].sessionId
      BY <2>1 DEF SeatsTaken
    <3>2. PICK j \in DOMAIN sessions :
            sessions[j].sessionId = sessions'[i].sessionId
      BY <3>1 DEF Bookings, RegistrationsKeepTheirSession, HasSession
    <3>3. sessions'[j].sessionId = sessions'[i].sessionId
      BY <1>3, <3>2
    <3> QED
      BY <1>3, <3>3 DEF IsFirst
  <2>3. IsFirst(i)
    BY <1>3, <2>2 DEF IsFirst
  <2> QED
    BY <1>3, <2>1, <2>2, <2>3 DEF Bookings, CapacityRespected
<1>6. SharedPool'
  BY <1>2, <1>3 DEF Bookings, SharedPool, registeredCount
<1> QED
  BY <1>4, <1>5, <1>6 DEF Bookings

\* registerUser: it counts the registrations of every session, so the session
\* it registers for has room for all of them and one more.
LEMMA RegisterUserKeepsBookings ==
  ASSUME TypeOK, Bookings, registerUser
  PROVE  Bookings'
<1>0. sessions' = sessions
  BY DEF registerUser
<1>1. CASE registrations' = registrations
  BY <1>0, <1>1, BookingsUnchanged
<1>2. CASE registrations' # registrations
  <2>1. PICK i \in DOMAIN sessions, s \in Typed, id \in Ids :
          /\ IsFirstWhere(i, s)
          /\ registeredCount < sessions[i].capacity
          /\ registrations' = WithRegistration(id,
               [userId |-> arg, sessionId |-> s, status |-> "confirmed"])
    BY <1>2 DEF registerUser, hasAvailableSeats
  <2>2. /\ DOMAIN registrations' = DOMAIN registrations \cup {id}
        /\ registrations'[id].sessionId = s
        /\ \A k \in DOMAIN registrations :
             k # id => registrations'[k] = registrations[k]
    BY <2>1 DEF WithRegistration
  <2>3. IsFiniteSet(DOMAIN registrations)
    BY FS_Subset, ConsoleAssumption DEF TypeOK
  <2>4. /\ IsFiniteSet(DOMAIN registrations')
        /\ Cardinality(DOMAIN registrations') <= sessions[i].capacity
    <3>1. /\ IsFiniteSet(DOMAIN registrations')
          /\ Cardinality(DOMAIN registrations') <= registeredCount + 1
          /\ registeredCount \in Nat
          /\ Cardinality(DOMAIN registrations') \in Nat
      <4>1. registeredCount \in Nat
        BY <2>3, FS_CardinalityType DEF registeredCount
      <4>2. /\ IsFiniteSet(DOMAIN registrations')
            /\ \/ Cardinality(DOMAIN registrations') = registeredCount
               \/ Cardinality(DOMAIN registrations') = registeredCount + 1
        BY <2>2, <2>3, FS_AddElement DEF registeredCount
      <4> QED
        BY <4>1, <4>2
    <3>2. sessions[i].capacity \in Int
      BY CapacityIsInt
    <3> QED
      BY <2>1, <3>1, <3>2
  <2>5. RegistrationsKeepTheirSession'
    <3> SUFFICES ASSUME NEW k \in DOMAIN registrations'
                 PROVE  \E j \in DOMAIN sessions :
                          sessions[j].sessionId = registrations'[k].sessionId
      BY <1>0 DEF RegistrationsKeepTheirSession, HasSession
    <3>1. CASE k = id
      BY <2>1, <2>2, <3>1 DEF IsFirstWhere
    <3>2. CASE k # id
      BY <2>2, <3>2 DEF Bookings, RegistrationsKeepTheirSession, HasSession
    <3> QED
      BY <3>1, <3>2
  <2>6. CapacityRespected'
    <3> SUFFICES ASSUME NEW j \in DOMAIN sessions, IsFirst(j),
                        SeatsTaken(sessions[j].sessionId)' # {}
                 PROVE  Cardinality(SeatsTaken(sessions[j].sessionId)')
                          <= sessions[j].capacity
      BY <1>0 DEF CapacityRespected, IsFirst, SeatsTaken
    <3> DEFINE seats == SeatsTaken(sessions[j].sessionId)
    <3>1. /\ sessions[i].capacity \in Int
          /\ sessions[j].capacity \in Int
      BY CapacityIsInt
    <3>2. CASE sessions[j].sessionId = s
      <4>1. j = i
        BY <2>1, <3>2 DEF IsFirstWhere, IsFirst, TypeOK
      <4>2. seats' \subseteq DOMAIN registrations'
        BY <1>0 DEF SeatsTaken
      <4>3. Cardinality(seats') <= Cardinality(DOMAIN registrations')
        BY <2>4, <4>2, FS_Subset
      <4>4. /\ Cardinality(seats') \in Nat
            /\ Cardinality(DOMAIN registrations') \in Nat
        BY <2>4, <4>2, FS_Subset, FS_CardinalityType
      <4> QED
        BY <1>0, <2>4, <3>1, <4>1, <4>3, <4>4
    <3>3. CASE sessions[j].sessionId # s
      <4>1. seats' \subseteq seats /\ seats \subseteq DOMAIN registrations
        BY <1>0, <2>2, <3>3 DEF SeatsTaken
      <4>2. /\ Cardinality(seats') <= Cardinality(seats)
            /\ Cardinality(seats') \in Nat
            /\ Cardinality(seats) \in Nat
        BY <2>3, <4>1, FS_Subset, FS_CardinalityType
      <4>3. Cardinality(seats) <= sessions[j].capacity
        BY <1>0, <4>1 DEF Bookings, CapacityRespected
      <4> QED
        BY <1>0, <3>1, <4>2, <4>3
    <3> QED
      BY <3>2, <3>3
  <2>7. SharedPool'
    BY <1>0, <2>1, <2>4 DEF SharedPool, registeredCount
  <2> QED
    BY <2>5, <2>6, <2>7 DEF Bookings
<1> QED
  BY <1>1, <1>2

\* Every other step of the console leaves sessions and registrations alone.
LEMMA OtherStepsKeepSessions ==
  ASSUME [Next]_vars, ~addSession, ~registerUser
  PROVE  sessions' = sessions /\ registrations' = registrations
BY DEF Next, vars, data, ChooseAddEvent, addEvent, displayEvents,
   ChooseSearchEvent, searchEvent, ChooseDeleteEvent, deleteEvent,
   ConfirmDelete, ChooseAddSession, PickSessionEvent, ChooseRegisterUser,
   EnterUser, SessionNotFound, Exit, InvalidChoice, BadNumber, ThrowAtEof,
   InputEnds

\* The three statements about registrations hold of every behaviour.
THEOREM BookingsCorrect == Spec => []Bookings
<1>1. Init => Bookings
  BY DEF Init, Bookings, RegistrationsKeepTheirSession, CapacityRespected,
     SharedPool
<1>2. TypeOK /\ Bookings /\ [Next]_vars => Bookings'
  BY AddSessionKeepsBookings, RegisterUserKeepsBookings,
     OtherStepsKeepSessions, BookingsUnchanged
<1> QED
  BY <1>1, <1>2, TypeCorrect, PTL DEF Spec

\* registerUser never overbooks a session, however ids collide, events are
\* deleted and capacities are typed.
THEOREM NeverOverbooked == Spec => []CapacityRespected
<1>1. Bookings => CapacityRespected
  BY DEF Bookings
<1> QED
  BY <1>1, BookingsCorrect, PTL

\* All registrations together fit the largest session.
THEOREM OnePoolOfSeats == Spec => []SharedPool
<1>1. Bookings => SharedPool
  BY DEF Bookings
<1> QED
  BY <1>1, BookingsCorrect, PTL

\* A registration names a session that is listed, in every reachable state.
THEOREM SessionsOutliveEvents == Spec => []RegistrationsKeepTheirSession
<1>1. Bookings => RegistrationsKeepTheirSession
  BY DEF Bookings
<1> QED
  BY <1>1, BookingsCorrect, PTL

-----------------------------------------------------------------------------
(* What a step may never do *)

\* No step drops a registration, and only the registration that draws the same
\* id replaces one.
THEOREM NoSilentLoss == Spec => LostOnlyByCollision
<1>1. [Next]_vars =>
        [\A k \in DOMAIN registrations :
           /\ k \in DOMAIN registrations'
           /\ registrations'[k] # registrations[k] => reply'.id = k]_vars
  <2> SUFFICES ASSUME [Next]_vars, NEW k \in DOMAIN registrations
               PROVE  /\ k \in DOMAIN registrations'
                      /\ registrations'[k] # registrations[k] => reply'.id = k
    OBVIOUS
  <2>1. CASE registrations' = registrations
    BY <2>1
  <2>2. CASE registrations' # registrations
    <3>1. registerUser
      BY <2>2, OtherStepsKeepSessions DEF addSession
    <3>2. PICK id \in Ids :
            /\ \E r : registrations' = WithRegistration(id, r)
            /\ reply'.id = id
      BY <2>2, <3>1 DEF registerUser, Answer
    <3> QED
      BY <3>2 DEF WithRegistration
  <2> QED
    BY <2>1, <2>2
<1> QED
  BY <1>1, PTL DEF Spec, LostOnlyByCollision

\* Every other step leaves the events alone, and none of those that answer at all
\* answers "Deleted".
LEMMA OtherStepsKeepEvents ==
  ASSUME Next, ~addEvent, ~ConfirmDelete
  PROVE  events' = events /\ (reply' = reply \/ reply'.msg # "Deleted")
<1>1. CASE InputEnds
  BY <1>1 DEF InputEnds, data
<1>2. CASE Exit \/ ChooseAddEvent \/ ChooseSearchEvent \/ ChooseDeleteEvent \/ EnterUser
  BY <1>2 DEF Exit, ChooseAddEvent, ChooseSearchEvent, ChooseDeleteEvent, EnterUser, Ask, data
<1>3. CASE displayEvents \/ searchEvent \/ SessionNotFound \/ InvalidChoice \/ BadNumber \/ ThrowAtEof
  BY <1>3 DEF displayEvents, searchEvent, SessionNotFound, InvalidChoice, BadNumber, ThrowAtEof,
     Answer, data
<1>4. CASE deleteEvent \/ ChooseAddSession \/ PickSessionEvent \/ ChooseRegisterUser
  BY <1>4 DEF deleteEvent, ChooseAddSession, PickSessionEvent, ChooseRegisterUser, Ask, Answer, data
<1>5. CASE addSession
  <2>1. PICK id \in Ids : Answer("SessionAdded", id)
    BY <1>5 DEF addSession
  <2> QED
    BY <1>5, <2>1 DEF addSession, Answer
<1>6. CASE registerUser
  <2>1. PICK m \in {"Registered", "SessionFull"} : \E id : Answer(m, id)
    BY <1>6 DEF registerUser
  <2> QED
    BY <1>6, <2>1 DEF registerUser, Answer
<1> QED
  BY <1>1, <1>2, <1>3, <1>4, <1>5, <1>6 DEF Next

\* When deleteEvent prints "Deleted successfully." no event has the id any more,
\* however often Random().nextInt drew it.
THEOREM DeletionIsComplete == Spec => []DeletedIsGone
<1>1. Init => DeletedIsGone
  BY DEF Init, DeletedIsGone
<1>2. DeletedIsGone /\ [Next]_vars => DeletedIsGone'
  <2> SUFFICES ASSUME DeletedIsGone, [Next]_vars
               PROVE  DeletedIsGone'
    OBVIOUS
  <2>1. CASE addEvent
    BY <2>1 DEF addEvent, Answer, DeletedIsGone
  <2>2. CASE ConfirmDelete
    BY <2>2 DEF ConfirmDelete, Answer, DeletedIsGone, HasEvent, WithoutEvent
  <2>3. CASE UNCHANGED vars
    BY <2>3 DEF vars, DeletedIsGone, HasEvent
  <2>4. CASE Next /\ ~addEvent /\ ~ConfirmDelete
    <3>1. events' = events /\ (reply' = reply \/ reply'.msg # "Deleted")
      BY <2>4, OtherStepsKeepEvents
    <3> QED
      BY <3>1 DEF DeletedIsGone, HasEvent
  <2> QED
    BY <2>1, <2>2, <2>3, <2>4
<1> QED
  BY <1>1, <1>2, PTL DEF Spec

\* Events, sessions and registrations change in no step but the one that prints
\* the change: a handler that is cut short has stored nothing.
THEOREM NoSilentChange == Spec => ChangesAreReported
<1>1. [Next]_vars =>
        [ /\ events' # events => reply'.msg \in {"EventAdded", "Deleted"}
          /\ sessions' # sessions => reply'.msg = "SessionAdded"
          /\ registrations' # registrations => reply'.msg = "Registered" ]_vars
  <2> SUFFICES ASSUME Next
               PROVE  /\ events' # events => reply'.msg \in {"EventAdded", "Deleted"}
                      /\ sessions' # sessions => reply'.msg = "SessionAdded"
                      /\ registrations' # registrations => reply'.msg = "Registered"
    OBVIOUS
  <2>1. ASSUME events' # events PROVE reply'.msg \in {"EventAdded", "Deleted"}
    <3>1. addEvent \/ ConfirmDelete
      BY <2>1, OtherStepsKeepEvents
    <3> QED
      BY <2>1, <3>1 DEF addEvent, ConfirmDelete, Answer
  <2>2. ASSUME sessions' # sessions PROVE reply'.msg = "SessionAdded"
    <3>1. addSession
      BY <2>2, OtherStepsKeepSessions DEF registerUser
    <3> QED
      BY <3>1 DEF addSession, Answer
  <2>3. ASSUME registrations' # registrations PROVE reply'.msg = "Registered"
    <3>1. registerUser
      BY <2>3, OtherStepsKeepSessions DEF addSession
    <3> QED
      BY <2>3, <3>1 DEF registerUser, Answer
  <2> QED
    BY <2>1, <2>2, <2>3
<1> QED
  BY <1>1, PTL DEF Spec, ChangesAreReported
=============================================================================
