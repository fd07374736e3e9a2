---------------------------- MODULE DurableStore ----------------------------
(***************************************************************************)
(* What leveldb promises to the callers of Write(), without queue, log,    *)
(* memtable, tables or files (include/leveldb/db.h and options.h): calls   *)
(* are issued and answered; the batches answered with success appear in    *)
(* the store together; what has become durable stays durable; a restart    *)
(* keeps all of it, may lose the rest, and may bring in a batch that was   *)
(* never answered or answered with an error, but only as a whole.          *)
(***************************************************************************)
EXTENDS Naturals, Sequences

VARIABLES
    answers,    \* every call: its answer, its sync flag, is it a null batch
    stored,     \* the calls whose batch a reader sees
    durable     \* the calls whose batch no crash can remove

vars == <<answers, stored, durable>>

Init == answers = << >> /\ stored = {} /\ durable = {}

Pending == {i \in DOMAIN answers : answers[i].res = "pending"}
Answered(S, r) == [i \in DOMAIN answers |->
                      IF i \in S THEN [answers[i] EXCEPT !.res = r] ELSE answers[i]]
Batches(S) == {i \in S : ~answers[i].empty}

\* A call of Write().
Issue ==
    /\ \E s, e \in BOOLEAN :
          answers' = Append(answers, [res |-> "pending", sync |-> s, empty |-> e])
    /\ UNCHANGED <<stored, durable>>

\* A group succeeds: all its batches appear, and are durable if one of its
\* calls asked for that.
Succeed(S) ==
    /\ S # {}
    /\ answers' = Answered(S, "ok")
    /\ stored' = stored \cup Batches(S)
    /\ (\E i \in S : answers[i].sync) => Batches(S) \subseteq durable
    /\ UNCHANGED durable

\* A group fails: nothing appears.
Fail(S) ==
    /\ S # {}
    /\ answers' = Answered(S, "error")
    /\ UNCHANGED <<stored, durable>>

\* Batches become durable, never the reverse.
Harden ==
    /\ durable' \in {durable \cup S : S \in SUBSET (stored \cup Pending)}
    /\ UNCHANGED <<answers, stored>>

\* The DB goes down and comes back.  Answers stay as they are, except that
\* a call cut short is noted, and so is one whose batch was lost.
Restart ==
    LET kept == durable \cup stored
                 \cup {i \in DOMAIN answers : answers[i].res \in {"pending", "error", "cut"}} IN
    /\ stored' \in {durable \cup S : S \in SUBSET kept}
    /\ DOMAIN answers' = DOMAIN answers
    /\ \A i \in DOMAIN answers :
          /\ answers'[i].sync = answers[i].sync /\ answers'[i].empty = answers[i].empty
          /\ answers'[i].res = answers[i].res
             \/ (answers[i].res = "pending" /\ answers'[i].res = "cut")
             \/ (answers[i].res = "ok" /\ i \notin stored' /\ answers'[i].res = "lost")
    /\ durable' = durable

Next ==
    \/ Issue \/ Harden \/ Restart
    \/ \E S \in SUBSET Pending : S # {} /\ (Succeed(S) \/ Fail(S))

Spec == Init /\ [][Next]_vars
=============================================================================
