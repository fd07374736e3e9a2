----------------------- MODULE WriteRefinementProofs ------------------------
(***************************************************************************)
(* The write path implements the abstract store (module DurableStore):     *)
(* initial states map to initial states, and each action maps to one step  *)
(* of the store or to none.  RefInv is what the mapping needs beyond the   *)
(* invariants of WritePathProofs and WriteDurabilityProofs: they say what  *)
(* is not lost, RefInv what does not appear.                               *)
(***************************************************************************)
EXTENDS WriteDurabilityProofs

\* A record whose sync failed stays in the log, and no write follows it.
FailedInv ==
    mode = "open" =>
        \/ LogSet(logfile_number_) \subseteq mem_ \cup write_batch
        \/ /\ bg_error_ /\ \A t \in Threads : pc[t] \notin Writing
           /\ \A e \in LogSet(logfile_number_) : e \in mem_ \/ calls[e.id].res = "error"

\* The logs a flush has not yet retired hold nothing but what imm_ or the
\* manifest's tables hold.
OldLogInv ==
    mode = "open" =>
        \A n \in DOMAIN logs : log_number_ <= n /\ n < logfile_number_ =>
            LogSet(n) \subseteq Imm \cup InTables(manifest.version)

\* The output of a compaction holds what its inputs held, no more and no less.
ExactInv == flushing = NoFile /\ bgpc \in Busy => tables[Out] = TableSet(Inputs)

\* A reader of an open DB sees everything in the manifest's tables.
ServedInv == mode = "open" => InTables(manifest.version) \subseteq Served

\* The tables Recover has written hold only what the logs hold.
ReadInv == mode = "recover" => TableSet(edit.add) \subseteq OnDisk

\* Nothing of the group's batch is in mem_ before InsertInto runs, or when its
\* sync has failed.
NewBatchInv ==
    \A t \in Threads :
        pc[t] \in {"log", "sync"} \/ (pc[t] = "finish" /\ status # "ok") =>
            write_batch \cap mem_ = {}

RefInv == FailedInv /\ OldLogInv /\ ExactInv /\ ServedInv /\ ReadInv /\ NewBatchInv

\* What the abstract store holds, entry by entry: the calls with an entry in the
\* synced part of the disk are durable; those with one that readers see, or that
\* recovery would read, are stored.
View ==
    /\ \A i : i \in Durable <=> \E e \in OnDiskSynced : e.id = i
    /\ mode = "open" =>
         \A i : i \in Stored <=> \E e \in Served : e \notin write_batch /\ e.id = i
    /\ mode # "open" => \A i : i \in Stored <=> \E e \in OnDisk : e.id = i
    /\ \A e \in OnDisk : e.id \in 1..Len(calls)
    /\ DOMAIN calls = 1..Len(calls) /\ Len(calls) \in Nat

\* A store that never tears a batch holds a call if it has one of its entries.
LEMMA HoldsIs ==
    ASSUME ContentInv, NEW A, A \subseteq Entries, WholeIn(A, Entries), NEW i
    PROVE  Holds(A, i) <=> \E e \in A : e.id = i
<1>1. ASSUME NEW e \in A, e.id = i PROVE Holds(A, i)
  <2>1. calls[e.id].count # 0
    BY DEF ContentInv, CountIn
  <2>2. Holds(A, e.id)
    BY <2>1, WholeHolds
  <2> QED
    BY <1>1, <2>2
<1>2. ASSUME \A e \in A : e.id # i PROVE ~Holds(A, i)
  <2>1. {e \in A : e.id = i} = {}
    BY <1>2
  <2>2. Cardinality({e \in A : e.id = i}) = 0
    BY <2>1, FS_EmptySet
  <2> QED
    BY <2>2 DEF Holds
<1> QED
  BY <1>1, <1>2

\* The invariants of the write path give this view of the abstract state.
LEMMA ViewHolds == WholeRecords /\ DataInv /\ WholeInv /\ WritePathInv => View
<1> SUFFICES ASSUME WholeRecords, DataInv, WholeInv, WritePathInv PROVE View
  OBVIOUS
<1>1. DOMAIN calls = 1..Len(calls) /\ Len(calls) \in Nat
  BY DEF WritePathInv, ThreadInv, ThreadTypes
<1>2. \A e \in Entries : e.id \in 1..Len(calls)
  BY DEF DataInv, ContentInv, CountIn
<1>3. ContentInv
  BY DEF DataInv
<1>4. /\ OnDisk \subseteq Entries /\ WholeIn(OnDisk, Entries)
      /\ OnDiskSynced \subseteq Entries /\ WholeIn(OnDiskSynced, Entries)
  BY DiskWhole
<1>5. \A i : i \in Durable <=> \E e \in OnDiskSynced : e.id = i
  <2>1. \A i : Holds(OnDiskSynced, i) <=> \E e \in OnDiskSynced : e.id = i
    <3>1. PICK A : A = OnDiskSynced
      OBVIOUS
    <3>2. \A i : Holds(A, i) <=> \E e \in A : e.id = i
      BY <1>3, <1>4, <3>1, HoldsIs
    <3> QED
      BY <3>1, <3>2
  <2> QED
    BY <1>1, <1>2, <1>4, <2>1, ReadFromDisk DEF Durable
<1>6. ASSUME mode = "open"
      PROVE  \A i : i \in Stored <=> \E e \in Served : e \notin write_batch /\ e.id = i
  <2>1. Readable \subseteq Entries /\ WholeIn(Readable, Entries)
    BY <1>6, ReadableWhole
  <2>2. \A e : e \in Readable <=> e \in Served /\ e \notin write_batch
    <3>1. \A e \in Served : e \notin write_batch => e \in Readable
      BY <1>6, ReadableWhole
    <3>2. ASSUME NEW e \in Readable PROVE e \in Served /\ e \notin write_batch
      <4>1. e \in Served /\ e.seq <= last_sequence_
        BY ReadableIs
      <4>2. e \in write_batch => last_sequence_ < e.seq
        BY DEF DataInv, BatchInv
      <4>3. e.seq \in Nat /\ last_sequence_ \in Nat
        BY <2>1 DEF DataInv, ContentInv, SeqInv, Entry
      <4> QED
        BY <4>1, <4>2, <4>3
    <3> QED
      BY <3>1, <3>2
  <2>3. \A i : Holds(Readable, i) <=> \E e \in Readable : e.id = i
    <3>1. PICK A : A = Readable
      OBVIOUS
    <3>2. \A i : Holds(A, i) <=> \E e \in A : e.id = i
      BY <1>3, <2>1, <3>1, HoldsIs
    <3> QED
      BY <3>1, <3>2
  <2> QED
    BY <1>1, <1>2, <1>6, <2>1, <2>2, <2>3 DEF Stored
<1>7. ASSUME mode # "open"
      PROVE  \A i : i \in Stored <=> \E e \in OnDisk : e.id = i
  <2>1. \A i : Holds(OnDisk, i) <=> \E e \in OnDisk : e.id = i
    <3>1. PICK A : A = OnDisk
      OBVIOUS
    <3>2. \A i : Holds(A, i) <=> \E e \in A : e.id = i
      BY <1>3, <1>4, <3>1, HoldsIs
    <3> QED
      BY <3>1, <3>2
  <2> QED
    BY <1>1, <1>2, <1>4, <1>7, <2>1, ReadFromDisk DEF Stored
<1> QED
  BY <1>1, <1>2, <1>4, <1>5, <1>6, <1>7 DEF View

\* They give it in the next state too.
LEMMA ViewNext == WholeRecords' /\ DataInv' /\ WholeInv' /\ WritePathInv' => View'
  BY ViewHolds, PTL

\* A step the clients of the store do not see.
Silent == UNCHANGED <<calls, Stored, Durable>>

\* It changes nothing of the abstract store.
LEMMA SilentStep == Silent => UNCHANGED Abstract!vars
  BY DEF Silent, Abstract!vars

\* Such a step while the DB is open, and while it is not.
LEMMA SilentOpen ==
    ASSUME View, View', calls' = calls, mode = "open", mode' = "open",
           \A e : e \in OnDiskSynced' <=> e \in OnDiskSynced,
           \A e : e \in Served' /\ e \notin write_batch' <=> e \in Served /\ e \notin write_batch
    PROVE  Silent
<1>1. \A i : i \in Durable' <=> i \in Durable
  BY DEF View
<1>2. \A i : i \in Stored' <=> i \in Stored
  BY DEF View
<1>3. Durable' = Durable
  BY <1>1 DEF Durable
<1>4. Stored' = Stored
  BY <1>2 DEF Stored
<1> QED
  BY <1>3, <1>4 DEF Silent

\* While the DB is not open, what recovery would read decides.
LEMMA SilentClosed ==
    ASSUME View, View', calls' = calls, mode # "open", mode' # "open",
           \A e : e \in OnDiskSynced' <=> e \in OnDiskSynced,
           \A e : e \in OnDisk' <=> e \in OnDisk
    PROVE  Silent
<1>1. \A i : i \in Durable' <=> i \in Durable
  BY DEF View
<1>2. \A i : i \in Stored' <=> i \in Stored
  BY DEF View
<1>3. Durable' = Durable
  BY <1>1 DEF Durable
<1>4. Stored' = Stored
  BY <1>2 DEF Stored
<1> QED
  BY <1>3, <1>4 DEF Silent

\* The calls of Write() still running.
PendingCalls == {i \in DOMAIN calls : calls[i].res = "pending"}

\* Batches of stored or running calls become durable: Harden.
LEMMA HardenStep ==
    ASSUME calls' = calls, Stored' = Stored, Durable \subseteq Durable',
           Durable' \subseteq Durable \cup Stored \cup PendingCalls
    PROVE  Abstract!Harden
<1>1. Abstract!Pending = PendingCalls
  BY DEF Abstract!Pending, PendingCalls
<1>2. PICK S : S = Durable' \ Durable
  OBVIOUS
<1>3. S \in SUBSET (Stored \cup Abstract!Pending) /\ Durable' = Durable \cup S
  BY <1>1, <1>2
<1> QED
  BY <1>3 DEF Abstract!Harden

\* How a stop changes the answers: calls are cut, and lost only if their batch
\* is gone.
Loses == 
    /\ DOMAIN calls' = DOMAIN calls
    /\ \A i \in DOMAIN calls :
         /\ calls'[i].sync = calls[i].sync /\ calls'[i].count = calls[i].count
         /\ \/ calls'[i].res = calls[i].res
            \/ calls[i].res = "pending" /\ calls'[i].res = "cut"
            \/ calls[i].res = "ok" /\ i \notin Stored' /\ calls'[i].res = "lost"

\* A stop that keeps what is durable and brings back no call that was never
\* issued: Restart.
LEMMA RestartStep ==
    ASSUME Loses, Durable' = Durable, Durable \subseteq Stored',
           Stored' \subseteq Durable \cup Stored
                      \cup {i \in DOMAIN calls : calls[i].res \in {"pending", "error", "cut"}}
    PROVE  Abstract!Restart
<1> DEFINE kept == Durable \cup Stored
                      \cup {i \in DOMAIN calls : calls[i].res \in {"pending", "error", "cut"}}
           a(c) == [i \in DOMAIN c |-> [res |-> c[i].res, sync |-> c[i].sync, empty |-> c[i].count = 0]]
<1>1. PICK S : S = Stored' \cap kept
  OBVIOUS
<1>2. S \in SUBSET kept /\ Stored' = Durable \cup S
  BY <1>1
<1>3. /\ DOMAIN a(calls)' = DOMAIN a(calls)
      /\ \A i \in DOMAIN a(calls) :
           /\ a(calls)[i].res = calls[i].res /\ a(calls)'[i].res = calls'[i].res
           /\ a(calls)'[i].sync = a(calls)[i].sync /\ a(calls)'[i].empty = a(calls)[i].empty
  BY DEF Loses
<1>4. {i \in DOMAIN a(calls) : a(calls)[i].res \in {"pending", "error", "cut"}}
        = {i \in DOMAIN calls : calls[i].res \in {"pending", "error", "cut"}}
  OBVIOUS
<1> QED
  BY <1>2, <1>3, <1>4 DEF Abstract!Restart, Loses

\* The abstract answers of the calls.
AnswersOf(c) == [i \in DOMAIN c |-> [res |-> c[i].res, sync |-> c[i].sync, empty |-> c[i].count = 0]]

\* The answer to a group: Succeed or Fail.
LEMMA AnswerStep ==
    ASSUME NEW S \in SUBSET PendingCalls, S # {}, NEW r \in {"ok", "error"},
           DOMAIN calls' = DOMAIN calls,
           \A i \in DOMAIN calls :
              /\ calls'[i].count = calls[i].count /\ calls'[i].sync = calls[i].sync
              /\ i \in S => calls'[i].res = r
              /\ i \notin S => calls'[i].res = calls[i].res,
           Durable' = Durable,
           r = "error" => Stored' = Stored,
           r = "ok" => /\ Stored' = Stored \cup {i \in S : calls[i].count # 0}
                       /\ (\E i \in S : calls[i].sync) => {i \in S : calls[i].count # 0} \subseteq Durable
    PROVE  Abstract!Next
<1>1. Abstract!Pending = PendingCalls
  BY DEF Abstract!Pending, PendingCalls
<1>2. S \subseteq DOMAIN calls
  BY DEF PendingCalls
<1>3. Abstract!Answered(S, r) =
        [i \in DOMAIN AnswersOf(calls) |->
            IF i \in S THEN [AnswersOf(calls)[i] EXCEPT !.res = r] ELSE AnswersOf(calls)[i]]
  BY DEF Abstract!Answered, AnswersOf
<1>4. AnswersOf(calls)' = Abstract!Answered(S, r)
  <2>1. DOMAIN AnswersOf(calls) = DOMAIN calls /\ DOMAIN AnswersOf(calls)' = DOMAIN calls
    BY DEF AnswersOf
  <2>2. ASSUME NEW i \in DOMAIN calls
        PROVE  AnswersOf(calls)'[i] = IF i \in S THEN [AnswersOf(calls)[i] EXCEPT !.res = r]
                                                 ELSE AnswersOf(calls)[i]
    <3>1. AnswersOf(calls)[i] = [res |-> calls[i].res, sync |-> calls[i].sync, empty |-> calls[i].count = 0]
      BY DEF AnswersOf
    <3>2. AnswersOf(calls)'[i] = [res |-> calls'[i].res, sync |-> calls'[i].sync, empty |-> calls'[i].count = 0]
      BY DEF AnswersOf
    <3> QED
      BY <3>1, <3>2
  <2>3. AnswersOf(calls)' = [i \in DOMAIN calls |-> IF i \in S THEN [AnswersOf(calls)[i] EXCEPT !.res = r]
                                                 ELSE AnswersOf(calls)[i]]
    BY <2>1, <2>2 DEF AnswersOf
  <2> QED
    BY <1>3, <2>1, <2>3
<1>5. /\ Abstract!Batches(S) = {i \in S : calls[i].count # 0}
      /\ (\E i \in S : AnswersOf(calls)[i].sync) <=> \E i \in S : calls[i].sync
  BY <1>2 DEF Abstract!Batches, AnswersOf
<1>6. CASE r = "ok"
  <2>1. Abstract!Succeed(S)
    BY <1>4, <1>5, <1>6 DEF Abstract!Succeed, AnswersOf
  <2> QED
    BY <1>1, <2>1 DEF Abstract!Next
<1>7. CASE r = "error"
  <2>1. Abstract!Fail(S)
    BY <1>4, <1>7 DEF Abstract!Fail, AnswersOf
  <2> QED
    BY <1>1, <2>1 DEF Abstract!Next
<1> QED
  BY <1>6, <1>7

\* A new call of Write(): Issue.
LEMMA IssueStep ==
    ASSUME ThreadInv, NEW k \in Nat, NEW s \in BOOLEAN,
           calls' = Append(calls, [count |-> k, sync |-> s, res |-> "pending"]),
           Stored' = Stored, Durable' = Durable
    PROVE  Abstract!Issue
<1> DEFINE c == [count |-> k, sync |-> s, res |-> "pending"]
           a == [res |-> "pending", sync |-> s, empty |-> (k = 0)]
<1>1. calls \in Seq(CallT) /\ Len(calls) \in Nat /\ DOMAIN calls = 1..Len(calls)
  BY DEF ThreadInv, ThreadTypes
<1>2. /\ DOMAIN calls' = 1..(Len(calls) + 1) /\ calls'[Len(calls) + 1] = c
      /\ \A i \in 1..Len(calls) : calls'[i] = calls[i]
  BY <1>1
<1>3. PICK T : \A i \in 1..Len(calls) : AnswersOf(calls)[i] \in T
  <2>1. \A i \in 1..Len(calls) : AnswersOf(calls)[i] \in {AnswersOf(calls)[j] : j \in 1..Len(calls)}
    OBVIOUS
  <2> QED
    BY <2>1
<1>4. AnswersOf(calls) \in Seq(T) /\ Len(AnswersOf(calls)) = Len(calls)
  <2>1. DOMAIN AnswersOf(calls) = 1..Len(calls) /\ AnswersOf(calls) = [i \in 1..Len(calls) |-> AnswersOf(calls)[i]]
    BY <1>1 DEF AnswersOf
  <2> HIDE DEF AnswersOf
  <2> QED
    BY <1>1, <1>3, <2>1
<1>5. AnswersOf(calls)' = Append(AnswersOf(calls), a)
  <2>1. /\ DOMAIN AnswersOf(calls)' = 1..(Len(calls) + 1)
        /\ AnswersOf(calls)'[Len(calls) + 1] = a
        /\ \A i \in 1..Len(calls) : AnswersOf(calls)'[i] = AnswersOf(calls)[i]
        /\ AnswersOf(calls)' = [i \in 1..(Len(calls) + 1) |-> AnswersOf(calls)'[i]]
    BY <1>1, <1>2 DEF AnswersOf
  <2> HIDE DEF a
  <2>2. PICK A : A = AnswersOf(calls)
    OBVIOUS
  <2>3. PICK B : B = AnswersOf(calls)'
    OBVIOUS
  <2>4. PICK n \in Nat : n = Len(calls)
    BY <1>1
  <2>5. PICK U : U = T \cup {a}
    OBVIOUS
  <2>6. A \in Seq(U) /\ Len(A) = n /\ a \in U
    BY <1>4, <2>2, <2>4, <2>5
  <2>7. /\ Append(A, a) \in Seq(U) /\ Len(Append(A, a)) = n + 1
        /\ \A i \in 1..n : Append(A, a)[i] = A[i]
        /\ Append(A, a)[n + 1] = a
    BY <2>6, AppendProperties
  <2>8. /\ B = [i \in 1..(n + 1) |-> B[i]] /\ B[n + 1] = a
        /\ \A i \in 1..n : B[i] = A[i]
    BY <2>1, <2>2, <2>3, <2>4
  <2>9. \A i \in 1..(n + 1) : i \in 1..n \/ i = n + 1
    BY <2>4
  <2>10. B \in Seq(U) /\ Len(B) = n + 1
    <3>1. \A i \in 1..n : A[i] \in U
      BY <2>6
    <3>2. \A i \in 1..(n + 1) : B[i] \in U
      BY <2>6, <2>8, <2>9, <3>1, Zenon
    <3> QED
      BY <2>8, <3>2
  <2>11. \A i \in 1..(n + 1) : B[i] = Append(A, a)[i]
    BY <2>7, <2>8, <2>9, Zenon
  <2>12. B = Append(A, a)
    BY <2>7, <2>10, <2>11
  <2> QED
    BY <2>2, <2>3, <2>12
<1> QED
  BY <1>5 DEF Abstract!Issue, AnswersOf

\* A step of the abstract store, or none.
AbstractStep == [Abstract!Next]_(Abstract!vars)

\* No change is allowed.
LEMMA SilentIsStep == Silent => AbstractStep
  BY SilentStep DEF AbstractStep

\* Steps that leave memtables, logs, tables and versions alone keep RefInv.
LEMMA RefQuiet ==
    ASSUME RefInv, DataInv, WritePathInv, WritePathInv', UNCHANGED quietVars,
           mode = "open" \/ edit' = edit, bg_error_ => bg_error_',
           \A i \in 1..Len(calls) : calls[i].res = "error" => calls'[i].res = "error",
           \A t \in Threads : pc[t] \in Writing \/ pc'[t] \in Writing => pc'[t] = pc[t],
           ExactInv'
    PROVE  /\ RefInv' /\ OnDiskSynced' = OnDiskSynced /\ Served' = Served /\ OnDisk' = OnDisk
<1> USE DEF quietVars
<1>1. /\ OnDiskSynced' = OnDiskSynced /\ Served' = Served /\ OnDisk' = OnDisk /\ Imm' = Imm
      /\ InTables(manifest.version)' = InTables(manifest.version)
      /\ LogSet(logfile_number_)' = LogSet(logfile_number_)
      /\ \A n : LogSet(n)' = LogSet(n)
  BY DEF OnDiskSynced, SyncedSet, Served, OnDisk, Imm, InTables, LogSet, Files
<1>2. FailedInv'
  <2>1. \A e \in LogSet(logfile_number_) : mode = "open" => e.id \in 1..Len(calls)
    <3>1. mode = "open" => logfile_number_ \in DOMAIN logs
      BY DEF WritePathInv, FilesInv, FilesPart, OpenInv
    <3> QED
      BY <3>1, EntriesIs DEF DataInv, ContentInv, CountIn
  <2>2. \A t \in Threads : pc[t] \notin Writing => pc'[t] \notin Writing
    OBVIOUS
  <2>3. CASE LogSet(logfile_number_) \subseteq mem_ \cup write_batch
    BY <1>1, <2>3 DEF FailedInv
  <2>4. CASE /\ bg_error_ /\ \A t \in Threads : pc[t] \notin Writing
             /\ \A e \in LogSet(logfile_number_) : e \in mem_ \/ calls[e.id].res = "error"
    BY <1>1, <2>1, <2>2, <2>4 DEF FailedInv
  <2> QED
    BY <2>3, <2>4 DEF RefInv, FailedInv
<1>3. OldLogInv'
  BY <1>1 DEF RefInv, OldLogInv
<1>4. ServedInv'
  BY <1>1 DEF RefInv, ServedInv
<1>5. ReadInv'
  BY <1>1 DEF RefInv, ReadInv, TableSet
<1>6. NewBatchInv'
  BY DEF RefInv, NewBatchInv, Writing
<1> QED
  BY <1>1, <1>2, <1>3, <1>4, <1>5, <1>6 DEF RefInv

\* Steps that touch neither the tables nor the compaction keep ExactInv.
LEMMA ExactFrame ==
    ASSUME ExactInv, tables' = tables,
           \/ UNCHANGED <<flushing, compacting>> /\ (bgpc' = bgpc \/ {bgpc, bgpc'} \subseteq Busy)
           \/ bgpc' \notin Busy \/ flushing' # NoFile
    PROVE  ExactInv'
  BY DEF ExactInv, TableSet, Inputs, Out

\* Steps that leave all three sets of entries alone are silent.
LEMMA SilentQuiet ==
    ASSUME View, View', calls' = calls, mode' = mode, write_batch' = write_batch,
           OnDiskSynced' = OnDiskSynced, Served' = Served, OnDisk' = OnDisk
    PROVE  AbstractStep
<1>1. CASE mode = "open"
  BY <1>1, SilentOpen, SilentIsStep
<1>2. CASE mode # "open"
  BY <1>2, SilentClosed, SilentIsStep
<1> QED
  BY <1>1, <1>2

\* Waking up and waiting are silent.
LEMMA WaitingRef ==
    ASSUME RefInv, DataInv, WritePathInv, WritePathInv', View, View', NEW t \in Threads,
           Wake(t) \/ HeadDelay(t) \/ HeadWait(t) \/ FlushWait(t)
    PROVE  RefInv' /\ AbstractStep
<1>1. UNCHANGED quietVars /\ UNCHANGED <<calls, call, writers_>> /\ edit' = edit
      /\ UNCHANGED <<tables, imm_, flushing, bgpc, compacting, bg_error_>>
  BY DEF Wake, HeadDelay, HeadWait, FlushWait, quietVars, memVars, versionVars, bgVars,
      openVars, diskVars, callVars, queueVars, headVars, flagVars
<1>2. pc \in [Threads -> ThreadPcs]
  BY DEF WritePathInv, ThreadInv, ThreadTypes
<1>3. /\ \A u \in Threads \ {t} : pc'[u] = pc[u]
      /\ pc'[t] = pc[t] \/ (pc[t] \notin Writing /\ pc'[t] \notin Writing)
  BY <1>2 DEF Wake, HeadDelay, HeadWait, FlushWait, callVars, AtHead, Returned, Writing
<1>4. \A u \in Threads : pc[u] \in Writing \/ pc'[u] \in Writing => pc'[u] = pc[u]
  BY <1>3
<1>5. ExactInv'
  BY <1>1, ExactFrame DEF RefInv
<1>6. RefInv' /\ OnDiskSynced' = OnDiskSynced /\ Served' = Served /\ OnDisk' = OnDisk
  BY <1>1, <1>4, <1>5, RefQuiet
<1> QED
  BY <1>1, <1>6, SilentQuiet DEF quietVars

\* Steps of the background thread that write no file and install no version,
\* and the start of a close, are silent.
LEMMA BackgroundQuietRef ==
    ASSUME RefInv, DataInv, WritePathInv, WritePathInv', View, View',
           \/ BackgroundSkip \/ CompactMemTable \/ (\E l \in BOOLEAN : FlushEdit(l))
           \/ FlushFails \/ InstallFails \/ RemoveDone \/ BackgroundEnd \/ StartCompaction
           \/ AbandonCompaction \/ (FinishCompaction /\ bgpc' = "end")
           \/ (BuildTable /\ bgpc' = "buildfailed") \/ (WriteManifest /\ manifest' = manifest)
           \/ StartClose \/ UNCHANGED vars
    PROVE  RefInv' /\ AbstractStep
<1>1. UNCHANGED quietVars /\ UNCHANGED <<calls, call, writers_>> /\ UNCHANGED <<tables, imm_>>
  BY DEF BackgroundSkip, CompactMemTable, FlushEdit, FlushFails, InstallFails, RemoveDone,
      BackgroundEnd, StartCompaction, AbandonCompaction, FinishCompaction, BuildTable, WriteManifest, StartClose, vars,
      bgUnchanged, quietVars, memVars, versionVars, openVars, diskVars, callVars, queueVars,
      headVars
<1>2. mode = "open" \/ edit' = edit
  <2>1. bgpc # "idle" => mode = "open"
    BY DEF WritePathInv, FilesInv, ClosedInv
  <2> QED
    BY <2>1 DEF BackgroundSkip, CompactMemTable, FlushEdit, FlushFails, InstallFails, RemoveDone,
      BackgroundEnd, StartCompaction, AbandonCompaction, FinishCompaction, BuildTable, WriteManifest, StartClose, vars,
      bgVars
<1>3. pc \in [Threads -> ThreadPcs]
  BY DEF WritePathInv, ThreadInv, ThreadTypes
<1>4. (pc' = pc \/ pc' = Woken(pc)) /\ (bg_error_ => bg_error_')
  BY DEF BackgroundSkip, CompactMemTable, FlushEdit, FlushFails, InstallFails, RemoveDone,
      BackgroundEnd, StartCompaction, AbandonCompaction, FinishCompaction, BuildTable, WriteManifest, StartClose, vars,
      callVars, FlushError, RecordBackgroundError, flagVars
<1>5. \A u \in Threads : pc[u] \in Writing \/ pc'[u] \in Writing => pc'[u] = pc[u]
  BY <1>3, <1>4, WokenWriting
<1>6. ExactInv'
  <2>1. CASE \E l \in BOOLEAN : FlushEdit(l)
    <3>1. bgpc = "built" /\ flushing' = flushing
      BY <2>1 DEF FlushEdit
    <3>2. flushing # NoFile
      BY <3>1 DEF WritePathInv, FilesInv, FilesPart, BackgroundInv
    <3> QED
      BY <1>1, <3>1, <3>2, ExactFrame DEF RefInv
  <2>2. CASE ~(\E l \in BOOLEAN : FlushEdit(l))
    <3>1. \/ UNCHANGED <<flushing, compacting>> /\ (bgpc' = bgpc \/ {bgpc, bgpc'} \subseteq Busy)
          \/ bgpc' \notin Busy
      BY <2>2 DEF BackgroundSkip, CompactMemTable, FlushFails, InstallFails, RemoveDone,
        BackgroundEnd, StartCompaction, AbandonCompaction, FinishCompaction, BuildTable, WriteManifest,
        StartClose, vars, bgVars, AfterFlush, Busy
    <3> QED
      BY <1>1, <3>1, ExactFrame DEF RefInv
  <2> QED
    BY <2>1, <2>2
<1>7. RefInv' /\ OnDiskSynced' = OnDiskSynced /\ Served' = Served /\ OnDisk' = OnDisk
  BY <1>1, <1>2, <1>4, <1>5, <1>6, RefQuiet
<1> QED
  BY <1>1, <1>7, SilentQuiet DEF quietVars

\* The same entries give the same abstract store.
LEMMA SameViews ==
    ASSUME View, View', mode' = mode, write_batch' = write_batch,
           OnDiskSynced' = OnDiskSynced, Served' = Served, OnDisk' = OnDisk
    PROVE  Stored' = Stored /\ Durable' = Durable
<1>1. \A i : i \in Durable' <=> i \in Durable
  BY DEF View
<1>2. \A i : i \in Stored' <=> i \in Stored
  BY DEF View
<1>3. Durable' = Durable
  BY <1>1 DEF Durable
<1>4. Stored' = Stored
  BY <1>2 DEF Stored
<1> QED
  BY <1>3, <1>4

\* Enqueue implements Issue.
LEMMA EnqueueRef ==
    ASSUME RefInv, DataInv, WritePathInv, WritePathInv', View, View', NEW t \in Threads,
           NEW k \in 0..MaxCount, NEW s \in BOOLEAN, Enqueue(t, k, s)
    PROVE  RefInv' /\ AbstractStep
<1> DEFINE c == [count |-> k, sync |-> s, res |-> "pending"]
<1>1. /\ UNCHANGED <<quietVars, edit, tables, imm_, flushing, bgpc, compacting, bg_error_>>
      /\ calls' = Append(calls, c) /\ pc[t] = "idle"
  BY DEF Enqueue, quietVars, memVars, versionVars, bgVars, openVars, diskVars, flagVars
<1>2. pc'[t] \in {"head", "cvwait"} /\ \A u \in Threads \ {t} : pc'[u] = pc[u]
  BY DEF Enqueue, WritePathInv, ThreadInv, ThreadTypes
<1>3. \A u \in Threads : pc[u] \in Writing \/ pc'[u] \in Writing => pc'[u] = pc[u]
  BY <1>1, <1>2 DEF Writing
<1>4. ThreadInv /\ calls \in Seq(CallT)
  BY DEF WritePathInv, ThreadInv, ThreadTypes
<1>5. \A i \in 1..Len(calls) : calls'[i] = calls[i]
  BY <1>1, <1>4
<1>6. ExactInv'
  BY <1>1, ExactFrame DEF RefInv
<1>7. RefInv' /\ OnDiskSynced' = OnDiskSynced /\ Served' = Served /\ OnDisk' = OnDisk
  <2>1. UNCHANGED quietVars /\ edit' = edit /\ bg_error_' = bg_error_
    BY <1>1
  <2> QED
    BY <1>3, <1>5, <1>6, <2>1, RefQuiet
<1>8. Stored' = Stored /\ Durable' = Durable
  BY <1>1, <1>7, SameViews DEF quietVars
<1>9. k \in Nat
  BY WritePathConstants
<1>10. Abstract!Issue
  BY <1>1, <1>4, <1>8, <1>9, IssueStep
<1> QED
  BY <1>7, <1>10 DEF AbstractStep, Abstract!Next

\* An answer without a group implements Fail, or Succeed of the null batch.
LEMMA AnsweringRef ==
    ASSUME RefInv, DataInv, WritePathInv, WritePathInv', View, View', NEW t \in Threads,
           HeadError(t) \/ HeadSwitchFails(t) \/ (HeadProceeds(t) /\ Batch(t).count = 0)
    PROVE  RefInv' /\ AbstractStep
<1>1. /\ UNCHANGED <<call, quietVars, edit>>
      /\ UNCHANGED <<tables, imm_, flushing, bgpc, compacting, bg_error_>> /\ pc[t] = "head"
  BY DEF HeadError, HeadSwitchFails, HeadProceeds, quietVars, memVars, versionVars, bgVars,
      openVars, diskVars, headVars, AtHead, MaySwitch, flagVars
<1>2. PICK r \in {"error", "ok"} :
         AnswerGroup(t, <<t>>, r) /\ (r = "ok" => Batch(t).count = 0)
  BY DEF HeadError, HeadSwitchFails, HeadProceeds
<1>3. pc \in [Threads -> ThreadPcs] /\ ThreadInv /\ calls \in Seq(CallT) /\ Len(calls) \in Nat
  BY DEF WritePathInv, ThreadInv, ThreadTypes
<1>4. pc'[t] \notin Writing /\ \A u \in Threads \ {t} : pc'[u] = pc[u]
  BY <1>3 DEF HeadError, HeadSwitchFails, HeadProceeds, Writing
<1>5. \A u \in Threads : pc[u] \in Writing \/ pc'[u] \in Writing => pc'[u] = pc[u]
  BY <1>1, <1>4 DEF Writing
<1>6. IsFront(<<t>>) /\ writers_ # << >> /\ writers_[1] = t
  BY <1>1, <1>3, FrontAtHead
<1>7. /\ 1 \in 1..Len(writers_) /\ call[t] \in 1..Len(calls) /\ Batch(t).res = "pending"
  <2>1. 1 \in 1..Len(writers_)
    BY <1>6 DEF WritePathInv, ThreadInv, ThreadTypes
  <2> QED
    BY <1>3, <1>6, <2>1, CountType DEF ThreadInv, QueueInv
<1>8. /\ calls' \in Seq(CallT) /\ Len(calls') = Len(calls)
      /\ \A i \in 1..Len(calls) :
           /\ calls'[i].count = calls[i].count /\ calls'[i].sync = calls[i].sync
           /\ i = call[t] => calls'[i].res = r
           /\ i # call[t] => calls'[i] = calls[i]
  <2>1. pc[t] \in Active /\ r \in Results
    BY <1>1 DEF Active, Results
  <2>2. PICK g : g = <<t>>
    OBVIOUS
  <2>3. IsFront(g) /\ AnswerGroup(t, g, r)
    BY <1>2, <1>6, <2>2
  <2>4. /\ calls' \in Seq(CallT) /\ Len(calls') = Len(calls)
        /\ \A i \in 1..Len(calls) :
             /\ calls'[i].count = calls[i].count /\ calls'[i].sync = calls[i].sync
             /\ (\E k \in 1..Len(g) : i = call[writers_[k]]) => calls'[i].res = r
             /\ ~(\E k \in 1..Len(g) : i = call[writers_[k]]) => calls'[i] = calls[i]
    BY <1>3, <2>1, <2>3, AnswerGroupEffect
  <2>5. (\A k \in 1..Len(g) : k = 1) /\ 1 \in 1..Len(g)
    BY <2>2
  <2> QED
    BY <1>6, <2>4, <2>5
<1>9. ExactInv'
  BY <1>1, ExactFrame DEF RefInv
<1>10. \A i \in 1..Len(calls) : calls[i].res = "error" => calls'[i].res = "error"
  BY <1>7, <1>8 DEF Batch
<1>11. RefInv' /\ OnDiskSynced' = OnDiskSynced /\ Served' = Served /\ OnDisk' = OnDisk
  <2>1. UNCHANGED quietVars /\ edit' = edit /\ bg_error_' = bg_error_
    BY <1>1
  <2> QED
    BY <1>5, <1>9, <1>10, <2>1, RefQuiet
<1>12. Stored' = Stored /\ Durable' = Durable
  BY <1>1, <1>11, SameViews DEF quietVars
<1>13. PICK j : j = call[t]
  OBVIOUS
<1>14. /\ {j} \in SUBSET PendingCalls /\ {j} # {}
       /\ DOMAIN calls = 1..Len(calls) /\ DOMAIN calls' = DOMAIN calls
  BY <1>3, <1>7, <1>8, <1>13 DEF PendingCalls, Batch
<1>15. \A i \in DOMAIN calls :
           /\ calls'[i].count = calls[i].count /\ calls'[i].sync = calls[i].sync
           /\ i \in {j} => calls'[i].res = r
           /\ i \notin {j} => calls'[i].res = calls[i].res
  BY <1>8, <1>13, <1>14
<1>16. r = "ok" => calls[j].count = 0 /\ ~calls[j].sync
  BY <1>2, <1>7, <1>13 DEF Batch, DataInv, AnswerInv
<1>17. Abstract!Next
  <2>1. PICK S : S = {j}
    OBVIOUS
  <2>2. S \in SUBSET PendingCalls /\ S # {}
    BY <1>14, <2>1
  <2>3. \A i \in DOMAIN calls :
           /\ calls'[i].count = calls[i].count /\ calls'[i].sync = calls[i].sync
           /\ i \in S => calls'[i].res = r
           /\ i \notin S => calls'[i].res = calls[i].res
    BY <1>15, <2>1
  <2>4. r = "error" => Stored' = Stored
    BY <1>12
  <2>5. r = "ok" => /\ Stored' = Stored \cup {i \in S : calls[i].count # 0}
                    /\ (\E i \in S : calls[i].sync) => {i \in S : calls[i].count # 0} \subseteq Durable
    BY <1>12, <1>16, <2>1
  <2>6. DOMAIN calls' = DOMAIN calls /\ Durable' = Durable
    BY <1>12, <1>14
  <2> QED
    BY <2>2, <2>3, <2>4, <2>5, <2>6, AnswerStep
<1> QED
  BY <1>11, <1>17 DEF AbstractStep

\* What readers see, or, while the DB is not open, what recovery would read.
Visible == IF mode = "open" THEN Served \ write_batch ELSE OnDisk

\* A step that keeps what is visible and the durable part of it, and makes
\* nothing else durable, is Harden or silent.
LEMMA HardenViews ==
    ASSUME View, View', calls' = calls,
           \A e : e \in Visible' <=> e \in Visible,
           \A e \in OnDiskSynced : e \in OnDiskSynced',
           \A e \in OnDiskSynced' : e \in OnDiskSynced \/ e \in Visible \/ e.id \in PendingCalls
    PROVE  AbstractStep
<1>1. \A i : i \in Stored <=> \E e \in Visible : e.id = i
  BY DEF View, Visible
<1>2. \A i : i \in Stored' <=> \E e \in Visible' : e.id = i
  BY DEF View, Visible
<1>3. \A i : i \in Stored' <=> i \in Stored
  BY <1>1, <1>2
<1>4. Stored' = Stored
  BY <1>3 DEF Stored
<1>5. \A i : i \in Durable <=> \E e \in OnDiskSynced : e.id = i
  BY DEF View
<1>6. \A i : i \in Durable' <=> \E e \in OnDiskSynced' : e.id = i
  BY DEF View
<1>7. Durable \subseteq Durable'
  BY <1>5, <1>6
<1>8. Durable' \subseteq Durable \cup Stored \cup PendingCalls
  BY <1>1, <1>5, <1>6
<1>9. Abstract!Harden
  BY <1>4, <1>7, <1>8, HardenStep
<1> QED
  BY <1>9 DEF AbstractStep, Abstract!Next

\* The switch to a new log and memtable is silent.
LEMMA HeadSwitchRef ==
    ASSUME RefInv, DataInv, WritePathInv, WritePathInv', View, View', NEW t \in Threads,
           HeadSwitch(t)
    PROVE  RefInv' /\ AbstractStep
<1>1. PICK n : n = next_file_number_
  OBVIOUS
<1>2. /\ UNCHANGED <<calls, pc, write_batch, status, log_number_, current, bgpc, flushing,
                     compacting, edit, mode, tables, manifest>>
      /\ logs' = Created(logs, n, EmptyLog) /\ logfile_number_' = n /\ ~bg_error_
      /\ imm_' = <<mem_>> /\ mem_' = {} /\ imm_ = None /\ mode = "open" /\ pc[t] = "head"
  BY <1>1 DEF HeadSwitch, MaySwitch, AtHead, callVars, queueVars, versionVars, openVars
<1>3. write_batch = {} /\ \A u \in Threads : pc[u] \notin Writing
  BY <1>2, HeadFacts DEF WritePathInv
<1>4. /\ n \in Nat /\ DOMAIN logs \subseteq Nat /\ n \notin DOMAIN logs
      /\ \A k \in DOMAIN logs : k < n
  BY <1>1, <1>2 DEF WritePathInv, FilesInv, FilesPart, FileTypes, OpenInv
<1>5. /\ DOMAIN logs' = DOMAIN logs \cup {n} /\ LogSet(n)' = {} /\ logs'[n] = EmptyLog
      /\ \A k \in DOMAIN logs : LogSet(k)' = LogSet(k) /\ SyncedSet(k)' = SyncedSet(k)
  BY <1>2, <1>4, NewLogFile DEF DataInv
<1>6. SyncedSet(n)' = {}
  BY <1>5 DEF SyncedSet, EmptyLog
<1>7. Imm' = mem_ /\ Imm = {}
  BY <1>2, ImmNone, ImmSomeNext
<1>8. /\ InTables(manifest.version)' = InTables(manifest.version)
      /\ InTables(current)' = InTables(current)
  BY <1>2 DEF InTables, Files
<1>9. \A e : e \in Served' <=> e \in Served
  BY <1>2, <1>7, <1>8 DEF Served
<1>10. LogSet(logfile_number_) \subseteq mem_
  BY <1>2, <1>3 DEF RefInv, FailedInv
<1>11. FailedInv'
  <2>1. LogSet(logfile_number_)' = {}
    BY <1>2, <1>5
  <2> QED
    BY <2>1 DEF FailedInv
<1>12. OldLogInv'
  <2> SUFFICES ASSUME NEW k \in DOMAIN logs', log_number_' <= k, k < logfile_number_'
               PROVE  LogSet(k)' \subseteq Imm' \cup InTables(manifest.version)'
    BY DEF OldLogInv
  <2>1. k \in DOMAIN logs /\ k \in Nat /\ log_number_ <= k /\ k <= logfile_number_
        /\ logfile_number_ \in Nat
    BY <1>2, <1>4, <1>5 DEF DataInv, LogInv, WritePathInv, FilesInv, FilesPart, FileTypes
  <2>2. CASE k < logfile_number_
    BY <1>2, <1>5, <1>7, <1>8, <2>1, <2>2 DEF RefInv, OldLogInv
  <2>3. CASE k = logfile_number_
    BY <1>5, <1>7, <1>10, <2>1, <2>3
  <2> QED
    BY <2>1, <2>2, <2>3
<1>13. ExactInv'
  BY <1>2, ExactFrame DEF RefInv
<1>14. ServedInv' /\ ReadInv' /\ NewBatchInv'
  BY <1>2, <1>3, <1>8, <1>9 DEF RefInv, ServedInv, ReadInv, NewBatchInv, Writing
<1>15. \A e : e \in OnDiskSynced' <=> e \in OnDiskSynced
  <2>1. manifest' = manifest
    BY <1>2
  <2> QED
    BY <1>5, <1>6, <1>8, <2>1, SyncedIs, SyncedIsNext
<1>16. AbstractStep
  <2>1. \A e : e \in Visible' <=> e \in Visible
    BY <1>2, <1>9 DEF Visible
  <2> QED
    BY <1>2, <1>15, <2>1, HardenViews
<1> QED
  BY <1>11, <1>12, <1>13, <1>14, <1>16 DEF RefInv

\* Building the group is silent.
LEMMA HeadProceedsRef ==
    ASSUME RefInv, DataInv, DataInv', WritePathInv, WritePathInv', View, View',
           NEW t \in Threads, HeadProceeds(t), Batch(t).count # 0
    PROVE  RefInv' /\ AbstractStep
<1>1. /\ UNCHANGED <<calls, status, mem_, imm_, logs, tables, manifest, last_sequence_,
                     logfile_number_, log_number_, current, mode, edit, flushing, bgpc,
                     compacting, bg_error_>>
      /\ mode = "open" /\ pc[t] = "head" /\ ~bg_error_
      /\ pc' = [pc EXCEPT ![t] = "log"]
  BY DEF HeadProceeds, AtHead, memVars, versionVars, bgVars, openVars, diskVars, flagVars
<1>2. write_batch = {} /\ \A u \in Threads : pc[u] \notin Writing
  BY <1>1, HeadFacts DEF WritePathInv
<1>3. \A e \in write_batch' : last_sequence_ < e.seq
  BY <1>1 DEF DataInv, BatchInv
<1>4. /\ \A e \in Entries : e.seq <= last_sequence_ /\ e.seq \in Nat
      /\ last_sequence_ \in Nat
  BY <1>1, <1>2 DEF DataInv, SeqInv, ContentInv, Entry
<1>5. Files(current) \subseteq DOMAIN tables
  BY <1>1 DEF WritePathInv, FilesInv, FilesPart, OpenInv
<1>6. Served \subseteq Entries /\ mem_ \subseteq Entries
  BY <1>5, EntriesIs DEF Served, InTables
<1>7. \A e \in Served : e \notin write_batch'
  BY <1>3, <1>4, <1>6
<1>8. Served' = Served /\ Imm' = Imm /\ \A n : LogSet(n)' = LogSet(n)
  BY <1>1 DEF Served, Imm, InTables, Files, LogSet
<1>9. /\ InTables(manifest.version)' = InTables(manifest.version) /\ OnDiskSynced' = OnDiskSynced
      /\ LogSet(logfile_number_)' = LogSet(logfile_number_)
  BY <1>1 DEF InTables, Files, OnDiskSynced, SyncedSet, LogSet
<1>10. FailedInv'
  BY <1>1, <1>2, <1>9 DEF RefInv, FailedInv
<1>11. OldLogInv' /\ ServedInv' /\ ReadInv'
  BY <1>1, <1>8, <1>9 DEF RefInv, OldLogInv, ServedInv, ReadInv
<1>12. ExactInv'
  BY <1>1, ExactFrame DEF RefInv
<1>13. NewBatchInv'
  <2>1. mem_ \cap write_batch' = {}
    BY <1>3, <1>4, <1>6
  <2> QED
    BY <1>1, <2>1 DEF NewBatchInv
<1>14. AbstractStep
  <2>1. \A e : e \in Visible' <=> e \in Visible
    BY <1>1, <1>2, <1>7, <1>8 DEF Visible
  <2> QED
    BY <1>1, <1>9, <2>1, HardenViews
<1> QED
  BY <1>10, <1>11, <1>12, <1>13, <1>14 DEF RefInv

\* A record added to a log is not synced yet.
LEMMA AppendedRecord ==
    ASSUME NEW n, NEW W \in SUBSET Entry, NEW r \in Seq(SUBSET Entry), r = logs[n].recs,
           logs[n].synced \in Nat, logs[n].synced <= Len(r),
           logs'[n].recs = Append(r, W), logs'[n].synced = logs[n].synced
    PROVE  LogSet(n)' = LogSet(n) \cup W /\ SyncedSet(n)' = SyncedSet(n)
<1>1. /\ Len(Append(r, W)) = Len(r) + 1 /\ Append(r, W)[Len(r) + 1] = W
      /\ \A i \in 1..Len(r) : Append(r, W)[i] = r[i]
      /\ Len(r) \in Nat
  BY AppendProperties
<1>2. LogSet(n)' = LogSet(n) \cup W
  <2>1. \A e : e \in LogSet(n)' <=> \E i \in 1..Len(r) + 1 : e \in Append(r, W)[i]
    BY <1>1 DEF LogSet
  <2>2. \A e : e \in LogSet(n) <=> \E i \in 1..Len(r) : e \in r[i]
    BY DEF LogSet
  <2>3. \A i : i \in 1..Len(r) + 1 <=> i \in 1..Len(r) \/ i = Len(r) + 1
    BY <1>1
  <2> QED
    BY <1>1, <2>1, <2>2, <2>3
<1>3. SyncedSet(n)' = SyncedSet(n)
  <2>1. \A i \in 1..logs[n].synced : i \in 1..Len(r)
    BY <1>1
  <2>2. \A i \in 1..logs[n].synced : logs'[n].recs[i] = logs[n].recs[i]
    BY <1>1, <2>1
  <2>3. \A e : e \in SyncedSet(n)' <=> e \in SyncedSet(n)
    BY <2>2 DEF SyncedSet
  <2> QED
    BY <2>3
<1> QED
  BY <1>2, <1>3

\* Only that log changes.
LEMMA LogAppended ==
    ASSUME DiskInv, NEW n \in DOMAIN logs, NEW W \in SUBSET Entry,
           logs' = [logs EXCEPT ![n] = [logs[n] EXCEPT !.recs = Append(@, W)]]
    PROVE  /\ DOMAIN logs' = DOMAIN logs
           /\ \A k \in DOMAIN logs : SyncedSet(k)' = SyncedSet(k)
           /\ \A k \in DOMAIN logs : k # n => LogSet(k)' = LogSet(k)
           /\ LogSet(n)' = LogSet(n) \cup W
<1>1. logs[n] \in [recs: Seq(SUBSET Entry), synced: Nat] /\ logs[n].synced <= Len(logs[n].recs)
  BY DEF DiskInv
<1>2. PICK r \in Seq(SUBSET Entry) : r = logs[n].recs
  BY <1>1
<1>3. /\ DOMAIN logs' = DOMAIN logs
      /\ \A k \in DOMAIN logs : k # n => logs'[k] = logs[k]
      /\ logs'[n].recs = Append(r, W) /\ logs'[n].synced = logs[n].synced
  <2>1. logs'[n] = [logs[n] EXCEPT !.recs = Append(r, W)]
    BY <1>2
  <2>2. logs'[n].recs = Append(r, W) /\ logs'[n].synced = logs[n].synced
    BY <1>1, <2>1
  <2> QED
    BY <2>2
<1>4. \A k \in DOMAIN logs : k # n => LogSet(k)' = LogSet(k) /\ SyncedSet(k)' = SyncedSet(k)
  BY <1>3 DEF LogSet, SyncedSet
<1>5. LogSet(n)' = LogSet(n) \cup W /\ SyncedSet(n)' = SyncedSet(n)
  BY <1>1, <1>2, <1>3, AppendedRecord
<1> QED
  BY <1>3, <1>4, <1>5

\* AddRecord is silent: the record is neither visible nor durable yet.
LEMMA AddRecordRef ==
    ASSUME RefInv, DataInv, WritePathInv, WritePathInv', View, View', WholeRecords,
           NEW t \in Threads, AddRecord(t)
    PROVE  RefInv' /\ AbstractStep
<1>1. pc[t] = "log" /\ pc[t] \in Writing
  BY DEF AddRecord, Writing
<1>2. /\ mode = "open" /\ logfile_number_ \in DOMAIN logs
      /\ \A u \in Threads : pc[u] \in Active => u = t
      /\ pc \in [Threads -> ThreadPcs]
  BY <1>1, WriterFacts
<1>3. PICK n : n = logfile_number_
  OBVIOUS
<1>4. PICK W : W = write_batch
  OBVIOUS
<1>5. /\ UNCHANGED <<calls, write_batch, status, mem_, imm_, tables, manifest,
                     logfile_number_, log_number_, current, mode, edit, flushing, bgpc,
                     compacting, bg_error_>>
      /\ logs' = [logs EXCEPT ![n] = [logs[n] EXCEPT !.recs = Append(@, W)]]
      /\ pc' = [pc EXCEPT ![t] = IF Batch(t).sync THEN "sync" ELSE "insert"]
  <2>1. ~MayFail("append")
    BY DEF MayFail, WholeRecords
  <2> QED
    BY <1>3, <1>4, <2>1 DEF AddRecord, writeUnchanged, memVars, versionVars, bgVars, openVars, flagVars
<1>6. W \in SUBSET Entry
  BY <1>4, EntriesIs DEF DataInv, ContentInv
<1>7. /\ DOMAIN logs' = DOMAIN logs
      /\ \A k \in DOMAIN logs : SyncedSet(k)' = SyncedSet(k)
      /\ \A k \in DOMAIN logs : k # n => LogSet(k)' = LogSet(k)
      /\ LogSet(n)' = LogSet(n) \cup W
  <2>1. DiskInv /\ n \in DOMAIN logs
    BY <1>2, <1>3 DEF DataInv
  <2> QED
    BY <1>5, <1>6, <2>1, LogAppended
<1> HIDE <1>5
<1>8. /\ UNCHANGED <<calls, write_batch, status, mem_, imm_, tables, manifest,
                     logfile_number_, log_number_, current, mode, edit, flushing, bgpc,
                     compacting, bg_error_>>
      /\ \A u \in Threads \ {t} : pc'[u] = pc[u]
      /\ pc'[t] \in {"sync", "insert"}
  BY <1>2, <1>5
<1>9. /\ InTables(manifest.version)' = InTables(manifest.version) /\ Imm' = Imm
      /\ Served' = Served
  BY <1>8 DEF InTables, Files, Imm, Served
<1>10. FailedInv'
  <2>1. LogSet(logfile_number_) \subseteq mem_ \cup write_batch
    BY <1>1, <1>2 DEF RefInv, FailedInv
  <2>2. LogSet(logfile_number_)' = LogSet(n)'
    BY <1>3, <1>8
  <2>3. LogSet(n)' \subseteq mem_' \cup write_batch'
    BY <1>3, <1>4, <1>7, <1>8, <2>1
  <2> QED
    BY <2>2, <2>3 DEF FailedInv
<1>11. OldLogInv'
  <2> SUFFICES ASSUME NEW k \in DOMAIN logs', log_number_' <= k, k < logfile_number_'
               PROVE  LogSet(k)' \subseteq Imm' \cup InTables(manifest.version)'
    BY DEF OldLogInv
  <2>1. k \in DOMAIN logs /\ log_number_ <= k /\ k < logfile_number_ /\ k # n
    BY <1>3, <1>7, <1>8 DEF WritePathInv, FilesInv, FilesPart, FileTypes
  <2> QED
    BY <1>2, <1>7, <1>9, <2>1 DEF RefInv, OldLogInv
<1>12. ExactInv'
  BY <1>8, ExactFrame DEF RefInv
<1>13. ServedInv' /\ ReadInv'
  BY <1>2, <1>8, <1>9 DEF RefInv, ServedInv, ReadInv
<1>14. NewBatchInv'
  BY <1>1, <1>2, <1>8 DEF RefInv, NewBatchInv, Active
<1>15. \A e : e \in OnDiskSynced' <=> e \in OnDiskSynced
  <2>1. manifest' = manifest
    BY <1>8
  <2> QED
    BY <1>7, <1>9, <2>1, SyncedIs, SyncedIsNext
<1>16. AbstractStep
  <2>1. \A e : e \in Visible' <=> e \in Visible
    BY <1>2, <1>8, <1>9 DEF Visible
  <2> QED
    BY <1>8, <1>15, <2>1, HardenViews
<1> QED
  BY <1>10, <1>11, <1>12, <1>13, <1>14, <1>16 DEF RefInv

\* A sync implements Harden: the group's batch and what precedes it in the log.
LEMMA SyncLogRef ==
    ASSUME RefInv, DataInv, WritePathInv, WritePathInv', View, View', NEW t \in Threads,
           SyncLog(t)
    PROVE  RefInv' /\ AbstractStep
<1>1. pc[t] = "sync" /\ pc[t] \in Writing
  BY DEF SyncLog, Writing
<1>2. /\ mode = "open" /\ logfile_number_ \in DOMAIN logs /\ ThreadInv
      /\ \A u \in Threads : pc[u] \in Active => u = t
      /\ pc \in [Threads -> ThreadPcs]
  BY <1>1, WriterFacts
<1>3. PICK n : n = logfile_number_
  OBVIOUS
<1>4. UNCHANGED <<calls, write_batch, mem_, imm_, tables, manifest,
                     logfile_number_, log_number_, current, mode, edit, flushing, bgpc,
                     compacting, bg_error_>>
  BY DEF SyncLog, writeUnchanged, memVars, versionVars, bgVars, openVars, flagVars
<1>5. /\ logs[n] \in [recs: Seq(SUBSET Entry), synced: Nat] /\ logs[n].synced <= Len(logs[n].recs)
      /\ Len(logs[n].recs) \in Nat
  BY <1>2, <1>3 DEF DataInv, DiskInv
<1>6. /\ DOMAIN logs' = DOMAIN logs
      /\ \A k \in DOMAIN logs : k # n => logs'[k] = logs[k]
      /\ logs'[n].recs = logs[n].recs
      /\ logs'[n].synced \in {logs[n].synced, Len(logs[n].recs)}
      /\ pc' = [pc EXCEPT ![t] = "insert"] \/ pc' = [pc EXCEPT ![t] = "finish"]
  <2>1. CASE /\ logs' = [logs EXCEPT ![logfile_number_].synced = Len(logs[logfile_number_].recs)]
             /\ pc' = [pc EXCEPT ![t] = "insert"]
    <3>1. logs'[n] = [logs[n] EXCEPT !.synced = Len(logs[n].recs)]
      BY <1>2, <1>3, <2>1
    <3>2. logs'[n].recs = logs[n].recs /\ logs'[n].synced = Len(logs[n].recs)
      BY <1>5, <3>1
    <3>3. /\ DOMAIN logs' = DOMAIN logs
          /\ \A k \in DOMAIN logs : k # n => logs'[k] = logs[k]
      BY <1>3, <2>1
    <3> QED
      BY <2>1, <3>2, <3>3
  <2>2. CASE pc' = [pc EXCEPT ![t] = "finish"] /\ UNCHANGED logs
    BY <2>2
  <2> QED
    BY <2>1, <2>2 DEF SyncLog
<1>7. \A k \in DOMAIN logs : LogSet(k)' = LogSet(k)
  BY <1>6 DEF LogSet
<1>8. \A k \in DOMAIN logs : k # n => SyncedSet(k)' = SyncedSet(k)
  BY <1>6 DEF SyncedSet
<1>9. SyncedSet(n) \subseteq SyncedSet(n)' /\ SyncedSet(n)' \subseteq LogSet(n)
  <2>1. 1..logs[n].synced \subseteq 1..logs'[n].synced /\ 1..logs'[n].synced \subseteq 1..Len(logs[n].recs)
    BY <1>5, <1>6
  <2> QED
    BY <1>6, <2>1 DEF SyncedSet, LogSet
<1>10. /\ InTables(manifest.version)' = InTables(manifest.version) /\ Imm' = Imm
       /\ Served' = Served
  BY <1>4 DEF InTables, Files, Imm, Served
<1>11. LogSet(n) \subseteq mem_ \cup write_batch
  BY <1>1, <1>2, <1>3 DEF RefInv, FailedInv
<1>12. FailedInv'
  <2>1. LogSet(logfile_number_)' = LogSet(n)'
    BY <1>3, <1>4
  <2> QED
    BY <1>2, <1>3, <1>4, <1>7, <1>11, <2>1 DEF FailedInv
<1>13. OldLogInv'
  BY <1>2, <1>4, <1>6, <1>7, <1>10 DEF RefInv, OldLogInv
<1>14. ExactInv'
  BY <1>4, ExactFrame DEF RefInv
<1>15. ServedInv' /\ ReadInv'
  BY <1>2, <1>4, <1>10 DEF RefInv, ServedInv, ReadInv
<1>16. NewBatchInv'
  <2>1. write_batch' \cap mem_' = {}
    BY <1>1, <1>4 DEF RefInv, NewBatchInv
  <2> QED
    BY <2>1 DEF NewBatchInv
<1>17. \A e \in OnDiskSynced : e \in OnDiskSynced'
  <2>1. manifest' = manifest /\ \A k \in DOMAIN logs : SyncedSet(k) \subseteq SyncedSet(k)'
    BY <1>4, <1>8, <1>9
  <2> QED
    BY <1>6, <1>10, <2>1, SyncedIs, SyncedIsNext
<1>18. \A e \in OnDiskSynced' : e \in OnDiskSynced \/ e \in LogSet(n)
  <2>1. manifest' = manifest
    BY <1>4
  <2> QED
    BY <1>6, <1>8, <1>9, <1>10, <2>1, SyncedIs, SyncedIsNext
<1>19. ASSUME NEW e \in write_batch PROVE e.id \in PendingCalls
  <2>1. PICK i \in 1..Len(group) : e.id = call[group[i]]
    BY DEF DataInv, BatchInv
  <2>2. call[group[i]] \in 1..Len(calls) /\ Batch(group[i]).res = "pending"
    BY <1>2, <2>1, GroupCalls
  <2> QED
    BY <2>1, <2>2 DEF PendingCalls, Batch, View
<1>20. AbstractStep
  <2>1. \A e : e \in Visible' <=> e \in Visible
    BY <1>2, <1>4, <1>10 DEF Visible
  <2>2. \A e \in mem_ : e \in write_batch \/ e \in Visible
    BY <1>2 DEF Visible, Served
  <2>3. \A e \in OnDiskSynced' : e \in OnDiskSynced \/ e \in Visible \/ e.id \in PendingCalls
    BY <1>11, <1>18, <1>19, <2>2
  <2> QED
    BY <1>4, <1>17, <2>1, <2>3, HardenViews
<1> QED
  BY <1>12, <1>13, <1>14, <1>15, <1>16, <1>20 DEF RefInv

\* InsertInto is silent: the sequence numbers hide the batch until the end.
LEMMA InsertIntoRef ==
    ASSUME RefInv, DataInv, DataInv', WritePathInv, WritePathInv', View, View', NEW t \in Threads,
           InsertInto(t)
    PROVE  RefInv' /\ AbstractStep
<1>1. pc[t] = "insert" /\ pc[t] \in Writing
  BY DEF InsertInto, Writing
<1>2. /\ mode = "open" /\ logfile_number_ \in DOMAIN logs
      /\ \A u \in Threads : pc[u] \in Active => u = t
      /\ pc \in [Threads -> ThreadPcs]
  BY <1>1, WriterFacts
<1>3. PICK e \in write_batch \ mem_ : mem_' = mem_ \cup {e}
  <2> DEFINE R == write_batch \ mem_
             S == {x.seq : x \in R}
             e == CHOOSE x \in R : \A y \in R : x.seq <= y.seq
  <2>1. S \in SUBSET Nat /\ S # {}
    <3>1. write_batch \subseteq Entry
      BY EntriesIs DEF DataInv, ContentInv
    <3>2. ~(write_batch \subseteq mem_)
      BY <1>1 DEF DataInv, BatchInv
    <3> QED
      BY <3>1, <3>2 DEF Entry
  <2>2. PICK m \in S : \A k \in S : m <= k
    BY <2>1, LeastElement
  <2>3. \E x \in R : \A y \in R : x.seq <= y.seq
    BY <2>2
  <2>4. e \in R
    BY <2>3
  <2>5. mem_' = mem_ \cup {e}
    BY DEF InsertInto
  <2> QED
    BY <2>4, <2>5
<1>4. /\ UNCHANGED <<calls, write_batch, status, imm_, logs, tables, manifest,
                     logfile_number_, log_number_, current, mode, edit, flushing, bgpc,
                     compacting>>
      /\ status = "ok"
      /\ pc' = IF write_batch \subseteq mem_' THEN [pc EXCEPT ![t] = "finish"] ELSE pc
  BY <1>1 DEF InsertInto, headVars, versionVars, bgVars, openVars, diskVars, InsertedAll,
      DataInv, BatchInv
<1>5. /\ InTables(manifest.version)' = InTables(manifest.version) /\ Imm' = Imm
      /\ InTables(current)' = InTables(current) /\ OnDiskSynced' = OnDiskSynced
      /\ LogSet(logfile_number_)' = LogSet(logfile_number_)
      /\ \A k : LogSet(k)' = LogSet(k)
  BY <1>4 DEF InTables, Files, Imm, OnDiskSynced, SyncedSet, LogSet
<1>6. \A x : x \in Served' <=> x \in Served \/ x = e
  BY <1>3, <1>5 DEF Served
<1>7. FailedInv'
  <2>1. LogSet(logfile_number_) \subseteq mem_ \cup write_batch
    BY <1>1, <1>2 DEF RefInv, FailedInv
  <2> QED
    BY <1>3, <1>4, <1>5, <2>1 DEF FailedInv
<1>8. OldLogInv'
  BY <1>4, <1>5 DEF RefInv, OldLogInv
<1>9. ExactInv'
  BY <1>4, ExactFrame DEF RefInv
<1>10. ServedInv' /\ ReadInv'
  BY <1>2, <1>4, <1>5, <1>6 DEF RefInv, ServedInv, ReadInv
<1>11. NewBatchInv'
  <2>1. \A u \in Threads : pc'[u] \notin {"log", "sync"}
    BY <1>1, <1>2, <1>4 DEF Active
  <2> QED
    BY <1>4, <2>1 DEF NewBatchInv
<1>12. AbstractStep
  <2>1. \A x : x \in Visible' <=> x \in Visible
    BY <1>2, <1>3, <1>4, <1>6 DEF Visible
  <2> QED
    BY <1>4, <1>5, <2>1, HardenViews
<1> QED
  BY <1>7, <1>8, <1>9, <1>10, <1>11, <1>12 DEF RefInv

\* The end of Write() implements Succeed of the group, or Fail if its sync failed.
LEMMA FinishWriteRef ==
    ASSUME RefInv, DataInv, WritePathInv, WritePathInv', View, View', NEW t \in Threads,
           FinishWrite(t)
    PROVE  RefInv' /\ AbstractStep
<1>1. pc[t] = "finish" /\ pc[t] \in Writing
  BY DEF FinishWrite, Writing
<1>2. /\ ThreadInv /\ mode = "open" /\ logfile_number_ \in DOMAIN logs
      /\ \A u \in Threads : pc[u] \in Active => u = t
      /\ IsFront(group) /\ Len(group) \in Nat /\ 1 \in 1..Len(group) /\ group[1] = t
      /\ pc \in [Threads -> ThreadPcs] /\ pc[t] \in Active
  BY <1>1, WriterFacts
<1>3. PICK m : m = Len(group)
  OBVIOUS
<1>4. PICK W : W = write_batch
  OBVIOUS
<1>5. PICK res \in {"ok", "error"} : res = IF status = "ok" THEN "ok" ELSE "error"
  OBVIOUS
<1>6. PICK g : g = group
  OBVIOUS
<1>7. /\ UNCHANGED <<call, mem_, imm_, logs, tables, manifest, logfile_number_, log_number_,
                     current, mode, edit, flushing, bgpc, compacting>>
      /\ write_batch' = {} /\ status' = "ok"
      /\ AnswerGroup(t, g, res)
      /\ status = "sync_error" => bg_error_'
  BY <1>5, <1>6 DEF FinishWrite, versionVars, bgVars, openVars, diskVars, RecordBackgroundError
<1>8. \A u \in Threads : pc'[u] \notin Writing
  <2>1. \A u \in Threads \ {t} : pc[u] \notin Active
    BY <1>2
  <2>2. pc' = [pc EXCEPT ![t] = "idle"] \/ pc' = Woken([pc EXCEPT ![t] = "idle"])
    BY DEF FinishWrite, RecordBackgroundError
  <2> QED
    BY <1>2, <2>1, <2>2 DEF Woken, Writing, Active
<1>9. /\ Len(calls') = Len(calls) /\ calls' \in Seq(CallT)
      /\ \A i \in 1..Len(calls) :
            /\ calls'[i].count = calls[i].count /\ calls'[i].sync = calls[i].sync
            /\ (\E k \in 1..m : i = call[writers_[k]]) => calls'[i].res = res
            /\ ~(\E k \in 1..m : i = call[writers_[k]]) => calls'[i] = calls[i]
  <2>1. IsFront(g) /\ m = Len(g) /\ res \in Results
    BY <1>2, <1>3, <1>6 DEF Results
  <2>2. ThreadInv /\ pc[t] \in Active /\ AnswerGroup(t, g, res)
    BY <1>2, <1>7
  <2>3. /\ Len(calls') = Len(calls) /\ calls' \in Seq(CallT)
        /\ \A i \in 1..Len(calls) :
            /\ calls'[i].count = calls[i].count /\ calls'[i].sync = calls[i].sync
            /\ (\E k \in 1..Len(g) : i = call[writers_[k]]) => calls'[i].res = res
            /\ ~(\E k \in 1..Len(g) : i = call[writers_[k]]) => calls'[i] = calls[i]
    BY <2>1, <2>2, AnswerGroupEffect, SMTT(30)
  <2> QED
    BY <2>1, <2>3
<1>10. /\ Len(calls) \in Nat /\ DOMAIN calls = 1..Len(calls) /\ DOMAIN calls' = DOMAIN calls
       /\ m \in Nat /\ 1 \in 1..m
       /\ \A i \in 1..m : group[i] = writers_[i] /\ call[writers_[i]] \in 1..Len(calls)
                          /\ calls[call[writers_[i]]].res = "pending"
  <2>1. \A i \in 1..m : group[i] = writers_[i] /\ call[writers_[i]] \in 1..Len(calls)
                        /\ calls[call[writers_[i]]].res = "pending"
    BY <1>2, <1>3, GroupCalls DEF Batch
  <2>2. calls \in Seq(CallT)
    BY <1>2 DEF ThreadInv, ThreadTypes
  <2> QED
    BY <1>2, <1>3, <1>9, <2>1, <2>2
<1>11. status \in {"ok", "sync_error"} /\ BatchInv
  BY DEF DataInv, BatchInv
<1>12. /\ \A e \in W : \E i \in 1..m : e.id = call[writers_[i]]
       /\ \A i \in 1..m :
            /\ calls[call[writers_[i]]].count # 0 => \E e \in W : e.id = call[writers_[i]]
            /\ calls[call[writers_[i]]].sync => calls[call[group[1]]].sync
  BY <1>3, <1>4, <1>10, <1>11 DEF BatchInv, Batch
<1>13. /\ status = "ok" => W \subseteq mem_
       /\ Len(logs[logfile_number_].recs) > 0 /\ LastRecord = W
       /\ status = "ok" /\ calls[call[group[1]]].sync =>
            logs[logfile_number_].synced = Len(logs[logfile_number_].recs)
  BY <1>1, <1>4, <1>11 DEF BatchInv, Batch
<1> HIDE <1>7
<1>14. /\ UNCHANGED <<call, mem_, imm_, logs, tables, manifest, logfile_number_, log_number_,
                     current, mode, edit, flushing, bgpc, compacting>>
       /\ write_batch' = {} /\ (status = "sync_error" => bg_error_')
  BY <1>7
<1>15. /\ \A n : LogSet(n)' = LogSet(n)
       /\ LogSet(logfile_number_)' = LogSet(logfile_number_)
       /\ InTables(manifest.version)' = InTables(manifest.version)
       /\ OnDiskSynced' = OnDiskSynced /\ Served' = Served /\ Imm' = Imm
  BY <1>14 DEF InTables, Files, Imm, Served, OnDiskSynced, SyncedSet, LogSet
<1>16. LogSet(logfile_number_) \subseteq mem_ \cup W
  BY <1>1, <1>2, <1>4 DEF RefInv, FailedInv
<1>17. FailedInv'
  <2>1. CASE status = "ok"
    BY <1>13, <1>14, <1>15, <1>16, <2>1 DEF FailedInv
  <2>2. CASE status = "sync_error"
    <3>1. res = "error"
      BY <1>5, <2>2
    <3>2. \A e \in W : calls'[e.id].res = "error"
      BY <1>9, <1>10, <1>12, <3>1
    <3> QED
      BY <1>8, <1>14, <1>15, <1>16, <2>2, <3>2 DEF FailedInv
  <2> QED
    BY <1>11, <2>1, <2>2
<1>18. OldLogInv' /\ ServedInv' /\ ReadInv'
  BY <1>2, <1>14, <1>15 DEF RefInv, OldLogInv, ServedInv, ReadInv
<1>19. ExactInv'
  BY <1>14, ExactFrame DEF RefInv
<1>20. NewBatchInv'
  BY <1>8 DEF NewBatchInv, Writing
<1>21. PICK S : S = {call[writers_[k]] : k \in 1..m}
  OBVIOUS
<1>22. S \in SUBSET PendingCalls /\ S # {}
  BY <1>10, <1>21 DEF PendingCalls
<1>23. \A i \in DOMAIN calls :
           /\ calls'[i].count = calls[i].count /\ calls'[i].sync = calls[i].sync
           /\ i \in S => calls'[i].res = res
           /\ i \notin S => calls'[i].res = calls[i].res
  BY <1>9, <1>10, <1>21
<1>24. Durable' = Durable
  <2>1. \A i : i \in Durable' <=> i \in Durable
    BY <1>15 DEF View
  <2> QED
    BY <2>1 DEF Durable
<1>25. /\ \A i : i \in Stored <=> \E e \in Served : e \notin W /\ e.id = i
       /\ \A i : i \in Stored' <=> \E e \in Served : e.id = i
  BY <1>2, <1>4, <1>14, <1>15 DEF View
<1>26. res = "error" => Stored' = Stored
  <2> SUFFICES ASSUME res = "error" PROVE Stored' = Stored
    OBVIOUS
  <2>1. status # "ok"
    BY <1>5
  <2>2. W \cap mem_ = {}
    BY <1>1, <1>4, <2>1 DEF RefInv, NewBatchInv
  <2>3. Files(current) \subseteq DOMAIN tables
    BY <1>2 DEF WritePathInv, FilesInv, FilesPart, OpenInv
  <2>4. \A e \in Imm \cup InTables(current) : e.seq <= last_sequence_ /\ e \in Entries
    BY <1>2, <2>3, EntriesIs DEF DataInv, SeqInv, InTables, TableSet
  <2>5. \A e \in Imm \cup InTables(current) : e \notin W
    BY <1>4, <2>4 DEF DataInv, BatchInv, ContentInv, SeqInv, Entry
  <2>6. \A e \in Served : e \notin W
    BY <2>2, <2>5 DEF Served
  <2>7. \A i : i \in Stored' <=> i \in Stored
    BY <1>25, <2>6
  <2> QED
    BY <2>7 DEF Stored
<1>27. ASSUME NEW i \in S, calls[i].count # 0 PROVE \E e \in W : e.id = i
  BY <1>12, <1>21, <1>27
<1>28. ASSUME NEW e \in W PROVE e.id \in S /\ calls[e.id].count # 0
  <2>1. e \in Entries
    BY <1>4, EntriesIs
  <2> QED
    BY <1>12, <1>21, <2>1 DEF DataInv, ContentInv, CountIn
<1>29. ASSUME res = "ok" PROVE Stored' = Stored \cup {i \in S : calls[i].count # 0}
  <2>1. W \subseteq Served
    BY <1>5, <1>13, <1>29 DEF Served
  <2>2. \A i : i \in Stored' <=> i \in Stored \/ \E e \in W : e.id = i
    BY <1>25, <2>1
  <2>3. \A i : i \in Stored' <=> i \in Stored \/ (i \in S /\ calls[i].count # 0)
    BY <1>27, <1>28, <2>2
  <2> QED
    BY <2>3
<1>30. ASSUME res = "ok", \E i \in S : calls[i].sync
       PROVE  {i \in S : calls[i].count # 0} \subseteq Durable
  <2>1. logs[logfile_number_].synced = Len(logs[logfile_number_].recs)
    BY <1>5, <1>12, <1>13, <1>21, <1>30
  <2>2. Len(logs[logfile_number_].recs) \in Nat
    BY <1>2 DEF DataInv, DiskInv
  <2>3. W \subseteq SyncedSet(logfile_number_)
    BY <1>13, <2>1, <2>2 DEF SyncedSet, LastRecord
  <2>4. logfile_number_ >= manifest.log_number
    BY <1>2 DEF WritePathInv, FilesInv, FilesPart, FileTypes, OpenInv
  <2>5. W \subseteq OnDiskSynced
    BY <1>2, <2>3, <2>4, SyncedIs
  <2> QED
    BY <1>27, <2>5 DEF View
<1>31. res = "ok" => /\ Stored' = Stored \cup {i \in S : calls[i].count # 0}
                     /\ (\E i \in S : calls[i].sync) => {i \in S : calls[i].count # 0} \subseteq Durable
  BY <1>29, <1>30
<1>32. Abstract!Next
  BY <1>10, <1>22, <1>23, <1>24, <1>26, <1>31, AnswerStep
<1> QED
  BY <1>17, <1>18, <1>19, <1>20, <1>32 DEF RefInv, AbstractStep

\* Steps of the background thread keep what RefInv says of the writers.
LEMMA BackgroundRef ==
    ASSUME RefInv, mode = "open", UNCHANGED backgroundVars, bg_error_' = bg_error_,
           logfile_number_ \in DOMAIN logs',
           \A n \in DOMAIN logs' : logs'[n] = logs[n]
    PROVE  FailedInv' /\ ReadInv' /\ NewBatchInv'
<1> USE DEF backgroundVars
<1>1. LogSet(logfile_number_)' = LogSet(logfile_number_)
  BY DEF LogSet
<1>2. CASE LogSet(logfile_number_) \subseteq mem_ \cup write_batch
  BY <1>1, <1>2 DEF RefInv, FailedInv, ReadInv, NewBatchInv
<1>3. CASE /\ bg_error_ /\ \A t \in Threads : pc[t] \notin Writing
           /\ \A e \in LogSet(logfile_number_) : e \in mem_ \/ calls[e.id].res = "error"
  BY <1>1, <1>3 DEF RefInv, FailedInv, ReadInv, NewBatchInv
<1> QED
  BY <1>2, <1>3 DEF RefInv, FailedInv

\* Writing a table no version names is silent.
LEMMA TableRef ==
    ASSUME WholeRecords, RefInv, WritePathInv, View, View', mode = "open", UNCHANGED backgroundVars,
           UNCHANGED <<logs, imm_, manifest, current, log_number_, bg_error_>>, NEW n,
           \A k \in DOMAIN tables : k # n => tables'[k] = tables[k],
           n \notin Files(current) \cup Files(manifest.version), ExactInv'
    PROVE  RefInv' /\ AbstractStep
<1>1. /\ logfile_number_ \in DOMAIN logs
      /\ Files(current) \subseteq DOMAIN tables /\ Files(manifest.version) \subseteq DOMAIN tables
  BY ManifestTables DEF WritePathInv, FilesInv, FilesPart, OpenInv
<1>2. /\ InTables(current)' = InTables(current)
      /\ InTables(manifest.version)' = InTables(manifest.version)
  BY <1>1 DEF InTables, Files
<1>3. Imm' = Imm /\ \A k : LogSet(k)' = LogSet(k)
  BY DEF Imm, LogSet
<1>4. Served' = Served
  BY <1>2, <1>3 DEF Served, backgroundVars
<1>5. OnDiskSynced' = OnDiskSynced
  BY <1>2 DEF OnDiskSynced, SyncedSet
<1>6. FailedInv' /\ ReadInv' /\ NewBatchInv'
  BY <1>1, BackgroundRef
<1>7. OldLogInv' /\ ServedInv'
  BY <1>2, <1>3, <1>4 DEF RefInv, OldLogInv, ServedInv, backgroundVars
<1>8. AbstractStep
  <2>1. \A e : e \in Visible' <=> e \in Visible
    BY <1>4 DEF Visible, backgroundVars
  <2> QED
    BY <1>5, <2>1, HardenViews DEF backgroundVars
<1> QED
  BY <1>6, <1>7, <1>8 DEF RefInv

\* Building the table of imm_ is silent.
LEMMA BuildTableRef ==
    ASSUME WholeRecords, RefInv, DataInv, WritePathInv, WritePathInv', View, View', BuildTable
    PROVE  RefInv' /\ AbstractStep
<1>1. CASE bgpc' = "buildfailed"
  BY <1>1, BackgroundQuietRef
<1>2. CASE bgpc' # "buildfailed" /\ imm_[1] # {}
  <2>1. PICK n : n = flushing
    OBVIOUS
  <2>2. /\ UNCHANGED backgroundVars
        /\ UNCHANGED <<logs, imm_, manifest, current, log_number_, bg_error_>>
        /\ tables' = Created(tables, n, imm_[1]) /\ bgpc = "build" /\ bgpc' = "built"
    BY <1>2, <2>1 DEF BuildTable, bgUnchanged, backgroundVars, queueVars, headVars, openVars, versionVars
  <2>3. mode = "open" /\ n \notin Files(current) \cup Files(manifest.version)
    BY <2>1, <2>2 DEF WritePathInv, FilesInv, FilesPart, ClosedInv, BackgroundInv, FileTypes
  <2>4. \A k \in DOMAIN tables : k # n => tables'[k] = tables[k]
    BY <2>2 DEF Created
  <2>5. ExactInv'
    BY <2>2 DEF ExactInv, Busy
  <2> QED
    BY <2>2, <2>3, <2>4, <2>5, TableRef
<1>3. CASE bgpc' # "buildfailed" /\ imm_[1] = {}
  <2>1. PICK n : n \notin Files(current) \cup Files(manifest.version)
    BY NoSetContainsEverything
  <2>2. /\ UNCHANGED backgroundVars
        /\ UNCHANGED <<logs, imm_, manifest, current, log_number_, bg_error_, tables>>
        /\ bgpc = "build" /\ bgpc' = "built"
    BY <1>3 DEF BuildTable, bgUnchanged, backgroundVars, queueVars, headVars, openVars, versionVars
  <2>3. mode = "open"
    BY <2>2 DEF WritePathInv, FilesInv, ClosedInv
  <2>4. ExactInv'
    BY <2>2 DEF ExactInv, Busy
  <2> QED
    BY <2>1, <2>2, <2>3, <2>4, TableRef
<1> QED
  BY <1>1, <1>2, <1>3

\* Opening the output of a compaction is silent.
LEMMA OpenCompactionOutputFileRef ==
    ASSUME WholeRecords, RefInv, DataInv, WritePathInv, WritePathInv', View, View', OpenCompactionOutputFile
    PROVE  RefInv' /\ AbstractStep
<1>1. PICK n : n = next_file_number_
  OBVIOUS
<1>2. /\ UNCHANGED backgroundVars
      /\ UNCHANGED <<logs, imm_, manifest, current, log_number_, bg_error_>>
      /\ tables' = Created(tables, n, {}) /\ bgpc = "cinput" /\ bgpc' = "cbuild"
  BY <1>1 DEF OpenCompactionOutputFile, bgUnchanged, backgroundVars, queueVars, headVars, openVars, versionVars
<1>3. mode = "open"
  BY <1>2 DEF WritePathInv, FilesInv, ClosedInv
<1>4. /\ n \in Nat /\ DOMAIN tables \subseteq Nat /\ \A k \in DOMAIN tables : k < n
      /\ Files(current) \cup Files(manifest.version) \subseteq DOMAIN tables
  BY <1>1, <1>3, ManifestTables DEF WritePathInv, FilesInv, FilesPart, FileTypes, OpenInv
<1>5. n \notin Files(current) \cup Files(manifest.version)
  BY <1>4
<1>6. \A k \in DOMAIN tables : k # n => tables'[k] = tables[k]
  BY <1>2 DEF Created
<1>7. ExactInv'
  BY <1>2 DEF ExactInv, Busy
<1> QED
  BY <1>2, <1>3, <1>5, <1>6, <1>7, TableRef

\* Writing the output of a compaction is silent.
LEMMA FinishCompactionRef ==
    ASSUME WholeRecords, RefInv, DataInv, WritePathInv, WritePathInv', View, View', FinishCompaction
    PROVE  RefInv' /\ AbstractStep
<1>1. CASE bgpc' = "end"
  BY <1>1, BackgroundQuietRef
<1>2. CASE bgpc' # "end"
  <2>1. PICK n : n = Out
    OBVIOUS
  <2>2. /\ UNCHANGED backgroundVars
        /\ UNCHANGED <<logs, imm_, manifest, current, log_number_, bg_error_>>
        /\ tables' = [k \in DOMAIN tables |-> IF k = n THEN TableSet(Inputs) ELSE tables[k]]
        /\ bgpc = "cbuild" /\ UNCHANGED <<flushing, compacting>>
    BY <1>2, <2>1 DEF FinishCompaction, bgUnchanged, backgroundVars, queueVars, headVars, openVars,
        versionVars, TableSet, Inputs, Out
  <2>3. mode = "open" /\ OutOpen
    BY <2>2 DEF WritePathInv, FilesInv, FilesPart, ClosedInv, BackgroundInv, OutOpen
  <2>4. /\ n \in DOMAIN tables /\ n \notin Files(current) \cup Files(manifest.version)
        /\ Inputs \subseteq Files(current) /\ Files(current) \subseteq DOMAIN tables
    BY <2>1, <2>2, <2>3 DEF WritePathInv, FilesInv, FilesPart, BackgroundInv, OutOpen, OpenInv
  <2>5. /\ tables'[n] = TableSet(Inputs)
        /\ \A k \in DOMAIN tables : k # n => tables'[k] = tables[k]
    BY <2>2, <2>4
  <2>6. ExactInv'
    <3>1. Out' = n /\ Inputs' = Inputs
      BY <2>1, <2>2 DEF Out, Inputs
    <3>2. \A k \in Inputs : tables'[k] = tables[k]
      BY <2>4, <2>5
    <3>3. TableSet(Inputs)' = TableSet(Inputs)
      BY <3>1, <3>2 DEF TableSet
    <3> QED
      BY <2>5, <3>1, <3>3 DEF ExactInv
  <2> QED
    BY <2>2, <2>3, <2>4, <2>5, <2>6, TableRef
<1> QED
  BY <1>1, <1>2

\* A compaction adds no entry to a version that the current one does not hold.
LEMMA CompactedTables ==
    ASSUME RefInv, DataInv, WritePathInv, bgpc \in Busy, flushing = NoFile, NEW v \in Version
    PROVE  InTables(Apply(v, edit)) \subseteq InTables(v) \cup InTables(current)
<1>1. /\ edit \in EditT /\ edit.add = {Out} /\ compacting # None /\ Inputs \subseteq Files(current)
  BY DEF WritePathInv, FilesInv, FilesPart, FileTypes, BackgroundInv, OutOpen
<1>2. Files(Apply(v, edit)) = (Files(v) \ edit.del) \cup edit.add
  BY <1>1, ApplyType
<1>3. tables[Out] = TableSet(Inputs)
  BY DEF RefInv, ExactInv
<1>4. tables[Out] \subseteq InTables(current)
  BY <1>1, <1>3 DEF TableSet, InTables
<1> QED
  BY <1>1, <1>2, <1>4 DEF InTables

\* Installing a version is silent: imm_ and its table change places.
LEMMA InstallRef ==
    ASSUME RefInv, DataInv, WritePathInv, WritePathInv', View, View', Install
    PROVE  RefInv' /\ AbstractStep
<1>1. /\ UNCHANGED backgroundVars /\ UNCHANGED <<logs, tables, manifest, bg_error_>>
      /\ bgpc = "install" /\ bgpc' = "remove" /\ current' = Apply(current, edit)
      /\ log_number_' = edit.log_number
      /\ flushing # NoFile => imm_' = None
      /\ flushing = NoFile => imm_' = imm_
  BY DEF Install, bgUnchanged, backgroundVars, queueVars, headVars, openVars
<1>2. PICK v \in Version : v = current
  BY DEF WritePathInv, FilesInv, FilesPart, FileTypes
<1>3. mode = "open" /\ bgpc \in Busy
  BY <1>1 DEF WritePathInv, FilesInv, ClosedInv, Busy
<1>4. /\ Files(v) \subseteq DOMAIN tables /\ logfile_number_ \in DOMAIN logs
      /\ log_number_ \in Nat /\ logfile_number_ \in Nat /\ DOMAIN logs \subseteq Nat
      /\ \/ flushing # NoFile /\ edit.log_number = logfile_number_
         \/ flushing = NoFile /\ edit.log_number = log_number_
  BY <1>2, <1>3 DEF WritePathInv, FilesInv, FilesPart, FileTypes, OpenInv, BackgroundInv
<1>5. /\ InTables(v) \subseteq InTables(Apply(v, edit))
      /\ flushing # NoFile => InTables(Apply(v, edit)) = InTables(v) \cup Imm
  BY <1>3, <1>4, EditKeepsTables
<1>6. InTables(current)' = InTables(Apply(v, edit)) /\ InTables(current) = InTables(v)
  BY <1>1, <1>2 DEF InTables
<1>7. flushing = NoFile => InTables(Apply(v, edit)) \subseteq InTables(v)
  BY <1>3, <1>6, CompactedTables
<1>8. /\ flushing # NoFile => Imm' = {}
      /\ flushing = NoFile => Imm' = Imm
  BY <1>1, ImmNoneNext DEF Imm
<1>9. /\ \A n : LogSet(n)' = LogSet(n)
      /\ InTables(manifest.version)' = InTables(manifest.version) /\ OnDiskSynced' = OnDiskSynced
  BY <1>1, SameDisk
<1>10. \A e : e \in Served' <=> e \in Served
  BY <1>1, <1>5, <1>6, <1>7, <1>8 DEF Served, backgroundVars
<1>11. FailedInv' /\ ReadInv' /\ NewBatchInv'
  BY <1>1, <1>3, <1>4, BackgroundRef
<1>12. OldLogInv'
  <2>1. CASE flushing # NoFile
    <3>1. \A n \in DOMAIN logs : ~(log_number_' <= n /\ n < logfile_number_)
      BY <1>1, <1>4, <2>1
    <3> QED
      BY <1>1, <3>1 DEF OldLogInv, backgroundVars
  <2>2. CASE flushing = NoFile
    BY <1>1, <1>4, <1>8, <1>9, <2>2 DEF RefInv, OldLogInv, backgroundVars
  <2> QED
    BY <2>1, <2>2
<1>13. ExactInv'
  BY <1>1 DEF ExactInv, Busy
<1>14. ServedInv'
  BY <1>3, <1>9, <1>10 DEF RefInv, ServedInv
<1>15. AbstractStep
  <2>1. \A e : e \in Visible' <=> e \in Visible
    BY <1>1, <1>3, <1>10 DEF Visible, backgroundVars
  <2> QED
    BY <1>1, <1>9, <2>1, HardenViews DEF backgroundVars
<1> QED
  BY <1>11, <1>12, <1>13, <1>14, <1>15 DEF RefInv

\* RemoveObsoleteFiles is silent.
LEMMA RemoveFileRef ==
    ASSUME WholeRecords, RefInv, DataInv, WholeInv, WritePathInv, WritePathInv', View, View', RemoveFile
    PROVE  RefInv' /\ AbstractStep
<1>1. PICK f \in garbage :
         IF f[1] = "table"
         THEN tables' = [k \in DOMAIN tables \ {f[2]} |-> tables[k]] /\ UNCHANGED logs
         ELSE logs' = [k \in DOMAIN logs \ {f[2]} |-> logs[k]] /\ UNCHANGED tables
  BY DEF RemoveFile
<1>2. /\ UNCHANGED backgroundVars /\ UNCHANGED <<imm_, manifest, current, log_number_, bg_error_>>
      /\ bgpc' = "remove" /\ bgpc = "remove" /\ garbage # {}
  BY DEF RemoveFile, backgroundVars, queueVars, headVars, memVars, openVars, versionVars
<1>3. /\ mode = "open" /\ manifest.version = current /\ log_number_ <= manifest.log_number
      /\ log_number_ \in Nat /\ manifest.log_number \in Nat /\ DOMAIN logs \subseteq Nat
      /\ Files(current) \subseteq DOMAIN tables
  <2>1. mode = "open" /\ manifest.version = current /\ manifest.torn = "no"
    BY <1>2, ManifestTables DEF WritePathInv, FilesInv, FilesPart, GarbageInv, WholeInv
  <2> QED
    BY <2>1 DEF WritePathInv, FilesInv, FilesPart, OpenInv, FileTypes
<1>4. /\ f[1] \in {"table", "log"} /\ f[2] \in Nat /\ f = <<f[1], f[2]>>
      /\ f[1] = "table" => f[2] \notin Files(current)
      /\ f[1] = "log" => f[2] < log_number_
  BY DEF WritePathInv, FilesInv, FilesPart, GarbageInv
<1>5. /\ DOMAIN logs' \subseteq DOMAIN logs /\ \A n \in DOMAIN logs' : logs'[n] = logs[n]
      /\ \A n \in DOMAIN logs : n \in DOMAIN logs' \/ n < log_number_
      /\ \A n \in DOMAIN tables' : tables'[n] = tables[n]
      /\ \A n \in Files(current) : n \in DOMAIN tables'
  BY <1>1, <1>3, <1>4
<1>6. /\ InTables(current)' = InTables(current)
      /\ InTables(manifest.version)' = InTables(manifest.version) /\ Imm' = Imm
  BY <1>2, <1>3, <1>5 DEF InTables, Files, Imm
<1>7. \A n \in DOMAIN logs' : LogSet(n)' = LogSet(n) /\ SyncedSet(n)' = SyncedSet(n)
  BY <1>5 DEF LogSet, SyncedSet
<1>8. Served' = Served
  BY <1>2, <1>6 DEF Served, backgroundVars
<1>9. \A e : e \in OnDiskSynced' <=> e \in OnDiskSynced
  <2>1. \A n \in DOMAIN logs : n >= manifest.log_number => n \in DOMAIN logs'
    BY <1>3, <1>5
  <2> QED
    BY <1>2, <1>5, <1>6, <1>7, <2>1, SyncedIs, SyncedIsNext
<1>10. FailedInv' /\ ReadInv' /\ NewBatchInv'
  <2>1. logfile_number_ \in DOMAIN logs'
    <3>1. logfile_number_' \in DOMAIN logs'
      BY <1>2, <1>3 DEF WritePathInv, FilesInv, FilesPart, OpenInv, backgroundVars
    <3> QED
      BY <1>2, <3>1 DEF backgroundVars
  <2> QED
    BY <1>2, <1>3, <1>5, <2>1, BackgroundRef
<1>11. OldLogInv' /\ ServedInv'
  BY <1>2, <1>5, <1>6, <1>7, <1>8 DEF RefInv, OldLogInv, ServedInv, backgroundVars
<1>12. ExactInv'
  BY <1>2 DEF ExactInv, Busy
<1>13. AbstractStep
  <2>1. \A e : e \in Visible' <=> e \in Visible
    BY <1>2, <1>3, <1>8 DEF Visible, backgroundVars
  <2> QED
    BY <1>2, <1>9, <2>1, HardenViews DEF backgroundVars
<1> QED
  BY <1>10, <1>11, <1>12, <1>13 DEF RefInv

\* What is in imm_ or in a table, and served, is visible.
LEMMA FlushedIsVisible ==
    ASSUME DataInv, WritePathInv, mode = "open",
           NEW e \in Served, e \in Imm \cup TableSet(DOMAIN tables)
    PROVE  e \in Visible
<1>1. e.seq <= last_sequence_ /\ last_sequence_ \in Nat
  BY DEF DataInv, SeqInv
<1>2. e \in write_batch => last_sequence_ < e.seq
  BY DEF DataInv, BatchInv
<1>3. e \in Entries
  BY EntriesIs DEF TableSet
<1>4. e.seq \in Nat
  BY <1>3 DEF DataInv, ContentInv, Entry
<1> QED
  BY <1>1, <1>2, <1>4 DEF Visible

\* The synced part of a log is part of it.
LEMMA SyncedPart ==
    ASSUME DiskInv, NEW n \in DOMAIN logs
    PROVE  SyncedSet(n) \subseteq LogSet(n)
<1>1. /\ logs[n] \in [recs: Seq(SUBSET Entry), synced: Nat] /\ logs[n].synced <= Len(logs[n].recs)
  BY DEF DiskInv
<1>2. 1..logs[n].synced \subseteq 1..Len(logs[n].recs)
  BY <1>1
<1> QED
  BY <1>2 DEF LogSet, SyncedSet

\* A manifest record implements Harden: a flushed memtable becomes durable.
LEMMA WriteManifestRef ==
    ASSUME WholeRecords, RefInv, DataInv, WholeInv, WritePathInv, WritePathInv', View, View', WriteManifest
    PROVE  RefInv' /\ AbstractStep
<1>1. CASE manifest' = manifest
  BY <1>1, BackgroundQuietRef
<1>2. CASE manifest' # manifest
  <2>1. /\ UNCHANGED backgroundVars /\ bg_error_' = bg_error_
        /\ UNCHANGED <<logs, tables, imm_, current, log_number_, flushing, compacting>>
        /\ manifest' = Logged(edit) /\ bgpc = "manifest" /\ bgpc' \in Busy
    <3>1. bgpc = "manifest" /\ mode = "open"
      BY DEF WriteManifest, WritePathInv, FilesInv, ClosedInv
    <3>2. ~MayFail("descriptor") /\ Appended(edit) = Logged(edit)
      BY <3>1 DEF MayFail, WholeRecords, WholeInv, Appended
    <3> QED
      BY <1>2, <3>1, <3>2 DEF WriteManifest, FailedAppend, bgUnchanged, backgroundVars, queueVars,
          headVars, openVars, versionVars, Busy
  <2>2. PICK v \in Version : v = manifest.version
    BY DEF WritePathInv, FilesInv, FilesPart, FileTypes
  <2>3. /\ mode = "open" /\ bgpc \in Busy /\ Files(v) \subseteq DOMAIN tables
        /\ log_number_ <= manifest.log_number /\ manifest.log_number <= logfile_number_
        /\ log_number_ \in Nat /\ manifest.log_number \in Nat /\ logfile_number_ \in Nat
        /\ DOMAIN logs \subseteq Nat /\ logfile_number_ \in DOMAIN logs
        /\ Files(current) \subseteq DOMAIN tables
        /\ \/ flushing # NoFile /\ edit.log_number = logfile_number_
           \/ flushing = NoFile /\ edit.log_number = log_number_
    <3>1. mode = "open" /\ bgpc \in Busy
      BY <2>1 DEF WritePathInv, FilesInv, ClosedInv, Busy
    <3>2. manifest.torn = "no"
      BY <3>1 DEF WholeInv
    <3> QED
      BY <2>2, <3>1, <3>2, ManifestTables
         DEF WritePathInv, FilesInv, FilesPart, FileTypes, OpenInv, BackgroundInv
  <2>4. /\ InTables(v) \subseteq InTables(Apply(v, edit))
        /\ flushing # NoFile => InTables(Apply(v, edit)) = InTables(v) \cup Imm
        /\ flushing = NoFile => InTables(Apply(v, edit)) \subseteq InTables(v) \cup InTables(current)
    BY <2>3, EditKeepsTables, CompactedTables
  <2>5. PICK T : T = InTables(Apply(v, edit))
    OBVIOUS
  <2>6. /\ InTables(manifest.version)' = T /\ manifest'.log_number = edit.log_number
        /\ InTables(manifest.version) = InTables(v)
    <3>1. manifest'.version = Apply(v, edit) /\ manifest'.log_number = edit.log_number
      BY <2>1, <2>2 DEF Logged
    <3> QED
      BY <2>1, <2>2, <2>5, <3>1 DEF InTables
  <2>7. Imm' = Imm /\ InTables(current)' = InTables(current)
    BY <2>1 DEF Imm, InTables
  <2>8. Served' = Served
    BY <2>1, <2>7 DEF Served, backgroundVars
  <2>9. \A k : LogSet(k)' = LogSet(k) /\ SyncedSet(k)' = SyncedSet(k)
    BY <2>1 DEF LogSet, SyncedSet
  <2>10. \A n \in DOMAIN logs : log_number_ <= n /\ n < logfile_number_ =>
            LogSet(n) \subseteq Imm \cup InTables(v)
    BY <2>2, <2>3 DEF RefInv, OldLogInv
  <2>11. InTables(v) \subseteq Served /\ Imm \subseteq Served /\ InTables(current) \subseteq Served
    BY <2>3, <2>6 DEF RefInv, ServedInv, Served
  <2>12. /\ InTables(v) \subseteq TableSet(DOMAIN tables)
         /\ InTables(current) \subseteq TableSet(DOMAIN tables)
    BY <2>3 DEF InTables, TableSet
  <2>13. \A e \in Imm \cup InTables(v) \cup InTables(current) : e \in Visible
    BY <2>3, <2>11, <2>12, FlushedIsVisible
  <2>14. \A n \in DOMAIN logs : SyncedSet(n) \subseteq LogSet(n)
    BY SyncedPart DEF DataInv
  <2>15. FailedInv' /\ ReadInv' /\ NewBatchInv'
    BY <2>1, <2>3, BackgroundRef
  <2>16. ExactInv'
    BY <2>1, <2>3, ExactFrame DEF RefInv
  <2>17. OldLogInv'
    BY <2>1, <2>4, <2>5, <2>6, <2>7, <2>9, <2>10 DEF OldLogInv, backgroundVars
  <2>18. ServedInv'
    <3>1. T \subseteq Served
      BY <2>4, <2>5, <2>11
    <3> QED
      BY <2>6, <2>8, <3>1 DEF ServedInv
  <2>19. \A e \in OnDiskSynced : e \in OnDiskSynced'
    <3>1. ASSUME NEW e, NEW n \in DOMAIN logs, n >= manifest.log_number, e \in SyncedSet(n)
          PROVE  e \in T \/ n >= manifest'.log_number
      <4>1. CASE flushing = NoFile
        BY <2>3, <2>6, <3>1, <4>1
      <4>2. CASE flushing # NoFile /\ n < logfile_number_
        <5>1. log_number_ <= n
          BY <2>3, <3>1
        <5>2. e \in Imm \cup InTables(v)
          BY <2>10, <2>14, <3>1, <4>2, <5>1
        <5> QED
          BY <2>4, <2>5, <4>2, <5>2
      <4>3. CASE flushing # NoFile /\ ~(n < logfile_number_)
        BY <2>3, <2>6, <4>3
      <4> QED
        BY <4>1, <4>2, <4>3
    <3> QED
      BY <2>1, <2>4, <2>5, <2>6, <2>9, <3>1, SyncedIs, SyncedIsNext
  <2>20. \A e \in OnDiskSynced' : e \in OnDiskSynced \/ e \in Visible
    <3>1. ASSUME NEW e \in T PROVE e \in Visible
      BY <2>4, <2>5, <2>13, <3>1
    <3>2. ASSUME NEW e, NEW n \in DOMAIN logs, n >= manifest'.log_number, e \in SyncedSet(n)
          PROVE  e \in Visible \/ n >= manifest.log_number
      <4>1. SUFFICES ASSUME n < manifest.log_number PROVE e \in Visible
        BY <2>3
      <4>2. log_number_ <= n /\ n < logfile_number_
        BY <2>3, <2>6, <3>2, <4>1
      <4> QED
        BY <2>10, <2>13, <2>14, <3>2, <4>2
    <3> QED
      BY <2>1, <2>6, <2>9, <3>1, <3>2, SyncedIs, SyncedIsNext
  <2>21. \A e : e \in Visible' <=> e \in Visible
    BY <2>1, <2>3, <2>8 DEF Visible, backgroundVars
  <2>22. calls' = calls
    BY <2>1 DEF backgroundVars
  <2>23. AbstractStep
    BY <2>19, <2>20, <2>21, <2>22, HardenViews
  <2> QED
    BY <2>15, <2>16, <2>17, <2>18, <2>23 DEF RefInv
<1> QED
  BY <1>1, <1>2

\* The calls whose batch a restart may bring back though no reader saw it.
MayReturn == {i \in DOMAIN calls : calls[i].res \in {"pending", "error", "cut"}}

\* Recovery reads only what readers saw, batches of calls still running, and
\* batches whose sync failed.
LEMMA RecoverableCalls ==
    ASSUME RefInv, DataInv, WholeInv, WritePathInv, View, NEW e \in OnDisk
    PROVE  e.id \in Stored \cup MayReturn
<1>1. e.id \in DOMAIN calls
  BY DEF View
<1>2. CASE mode # "open"
  BY <1>2 DEF View
<1>3. CASE mode = "open"
  <2>1. ASSUME e \in Served PROVE e.id \in Stored \cup MayReturn
    <3>1. CASE e \notin write_batch
      BY <1>3, <2>1, <3>1 DEF View
    <3>2. CASE e \in write_batch
      <4>1. PICK i \in 1..Len(group) : e.id = call[group[i]]
        BY <3>2 DEF DataInv, BatchInv
      <4>2. calls[call[group[i]]].res = "pending"
        BY GroupCalls DEF Batch, WritePathInv
      <4> QED
        BY <1>1, <4>1, <4>2 DEF MayReturn
    <3> QED
      BY <3>1, <3>2
  <2>2. /\ log_number_ \in Nat /\ manifest.log_number \in Nat /\ logfile_number_ \in Nat
        /\ DOMAIN logs \subseteq Nat /\ log_number_ <= manifest.log_number
    BY <1>3 DEF WholeInv, WritePathInv, FilesInv, FilesPart, FileTypes, OpenInv
  <2>3. CASE e \in InTables(manifest.version)
    BY <1>3, <2>1, <2>3 DEF RefInv, ServedInv
  <2>4. ASSUME NEW n \in DOMAIN logs, n >= manifest.log_number, e \in LogSet(n)
        PROVE  e.id \in Stored \cup MayReturn
    <3>1. n <= logfile_number_
      BY <1>3 DEF DataInv, LogInv
    <3>2. CASE n < logfile_number_
      <4>1. log_number_ <= n
        BY <2>2, <2>4
      <4>2. e \in Imm \cup InTables(manifest.version)
        BY <1>3, <2>4, <3>2, <4>1 DEF RefInv, OldLogInv
      <4>3. e \in Served
        BY <1>3, <4>2 DEF RefInv, ServedInv, Served
      <4> QED
        BY <2>1, <4>3
    <3>3. CASE n = logfile_number_
      <4>1. CASE LogSet(logfile_number_) \subseteq mem_ \cup write_batch
        <5>1. e \in mem_ \/ e \in write_batch
          BY <2>4, <3>3, <4>1
        <5>2. CASE e \in mem_
          BY <2>1, <5>2 DEF Served
        <5>3. CASE e \in write_batch
          <6>1. PICK i \in 1..Len(group) : e.id = call[group[i]]
            BY <5>3 DEF DataInv, BatchInv
          <6>2. calls[call[group[i]]].res = "pending"
            BY GroupCalls DEF Batch, WritePathInv
          <6> QED
            BY <1>1, <6>1, <6>2 DEF MayReturn
        <5> QED
          BY <5>1, <5>2, <5>3
      <4>2. CASE \A x \in LogSet(logfile_number_) : x \in mem_ \/ calls[x.id].res = "error"
        <5>1. e \in mem_ \/ calls[e.id].res = "error"
          BY <2>4, <3>3, <4>2
        <5>2. CASE e \in mem_
          BY <2>1, <5>2 DEF Served
        <5> QED
          BY <1>1, <5>1, <5>2 DEF MayReturn
      <4> QED
        BY <1>3, <4>1, <4>2 DEF RefInv, FailedInv
    <3> QED
      BY <2>2, <3>1, <3>2, <3>3
  <2> QED
    BY <2>3, <2>4, RecoverableIs
<1> QED
  BY <1>2, <1>3

\* A stop that loses no synced entry and adds nothing to the disk is Restart.
LEMMA StopStep ==
    ASSUME RefInv, DataInv, WholeInv, WritePathInv, View, View', mode' # "open", Loses,
           OnDiskSynced' = OnDiskSynced, OnDiskSynced' \subseteq OnDisk', OnDisk' \subseteq OnDisk
    PROVE  AbstractStep
<1>1. Durable' = Durable
  <2>1. \A i : i \in Durable' <=> i \in Durable
    BY DEF View
  <2> QED
    BY <2>1 DEF Durable
<1>2. Durable \subseteq Stored'
  BY DEF View
<1>3. Stored' \subseteq Stored \cup MayReturn
  <2>1. ASSUME NEW i \in Stored' PROVE i \in Stored \cup MayReturn
    <3>1. PICK e \in OnDisk' : e.id = i
      BY <2>1 DEF View
    <3>2. e \in OnDisk
      BY <3>1
    <3> QED
      BY <3>1, <3>2, RecoverableCalls
  <2> QED
    BY <2>1
<1>4. Stored' \subseteq Durable \cup Stored
         \cup {i \in DOMAIN calls : calls[i].res \in {"pending", "error", "cut"}}
  BY <1>3 DEF MayReturn
<1>5. Abstract!Restart
  BY <1>1, <1>2, <1>4, RestartStep
<1> QED
  BY <1>5 DEF AbstractStep, Abstract!Next

\* A DB that is down keeps RefInv.
LEMMA StoppedRef ==
    ASSUME mode' = "down", bgpc' = "idle", \A t \in Threads : pc'[t] \notin Writing
    PROVE  RefInv'
  BY DEF RefInv, FailedInv, OldLogInv, ExactInv, ServedInv, ReadInv, NewBatchInv, Busy, Writing

\* Recovery reads what is synced.
LEMMA SyncedRecoverable ==
    ASSUME DiskInv PROVE OnDiskSynced \subseteq OnDisk
  BY SyncedPart, SyncedIs, RecoverableIs

\* A close implements Restart.
LEMMA FinishCloseRef ==
    ASSUME RefInv, DataInv, DataInv', WholeInv, WritePathInv, WritePathInv', View, View', FinishClose
    PROVE  RefInv' /\ AbstractStep
<1>1. /\ UNCHANGED <<calls, logs, tables, manifest>> /\ pc' = [t \in Threads |-> "idle"]
      /\ mode' = "down" /\ bgpc' = "idle"
  BY DEF FinishClose, Down
<1>2. RefInv'
  BY <1>1, StoppedRef DEF Writing
<1>3. OnDisk' = OnDisk /\ OnDiskSynced' = OnDiskSynced
  BY <1>1, SameDisk
<1>4. OnDiskSynced' \subseteq OnDisk'
  BY <1>3, SyncedRecoverable DEF DataInv
<1>5. Loses
  BY <1>1 DEF Loses
<1>6. AbstractStep
  BY <1>1, <1>3, <1>4, <1>5, StopStep
<1> QED
  BY <1>2, <1>6

\* The next state's disk is read as this one's.
LEMMA ReadNext == DataInv' /\ WholeInv' => Recoverable' = OnDisk'
<1>1. DataInv /\ WholeInv => Recoverable = OnDisk
  BY ReadFromDisk
<1>2. DataInv' /\ WholeInv' => (Recoverable = OnDisk)'
  BY <1>1, ReadFromDisk, PTL
<1> QED
  BY <1>2

\* A crash of the process or of the machine implements Restart.
LEMMA CrashRef ==
    ASSUME RefInv, DataInv, DataInv', WholeInv, WholeInv', WritePathInv, WritePathInv', View, View',
           NEW machine \in BOOLEAN, Crash(machine)
    PROVE  RefInv' /\ AbstractStep
<1>1. PICK k \in Kept(machine) :
         /\ logs' = [n \in DOMAIN logs |-> [recs |-> k[n], synced |-> logs[n].synced]]
         /\ calls' = [i \in DOMAIN calls |->
                 [calls[i] EXCEPT !.res =
                     IF @ = "pending" THEN "cut"
                     ELSE IF @ = "ok" /\ calls[i].count # 0
                             /\ ~Holds(FromDisk(manifest', LAMBDA n : k[n]), i)
                             /\ machine /\ ~calls[i].sync
                          THEN "lost" ELSE @]]
  BY DEF Crash
<1>2. /\ Down /\ Len(calls') = Len(calls)
      /\ \A i \in 1..Len(calls) :
           calls'[i].count = calls[i].count /\ calls'[i].sync = calls[i].sync
  BY CrashCalls DEF WritePathInv
<1>3. /\ tables' = tables /\ pc' = [t \in Threads |-> "idle"]
      /\ mode' = "down" /\ bgpc' = "idle"
      /\ manifest'.version = manifest.version /\ manifest'.log_number = manifest.log_number
  <2>1. manifest' = manifest \/ manifest' = TornManifest
    BY DEF Crash, ManifestKept
  <2> QED
    BY <1>2, <2>1, TornFields DEF Down, WritePathInv, FilesInv, FilesPart
<1>4. Len(calls) \in Nat /\ DOMAIN calls = 1..Len(calls) /\ \A i \in 1..Len(calls) : calls[i] \in CallT
  BY DEF WritePathInv, ThreadInv, ThreadTypes
<1>5. RefInv'
  BY <1>3, StoppedRef DEF Writing
<1>6. \A n \in DOMAIN logs : logs'[n].recs = k[n] /\ logs'[n].synced = logs[n].synced
  BY <1>1
<1>7. ASSUME NEW n \in DOMAIN logs
      PROVE  /\ logs[n].synced \in Nat
             /\ \A i \in 1..logs[n].synced : logs'[n].recs[i] = logs[n].recs[i]
             /\ LogSet(n)' \subseteq LogSet(n)
  <2>1. PICK j \in Nat :
               /\ logs[n].synced \in Nat /\ Len(logs[n].recs) \in Nat
               /\ logs[n].synced <= j /\ j <= Len(logs[n].recs)
               /\ ~machine => j = Len(logs[n].recs)
               /\ k[n] \in Seq(SUBSET Entry) /\ Len(k[n]) \in Nat
               /\ \A i \in 1..j : i \in 1..Len(logs[n].recs) /\ k[n][i] = logs[n].recs[i]
               /\ \/ Len(k[n]) = j
                  \/ /\ Len(k[n]) = j + 1 /\ k[n][j + 1] = {}
                     /\ "tear" \in Faults /\ (j < Len(logs[n].recs) \/ AppendingTo(n))
    BY KeptIs
  <2>2. \A i \in 1..logs[n].synced : k[n][i] = logs[n].recs[i]
    BY <2>1
  <2>3. \A i \in 1..Len(k[n]) : i \in 1..j \/ k[n][i] = {}
    BY <2>1
  <2>4. \A e : e \in LogSet(n)' <=> \E i \in 1..Len(k[n]) : e \in k[n][i]
    BY <1>6 DEF LogSet
  <2>5. \A e : e \in LogSet(n) <=> \E i \in 1..Len(logs[n].recs) : e \in logs[n].recs[i]
    BY DEF LogSet
  <2>6. LogSet(n)' \subseteq LogSet(n)
    BY <2>1, <2>3, <2>4, <2>5
  <2> QED
    BY <1>6, <2>1, <2>2, <2>6
<1>8. DOMAIN logs' = DOMAIN logs
  BY <1>1
<1>9. InTables(manifest.version)' = InTables(manifest.version)
  BY <1>3 DEF InTables, Files
<1>10. OnDiskSynced' = OnDiskSynced
  <2>1. ASSUME NEW n \in DOMAIN logs PROVE SyncedSet(n)' = SyncedSet(n)
    BY <1>6, <1>7 DEF SyncedSet
  <2>2. \A e : e \in OnDiskSynced' <=> e \in OnDiskSynced
    BY <1>3, <1>8, <1>9, <2>1, SyncedIs, SyncedIsNext, SMTT(30)
  <2> QED
    BY <2>2
<1>11. OnDiskSynced' \subseteq OnDisk'
  <2>1. DiskInv => OnDiskSynced \subseteq OnDisk
    BY SyncedRecoverable
  <2>2. DiskInv' => (OnDiskSynced \subseteq OnDisk)'
    BY <2>1, SyncedRecoverable, PTL
  <2> QED
    BY <2>2 DEF DataInv
<1>12. PICK left : left = FromDisk(manifest', LAMBDA n : k[n])
  OBVIOUS
<1>13. \A e : e \in OnDisk' <=> e \in left
  <2>1. Recoverable' = OnDisk'
    BY ReadNext
  <2>2. manifest'.torn # "inside"
    BY DEF WholeInv
  <2>3. \A e : e \in left <=>
           \/ e \in InTables(manifest.version)
           \/ \E n \in DOMAIN logs : n >= manifest.log_number /\ e \in BeforeTorn(k[n])
    <3>1. left = InTables(manifest'.version) \cup InLogs(LAMBDA n : k[n])
      BY <1>12, <2>2 DEF FromDisk
    <3>2. \A e : e \in InLogs(LAMBDA n : k[n]) <=>
             \E n \in DOMAIN logs : n >= manifest.log_number /\ e \in BeforeTorn(k[n])
      BY DEF InLogs
    <3> QED
      BY <1>3, <3>1, <3>2
  <2>4. \A e : e \in Recoverable' <=>
           \/ e \in InTables(manifest.version)'
           \/ \E n \in DOMAIN logs' : n >= manifest'.log_number /\ e \in BeforeTorn(logs'[n].recs)
    BY <2>2 DEF Recoverable, FromDisk, InLogs, BeforeTorn
  <2> QED
    BY <1>3, <1>6, <1>8, <1>9, <2>1, <2>3, <2>4
<1>14. OnDisk' \subseteq OnDisk
  BY <1>3, <1>7, <1>8, <1>9, RecoverableIs, RecoverableIsNext
<1>15. ASSUME NEW i \in 1..Len(calls)
       PROVE  \/ calls'[i].res = calls[i].res
              \/ calls[i].res = "pending" /\ calls'[i].res = "cut"
              \/ calls[i].res = "ok" /\ ~Holds(left, i) /\ calls'[i].res = "lost"
  <2> DEFINE r == IF calls[i].res = "pending" THEN "cut"
                     ELSE IF calls[i].res = "ok" /\ calls[i].count # 0
                             /\ ~Holds(left, i)
                             /\ machine /\ ~calls[i].sync
                          THEN "lost" ELSE calls[i].res
  <2>1. calls'[i] = [calls[i] EXCEPT !.res = r]
    BY <1>1, <1>4, <1>12
  <2>2. calls[i] \in CallT
    BY <1>4
  <2> HIDE DEF r
  <2>3. calls'[i].res = r
    BY <2>1, <2>2 DEF CallT
  <2> QED
    BY <2>3 DEF r
<1>16. ASSUME NEW i \in 1..Len(calls), i \in Stored' PROVE Holds(left, i)
  <2>1. calls'[i].count # 0 /\ Cardinality({e \in OnDisk' : e.id = i}) = calls'[i].count
    BY <1>3, <1>16, ReadNext DEF Stored, Holds
  <2>2. {e \in OnDisk' : e.id = i} = {e \in left : e.id = i}
    BY <1>13
  <2>3. calls'[i].count = calls[i].count
    BY <1>2
  <2> QED
    BY <2>1, <2>2, <2>3 DEF Holds
<1>17. Loses
  <2>1. DOMAIN calls' = DOMAIN calls
    BY <1>1
  <2> HIDE <1>1
  <2> QED
    BY <1>2, <1>4, <1>15, <1>16, <2>1 DEF Loses
<1>18. AbstractStep
  BY <1>3, <1>10, <1>11, <1>14, <1>17, StopStep
<1> QED
  BY <1>5, <1>18

\* Steps of an open that change nothing on the disk that counts are silent.
LEMMA ClosedRef ==
    ASSUME View, View', calls' = calls, mode # "open", mode' # "open", bgpc' = "idle",
           \A t \in Threads : pc'[t] \notin Writing,
           mode' = "recover" => TableSet(edit.add)' \subseteq OnDisk',
           \A e : e \in OnDisk' <=> e \in OnDisk,
           \A e : e \in OnDiskSynced' <=> e \in OnDiskSynced
    PROVE  RefInv' /\ AbstractStep
<1>1. RefInv'
  BY DEF RefInv, FailedInv, OldLogInv, ExactInv, ServedInv, ReadInv, NewBatchInv, Busy, Writing
<1>2. \A e : e \in Visible' <=> e \in Visible
  BY DEF Visible
<1> QED
  BY <1>1, <1>2, HardenViews

\* A failed open is silent, or implements Harden when its record reached the
\* reused manifest all the same.
LEMMA OpenFailsRef ==
    ASSUME WholeRecords, RefInv, DataInv, WholeInv, WritePathInv, WritePathInv', View, View', OpenFails
    PROVE  RefInv' /\ AbstractStep
<1>1. UNCHANGED <<calls, logs, tables, pc, bgpc>> /\ mode' = "down" /\ mode = "recover"
  BY DEF OpenFails, callVars, queueVars, headVars
<1>2. bgpc = "idle" /\ \A t \in Threads : pc[t] \notin Writing
  BY <1>1, ClosedFacts
<1>3. manifest' = manifest \/ (Opening /\ manifest' = Logged(OpenEdit))
  <2>1. ~MayFail("descriptor")
    BY DEF MayFail, WholeRecords
  <2>2. \A m \in FailedAppend(OpenEdit) : m = manifest \/ m = Appended(OpenEdit)
    BY <2>1 DEF FailedAppend
  <2> QED
    BY <2>2, AppendsWhole DEF OpenFails
<1>4. CASE manifest' = manifest
  <2>1. OnDisk' = OnDisk /\ OnDiskSynced' = OnDiskSynced
    BY <1>1, <1>4, SameDisk
  <2> QED
    BY <1>1, <1>2, <2>1, ClosedRef
<1>5. CASE Opening /\ manifest' = Logged(OpenEdit)
  <2>1. PICK T : T = InTables(manifest.version) \cup TableSet(edit.add)
    OBVIOUS
  <2>2. /\ InTables(Apply(manifest.version, OpenEdit)) = T
        /\ \A e \in OnDisk : e \in T \/ e \in LogSet(logfile_number_)
        /\ \A e \in OnDiskSynced : e \in T \/ e \in SyncedSet(logfile_number_)
    BY <1>5, <2>1, OpeningData
  <2>3. PICK n : n = logfile_number_
    OBVIOUS
  <2>4. /\ manifest'.version = Apply(manifest.version, OpenEdit) /\ manifest'.log_number = n
        /\ n \in DOMAIN logs /\ manifest.log_number <= n
        /\ n \in Nat /\ DOMAIN logs \subseteq Nat /\ manifest.log_number \in Nat
    BY <1>5, <2>3, OpeningFacts DEF WritePathInv, FilesInv, FilesPart, FileTypes
  <2>5. InTables(manifest.version)' = T
    BY <1>1, <2>2, <2>4 DEF InTables
  <2>6. \A m : LogSet(m)' = LogSet(m) /\ SyncedSet(m)' = SyncedSet(m)
    BY <1>1 DEF LogSet, SyncedSet
  <2>7. \A m \in DOMAIN logs : m >= n => m >= manifest.log_number
    BY <2>4
  <2>8. n >= n
    BY <2>4
  <2>9. T \subseteq OnDisk
    <3>1. TableSet(edit.add) \subseteq OnDisk
      BY <1>1 DEF RefInv, ReadInv
    <3> QED
      BY <2>1, <3>1, RecoverableIs
  <2>10. \A e : e \in OnDisk' <=> e \in OnDisk
    <3>1. \A e \in OnDisk : e \in OnDisk'
      BY <1>1, <2>2, <2>3, <2>4, <2>5, <2>6, <2>8, RecoverableIsNext
    <3>2. \A e \in OnDisk' : e \in OnDisk
      BY <1>1, <2>4, <2>5, <2>6, <2>7, <2>9, RecoverableIs, RecoverableIsNext
    <3> QED
      BY <3>1, <3>2
  <2>11. \A e \in OnDiskSynced : e \in OnDiskSynced'
    BY <1>1, <2>2, <2>3, <2>4, <2>5, <2>6, <2>8, SyncedIsNext
  <2>12. \A e \in OnDiskSynced' : e \in OnDiskSynced \/ e \in OnDisk
    BY <1>1, <2>4, <2>5, <2>6, <2>7, <2>9, SyncedIs, SyncedIsNext
  <2>13. \A e : e \in Visible' <=> e \in Visible
    BY <1>1, <2>10 DEF Visible
  <2>14. AbstractStep
    BY <1>1, <2>11, <2>12, <2>13, HardenViews DEF Visible
  <2>15. RefInv'
    BY <1>1, <1>2, StoppedRef
  <2> QED
    BY <2>14, <2>15
<1> QED
  BY <1>3, <1>4, <1>5

\* The start of Recover is silent.
LEMMA StartRecoverRef ==
    ASSUME RefInv, DataInv, WritePathInv, WritePathInv', View, View', StartRecover
    PROVE  RefInv' /\ AbstractStep
<1>1. /\ UNCHANGED <<calls, logs, tables, manifest, pc, bgpc, edit>>
      /\ mode = "down" /\ mode' = "recover"
  BY DEF StartRecover, callVars, queueVars, headVars, bgVars, diskVars
<1>2. bgpc = "idle" /\ \A t \in Threads : pc[t] \notin Writing
  BY <1>1, ClosedFacts
<1>3. OnDisk' = OnDisk /\ OnDiskSynced' = OnDiskSynced
  BY <1>1, SameDisk
<1>4. edit.add = {}
  BY <1>1 DEF WritePathInv, FilesInv, FilesPart, DownInv, NoEdit
<1>5. TableSet(edit.add)' = {}
  BY <1>1, <1>4 DEF TableSet
<1> QED
  BY <1>1, <1>2, <1>3, <1>5, ClosedRef

\* Creating the new log is silent.
LEMMA NewLogRef ==
    ASSUME RefInv, DataInv, WritePathInv, WritePathInv', View, View', NewLog
    PROVE  RefInv' /\ AbstractStep
<1>1. PICK n : n = next_file_number_
  OBVIOUS
<1>2. /\ UNCHANGED <<calls, tables, manifest, pc, bgpc, edit, mode>>
      /\ mode = "recover" /\ rlogs = {} /\ logfile_number_ = NoFile
      /\ logs' = Created(logs, n, EmptyLog)
  BY <1>1 DEF NewLog, callVars, queueVars, headVars, bgVars, openVars
<1>3. bgpc = "idle" /\ \A t \in Threads : pc[t] \notin Writing
  BY <1>2, ClosedFacts
<1>4. /\ n \in Nat /\ DOMAIN logs \subseteq Nat /\ n > manifest.next_file
      /\ manifest.next_file \in Nat /\ manifest.log_number \in Nat
      /\ manifest.log_number < manifest.next_file
      /\ \A k \in LogsFrom(manifest.log_number) : k < n
  BY <1>1, <1>2 DEF WritePathInv, FilesInv, FilesPart, FileTypes, RecoverInv, ManifestInv
<1>5. n \notin DOMAIN logs
  <2>1. ASSUME n \in DOMAIN logs PROVE FALSE
    <3>1. n >= manifest.log_number
      BY <1>4
    <3>2. n \in LogsFrom(manifest.log_number)
      BY <2>1, <3>1 DEF LogsFrom
    <3> QED
      BY <1>4, <3>2
  <2> QED
    BY <2>1
<1>6. /\ DOMAIN logs' = DOMAIN logs \cup {n} /\ LogSet(n)' = {} /\ logs'[n] = EmptyLog
      /\ \A k \in DOMAIN logs : LogSet(k)' = LogSet(k) /\ SyncedSet(k)' = SyncedSet(k)
  BY <1>2, <1>5, NewLogFile
<1>7. SyncedSet(n)' = {}
  BY <1>6 DEF SyncedSet, EmptyLog
<1>8. /\ InTables(manifest.version)' = InTables(manifest.version)
      /\ TableSet(edit.add)' = TableSet(edit.add)
  BY <1>2 DEF InTables, Files, TableSet
<1>9. /\ \A e : e \in OnDisk' <=> e \in OnDisk
      /\ \A e : e \in OnDiskSynced' <=> e \in OnDiskSynced
  BY <1>2, <1>6, <1>7, <1>8, RecoverableIs, RecoverableIsNext, SyncedIs, SyncedIsNext
<1>10. TableSet(edit.add)' \subseteq OnDisk'
  BY <1>2, <1>8, <1>9 DEF RefInv, ReadInv
<1> QED
  BY <1>2, <1>3, <1>9, <1>10, ClosedRef

\* Reading a log into a table, or keeping it, is silent.
LEMMA RecoverLogFileRef ==
    ASSUME RefInv, DataInv, WritePathInv, WritePathInv', View, View', RecoverLogFile
    PROVE  RefInv' /\ AbstractStep
<1>1. PICK n : n = Min(rlogs)
  OBVIOUS
<1>2. PICK f : f = next_file_number_
  OBVIOUS
<1>3. PICK es \in ReadRecords(n) :
          \/ UNCHANGED <<tables, edit>>
          \/ tables' = Created(tables, f, es) /\ edit' = [edit EXCEPT !.add = @ \cup {f}]
  BY <1>1, <1>2 DEF RecoverLogFile
<1>4. /\ UNCHANGED <<calls, pc, bgpc, mode, logs, manifest>> /\ mode = "recover" /\ rlogs # {}
  BY DEF RecoverLogFile, callVars
<1>5. bgpc = "idle" /\ \A t \in Threads : pc[t] \notin Writing
  BY <1>4, ClosedFacts
<1>6. /\ rlogs \subseteq LogsFrom(manifest.log_number)
      /\ f \in Nat /\ edit \in EditT /\ manifest.log_number \in Nat
      /\ DOMAIN logs \subseteq Nat /\ DOMAIN tables \subseteq Nat
      /\ manifest.next_file \in Nat /\ f > manifest.next_file
      /\ \A k \in Files(manifest.version) : k < manifest.next_file
      /\ Files(manifest.version) \subseteq DOMAIN tables
      /\ edit.add \subseteq DOMAIN tables /\ \A k \in edit.add : k < f
  BY <1>2, <1>4 DEF WritePathInv, FilesInv, FilesPart, FileTypes, ManifestInv, RecoverInv
<1>7. n \in DOMAIN logs /\ n >= manifest.log_number
  <2>1. LogsFrom(manifest.log_number) \subseteq DOMAIN logs
    BY DEF LogsFrom
  <2>2. rlogs \in SUBSET Nat
    BY <1>6, <2>1
  <2>3. n \in rlogs
    BY <1>1, <1>4, <2>2, MinIsLeast
  <2> QED
    BY <1>6, <2>3 DEF LogsFrom
<1>8. es \subseteq OnDisk
  BY <1>7, ReadRecordsIs, RecoverableIs DEF DataInv
<1>9. f \notin Files(manifest.version) /\ f \notin edit.add
  BY <1>6 DEF WritePathInv, FilesInv, FilesPart, FileTypes, Files, Version
<1>10. InTables(manifest.version)' = InTables(manifest.version)
  <2>1. \A k \in Files(manifest.version) : tables'[k] = tables[k]
    BY <1>3, <1>6, <1>9 DEF Created
  <2> QED
    BY <1>4, <2>1 DEF InTables, Files
<1>11. TableSet(edit.add)' \subseteq TableSet(edit.add) \cup es
  <2>1. CASE UNCHANGED <<tables, edit>>
    BY <2>1 DEF TableSet
  <2>2. CASE tables' = Created(tables, f, es) /\ edit' = [edit EXCEPT !.add = @ \cup {f}]
    <3>1. edit'.add = edit.add \cup {f}
      BY <1>6, <2>2 DEF EditT
    <3>2. tables'[f] = es /\ \A k \in edit.add : tables'[k] = tables[k]
      BY <1>6, <1>9, <2>2 DEF Created
    <3>3. \A e : e \in TableSet(edit.add)' <=> \E k \in edit.add \cup {f} : e \in tables'[k]
      BY <3>1 DEF TableSet
    <3>4. \A e : e \in TableSet(edit.add) <=> \E k \in edit.add : e \in tables[k]
      BY DEF TableSet
    <3> QED
      BY <3>2, <3>3, <3>4
  <2> QED
    BY <1>3, <2>1, <2>2
<1>12. \A k : LogSet(k)' = LogSet(k) /\ SyncedSet(k)' = SyncedSet(k)
  BY <1>4 DEF LogSet, SyncedSet
<1>13. /\ \A e : e \in OnDisk' <=> e \in OnDisk
       /\ \A e : e \in OnDiskSynced' <=> e \in OnDiskSynced
  BY <1>4, <1>10, <1>12, RecoverableIs, RecoverableIsNext, SyncedIs, SyncedIsNext
<1>14. TableSet(edit.add)' \subseteq OnDisk'
  BY <1>4, <1>8, <1>11, <1>13 DEF RefInv, ReadInv
<1> QED
  BY <1>4, <1>5, <1>13, <1>14, ClosedRef

\* The end of DB::Open implements Harden: what the logs held unsynced is in
\* tables the manifest names.
LEMMA FinishOpenRef ==
    ASSUME WholeRecords, RefInv, DataInv, WholeInv, WritePathInv, WritePathInv', View, View', FinishOpen
    PROVE  RefInv' /\ AbstractStep
<1>1. /\ UNCHANGED <<calls, pc, call, writers_, group, write_batch, status, imm_, bgpc, flushing,
                     compacting, mem_, logfile_number_, last_sequence_>>
      /\ mode = "recover" /\ mode' = "open" /\ rlogs = {} /\ logfile_number_ # NoFile
      /\ tables' = [k \in DOMAIN tables \cap Files(current') |-> tables[k]]
      /\ logs' = [k \in {m \in DOMAIN logs : m >= log_number_'} |-> logs[k]]
  BY DEF FinishOpen, Opening, callVars, queueVars, headVars, memVars
<1>2. /\ ThreadInv /\ group = << >> /\ write_batch = {} /\ status = "ok"
      /\ writers_ = << >> /\ imm_ = None /\ Imm = {} /\ bgpc = "idle" /\ ~Inserting
      /\ \A t \in Threads : pc[t] \notin Writing
  BY <1>1, ClosedFacts
<1>3. PICK v \in Version : v = manifest.version
  BY DEF WritePathInv, FilesInv, FilesPart, FileTypes
<1>4. /\ current = v /\ edit \in EditT /\ edit.del = {} /\ edit.add \subseteq DOMAIN tables
      /\ Files(v) \subseteq DOMAIN tables /\ log_number_ = manifest.log_number
      /\ manifest.log_number \in Nat /\ logfile_number_ \in Nat /\ DOMAIN logs \subseteq Nat
      /\ logfile_number_ \in LogsFrom(manifest.log_number)
  BY <1>1, <1>3, ManifestTables DEF WritePathInv, FilesInv, FilesPart, FileTypes, RecoverInv
<1>5. logfile_number_ \in DOMAIN logs /\ manifest.log_number <= logfile_number_
  BY <1>4 DEF LogsFrom
<1>6. PICK F : F = Files(v) \cup edit.add
  OBVIOUS
<1>7. \/ /\ Files(current') = F /\ Files(manifest'.version) = F
         /\ log_number_' = logfile_number_ /\ manifest'.log_number = logfile_number_
         /\ manifest'.last_sequence = last_sequence_
      \/ /\ Files(current') = F /\ Files(manifest'.version) = F /\ edit.add = {}
         /\ log_number_' = manifest.log_number /\ manifest' = manifest
  <2>1. Opening /\ FilesInv
    BY DEF FinishOpen, WritePathInv
  <2>2. CASE SavesManifest
    <3>1. manifest' = Logged(OpenEdit) /\ current' = Apply(current, OpenEdit) /\ log_number_' = logfile_number_
      BY <2>1, <2>2, AppendsWhole DEF FinishOpen
    <3>2. Files(Apply(current, OpenEdit)) = Files(current) \cup edit.add
      BY <2>1, OpeningFacts
    <3>3. /\ manifest'.version = Apply(v, OpenEdit) /\ manifest'.log_number = logfile_number_
          /\ manifest'.last_sequence = last_sequence_
      BY <1>3, <2>1, <3>1, OpeningFacts DEF Logged
    <3> QED
      BY <1>4, <1>6, <3>1, <3>2, <3>3
  <2>3. CASE ~SavesManifest
    <3>1. UNCHANGED <<manifest, current, log_number_>> /\ edit.add = {}
      BY <2>3 DEF FinishOpen, SavesManifest
    <3> QED
      BY <1>3, <1>4, <1>6, <3>1
  <2> QED
    BY <2>2, <2>3
<1>8. /\ F \subseteq DOMAIN tables /\ DOMAIN tables' = F /\ \A k \in F : tables'[k] = tables[k]
      /\ Files(current') = F /\ Files(manifest'.version) = F
  BY <1>1, <1>4, <1>6, <1>7
<1>9. /\ manifest'.log_number = log_number_' /\ manifest.log_number <= log_number_'
      /\ log_number_' <= logfile_number_ /\ log_number_' \in Nat
  BY <1>4, <1>5, <1>7
<1>10. /\ DOMAIN logs' = {m \in DOMAIN logs : m >= log_number_'}
       /\ \A k \in DOMAIN logs' : /\ logs'[k] = logs[k] /\ LogSet(k)' = LogSet(k)
                                  /\ SyncedSet(k)' = SyncedSet(k)
       /\ DOMAIN logs' \subseteq LogsFrom(manifest.log_number)
       /\ logfile_number_ \in DOMAIN logs'
  <2>1. /\ DOMAIN logs' = {m \in DOMAIN logs : m >= log_number_'}
        /\ \A k \in DOMAIN logs' : logs'[k] = logs[k]
    BY <1>1
  <2>2. \A k \in DOMAIN logs' : LogSet(k)' = LogSet(k) /\ SyncedSet(k)' = SyncedSet(k)
    BY <2>1 DEF LogSet, SyncedSet
  <2>3. DOMAIN logs' \subseteq LogsFrom(manifest.log_number)
    BY <1>4, <1>9, <2>1 DEF LogsFrom
  <2>4. logfile_number_ \in DOMAIN logs'
    BY <1>4, <1>5, <1>9, <2>1
  <2> QED
    BY <2>1, <2>2, <2>3, <2>4
<1>11. PICK T : T = InTables(manifest.version) \cup TableSet(edit.add)
  OBVIOUS
<1>12. /\ InTables(current)' = T /\ InTables(manifest.version)' = T
       /\ TableSet(DOMAIN tables)' = T /\ Imm' = {}
  <2>1. \A e : e \in T <=> \E k \in F : e \in tables[k]
    BY <1>3, <1>6, <1>11 DEF InTables, TableSet
  <2>2. \A e : e \in InTables(current)' <=> \E k \in Files(current') : e \in tables'[k]
    BY DEF InTables, Files
  <2>3. \A e : e \in InTables(manifest.version)' <=> \E k \in Files(manifest'.version) : e \in tables'[k]
    BY DEF InTables, Files
  <2>4. \A e : e \in TableSet(DOMAIN tables)' <=> \E k \in DOMAIN tables' : e \in tables'[k]
    BY DEF TableSet
  <2>5. Imm' = {}
    BY <1>1, <1>2, ImmNoneNext
  <2>6. \A e : e \in T <=> \E k \in F : e \in tables'[k]
    BY <1>8, <2>1
  <2>7. \A e : e \in InTables(current)' <=> e \in T
    BY <1>8, <2>2, <2>6
  <2>8. \A e : e \in InTables(manifest.version)' <=> e \in T
    BY <1>8, <2>3, <2>6
  <2>9. \A e : e \in TableSet(DOMAIN tables)' <=> e \in T
    BY <1>8, <2>4, <2>6
  <2>10. InTables(current)' = T
    BY <2>7
  <2>11. InTables(manifest.version)' = T
    BY <2>8
  <2>12. TableSet(DOMAIN tables)' = T
    BY <2>9
  <2> QED
    BY <2>5, <2>10, <2>11, <2>12
<1>13. /\ \A m \in LogsFrom(manifest.log_number) :
            m # logfile_number_ => LogSet(m) \subseteq TableSet(edit.add)
       /\ LogSet(logfile_number_) = mem_
       /\ \A m \in LogsFrom(manifest.log_number) : m <= logfile_number_
  BY <1>1 DEF DataInv, RecLogInv
<1>14. LogSet(logfile_number_)' = mem_
  <2>1. PICK n : n = logfile_number_
    OBVIOUS
  <2>2. LogSet(n)' = LogSet(n)
    BY <1>10, <2>1
  <2>3. LogSet(logfile_number_)' = LogSet(n)' /\ LogSet(n) = mem_
    BY <1>1, <1>13, <2>1 DEF LogSet
  <2> QED
    BY <2>2, <2>3
<1>15. TableSet(edit.add) \subseteq OnDisk
  BY <1>1 DEF RefInv, ReadInv
<1>16. \A m \in DOMAIN logs : m >= manifest.log_number => m \in LogsFrom(manifest.log_number)
  BY DEF LogsFrom
<1>17. \A e : e \in OnDisk <=> e \in mem_ \cup T
  <2>1. ASSUME NEW m \in DOMAIN logs, m >= manifest.log_number
        PROVE  LogSet(m) \subseteq mem_ \cup T
    BY <1>11, <1>13, <1>16, <2>1
  <2>2. mem_ \subseteq OnDisk
    BY <1>5, <1>4, <1>13, RecoverableIs
  <2>3. InTables(manifest.version) \subseteq OnDisk
    BY RecoverableIs
  <2> QED
    BY <1>11, <1>15, <2>1, <2>2, <2>3, RecoverableIs
<1>18. Served' = mem_ \cup T
  BY <1>1, <1>12 DEF Served
<1>19. \A e : e \in Visible' <=> e \in Visible
  BY <1>1, <1>2, <1>17, <1>18 DEF Visible
<1>20. \A m \in DOMAIN logs : SyncedSet(m) \subseteq LogSet(m)
  BY SyncedPart DEF DataInv
<1>21. \A e \in OnDiskSynced : e \in OnDiskSynced'
  <2>1. ASSUME NEW m \in DOMAIN logs, m >= manifest.log_number, NEW e \in SyncedSet(m)
        PROVE  e \in OnDiskSynced'
    <3>1. CASE m = logfile_number_
      <4>1. m \in DOMAIN logs' /\ m >= manifest'.log_number /\ SyncedSet(m)' = SyncedSet(m)
        BY <1>4, <1>9, <1>10, <3>1
      <4> QED
        BY <2>1, <4>1, SyncedIsNext
    <3>2. CASE m # logfile_number_
      <4>1. e \in T
        BY <1>11, <1>13, <1>16, <1>20, <2>1, <3>2
      <4> QED
        BY <1>12, <4>1, SyncedIsNext
    <3> QED
      BY <3>1, <3>2
  <2>2. \A e \in InTables(manifest.version) : e \in OnDiskSynced'
    BY <1>11, <1>12, SyncedIsNext
  <2> QED
    BY <2>1, <2>2, SyncedIs
<1>22. \A e \in OnDiskSynced' : e \in Visible
  <2>1. ASSUME NEW m \in DOMAIN logs', NEW e \in SyncedSet(m)' PROVE e \in OnDisk
    <3>1. m \in DOMAIN logs /\ m >= manifest.log_number /\ e \in LogSet(m)
      BY <1>10, <1>20, <2>1 DEF LogsFrom
    <3> QED
      BY <3>1, RecoverableIs
  <2>2. \A e \in T : e \in OnDisk
    BY <1>17
  <2>3. \A e \in OnDiskSynced' : e \in OnDisk
    BY <1>12, <2>1, <2>2, SyncedIsNext
  <2> QED
    BY <1>1, <2>3 DEF Visible
<1>23. AbstractStep
  BY <1>1, <1>19, <1>21, <1>22, HardenViews
<1>24. FailedInv'
  BY <1>1, <1>14 DEF FailedInv
<1>25. OldLogInv'
  <2>1. ASSUME NEW m \in DOMAIN logs', m < logfile_number_
        PROVE  LogSet(m)' \subseteq T
    <3>1. m \in LogsFrom(manifest.log_number) /\ m # logfile_number_ /\ LogSet(m)' = LogSet(m)
      BY <1>4, <1>10, <2>1 DEF LogsFrom
    <3> QED
      BY <1>11, <1>13, <3>1
  <2> QED
    BY <1>1, <1>12, <2>1 DEF OldLogInv
<1>26. ServedInv'
  BY <1>12, <1>18 DEF ServedInv
<1>27. ExactInv' /\ ReadInv' /\ NewBatchInv'
  BY <1>1, <1>2 DEF ExactInv, ReadInv, NewBatchInv, Busy, Writing
<1> QED
  BY <1>23, <1>24, <1>25, <1>26, <1>27 DEF RefInv

\* A new DB implements the empty store.
LEMMA RefInit == Init => RefInv /\ Abstract!Init
<1> SUFFICES ASSUME Init PROVE RefInv /\ Abstract!Init
  OBVIOUS
<1>1. /\ calls = << >> /\ write_batch = {} /\ mem_ = {} /\ imm_ = None
      /\ log_number_ = 3 /\ logfile_number_ = 3 /\ bgpc = "idle" /\ mode = "open"
      /\ manifest.version = EmptyVersion /\ pc = [t \in Threads |-> "idle"]
      /\ logs = [n \in {3} |-> EmptyLog]
  BY DEF Init
<1>2. DOMAIN logs = {3} /\ LogSet(3) = {}
  BY <1>1 DEF EmptyLog, LogSet
<1>3. InTables(manifest.version) = {}
  BY <1>1 DEF InTables, Files, EmptyVersion
<1>4. RefInv
  BY <1>1, <1>2, <1>3
     DEF RefInv, FailedInv, OldLogInv, ExactInv, ServedInv, ReadInv, NewBatchInv, Busy
<1>5. Stored = {} /\ Durable = {}
  BY <1>1 DEF Stored, Durable
<1>6. [i \in DOMAIN calls |-> [res |-> calls[i].res, sync |-> calls[i].sync,
                                empty |-> calls[i].count = 0]] = << >>
  BY <1>1
<1> QED
  BY <1>4, <1>5, <1>6 DEF Abstract!Init

\* Every step implements a step of the abstract store, or none.
LEMMA RefNext ==
    ASSUME WholeRecords, RefInv, DataInv, DataInv', WholeInv, WholeInv', WritePathInv, WritePathInv',
           View, View', [Next]_vars
    PROVE  RefInv' /\ AbstractStep
<1>1. ASSUME NEW t \in Threads, NEW k \in 0..MaxCount, NEW s \in BOOLEAN, Enqueue(t, k, s)
      PROVE  RefInv' /\ AbstractStep
  BY <1>1, EnqueueRef
<1>2. ASSUME NEW t \in Threads, Write(t) \/ HeadSwitchFails(t) PROVE RefInv' /\ AbstractStep
  <2>1. CASE Wake(t) \/ HeadDelay(t) \/ HeadWait(t) \/ FlushWait(t)
    BY <2>1, WaitingRef
  <2>2. CASE HeadError(t) \/ HeadSwitchFails(t) \/ (HeadProceeds(t) /\ Batch(t).count = 0)
    BY <2>2, AnsweringRef
  <2>3. CASE HeadSwitch(t)
    BY <2>3, HeadSwitchRef
  <2>4. CASE HeadProceeds(t) /\ Batch(t).count # 0
    BY <2>4, HeadProceedsRef
  <2>5. CASE AddRecord(t)
    BY <2>5, AddRecordRef
  <2>6. CASE SyncLog(t)
    BY <2>6, SyncLogRef
  <2>7. CASE InsertInto(t)
    BY <2>7, InsertIntoRef
  <2>8. CASE FinishWrite(t)
    BY <2>8, FinishWriteRef
  <2> QED
    BY <1>2, <2>1, <2>2, <2>3, <2>4, <2>5, <2>6, <2>7, <2>8 DEF Write
<1>3. CASE Background
  <2>1. CASE BuildTable
    BY <2>1, BuildTableRef
  <2>2. CASE WriteManifest
    BY <2>2, WriteManifestRef
  <2>3. CASE Install
    BY <2>3, InstallRef
  <2>4. CASE RemoveFile
    BY <2>4, RemoveFileRef
  <2>5. CASE OpenCompactionOutputFile
    BY <2>5, OpenCompactionOutputFileRef
  <2>6. CASE FinishCompaction
    BY <2>6, FinishCompactionRef
  <2> QED
    BY <1>3, <2>1, <2>2, <2>3, <2>4, <2>5, <2>6, BackgroundQuietRef DEF Background
<1>4. CASE StartClose \/ UNCHANGED vars
  BY <1>4, BackgroundQuietRef
<1>5. CASE FinishClose
  BY <1>5, FinishCloseRef
<1>6. ASSUME NEW machine \in BOOLEAN, Crash(machine) PROVE RefInv' /\ AbstractStep
  BY <1>6, CrashRef
<1>7. CASE Open
  <2>1. CASE StartRecover
    BY <2>1, StartRecoverRef
  <2>2. CASE RecoverLogFile
    BY <2>2, RecoverLogFileRef
  <2>3. CASE NewLog
    BY <2>3, NewLogRef
  <2>4. CASE FinishOpen
    BY <2>4, FinishOpenRef
  <2> QED
    BY <1>7, <2>1, <2>2, <2>3, <2>4 DEF Open
<1>8. CASE OpenFails
  BY <1>8, OpenFailsRef
<1> QED
  BY <1>1, <1>2, <1>3, <1>4, <1>5, <1>6, <1>7, <1>8 DEF Next

\* The write path implements DurableStore (db.h, options.h), for any number of
\* threads, calls, crashes and failures, as long as nothing is appended behind
\* part of a record (WholeRecords: appends fail whole, and reuse_logs is off
\* where a crash may tear a record): batches appear together, a sync write is
\* durable before it is answered, what is durable stays, and a crash brings back
\* nothing but whole batches that readers saw, that were cut short, or whose
\* sync failed.
THEOREM WritePathImplementsDurableStore ==
    ASSUME WholeRecords
    PROVE  Spec => RefinesDurableStore
<1>1. RefInv /\ DataInv /\ DataInv' /\ WholeInv /\ WholeInv' /\ WritePathInv /\ WritePathInv'
      /\ View /\ View' /\ [Next]_vars => RefInv' /\ [Abstract!Next]_(Abstract!vars)
  BY RefNext DEF AbstractStep
<1>2. Init => RefInv /\ Abstract!Init
  BY RefInit
<1>3. DataInv /\ WholeInv /\ WritePathInv => View
  BY ViewHolds
<1>4. Spec => []View
  BY <1>3, DataInvariant, WritePathInvariant, PTL
<1> QED
  BY <1>1, <1>2, <1>4, DataInvariant, WritePathInvariant, PTL
     DEF Spec, RefinesDurableStore, Abstract!Spec
=============================================================================
