----------------------- MODULE WriteDurabilityProofs ------------------------
(***************************************************************************)
(* Durability of the write path, for any number of threads, calls, crashes *)
(* and failures, where nothing is appended behind part of a record         *)
(* (WholeRecords): what recovery finds, and what a reader sees, at every   *)
(* moment.  The invariant follows each batch through log, memtable and     *)
(* tables as a whole.                                                      *)
(***************************************************************************)
EXTENDS WritePathProofs

\* An entry of a batch, and the sets of entries: in imm_, in a log, in its
\* synced part, in tables.
Entry == [seq: Nat, id: Nat]

Imm == UNION {imm_[i] : i \in DOMAIN imm_}
LogSet(n) == UNION {logs[n].recs[i] : i \in 1..Len(logs[n].recs)}
SyncedSet(n) == UNION {logs[n].recs[i] : i \in 1..logs[n].synced}
TableSet(ns) == UNION {tables[n] : n \in ns}

\* What is on the disk of the manifest's tables and of the logs it does not
\* cover: all of it, and the part a crash of the machine leaves.
OnDisk ==
    InTables(manifest.version)
        \cup UNION {LogSet(n) : n \in {k \in DOMAIN logs : k >= manifest.log_number}}
OnDiskSynced ==
    InTables(manifest.version)
        \cup UNION {SyncedSet(n) : n \in {k \in DOMAIN logs : k >= manifest.log_number}}

\* Every set of entries that is stored together: the memtables, the group's
\* batch, each table, each record of a log.
Records == UNION {{logs[n].recs[i] : i \in 1..Len(logs[n].recs)} : n \in DOMAIN logs}
Units == {Imm, write_batch, mem_ \cup write_batch}
           \cup {tables[n] : n \in DOMAIN tables} \cup Records
Entries == UNION Units

\* U has, of each batch, all that A has of it or nothing.
WholeIn(U, A) == \A x \in U, y \in A : x.id = y.id => y \in U

\* A has, of each batch it has anything of, all its entries; there are some.
CountIn(A, c) ==
    \A e \in A : /\ e.id \in 1..Len(c)
                 /\ Cardinality({x \in A : x.id = e.id}) = c[e.id].count
                 /\ c[e.id].count # 0

\* Later calls have the higher sequence numbers.
Ordered(A) == \A e, f \in A : e.id < f.id => e.seq < f.seq
Bounded(A) == \E b \in Nat : \A e \in A : e.seq <= b

\* A thread is in InsertInto; the call with this number was answered with
\* success and is not the null batch.
Inserting == \E t \in Threads : pc[t] = "insert"
Answered(i) == calls[i].res = "ok" /\ calls[i].count # 0

\* Batches are never torn: not in a log, a table or a memtable, except in mem_
\* while InsertInto runs.
ContentInv ==
    /\ Entries \subseteq Entry
    /\ \A U \in Units : WholeIn(U, Entries)
    /\ Inserting \/ WholeIn(mem_, Entries)
    /\ CountIn(Entries, calls) /\ Ordered(Entries) /\ Bounded(Entries)

\* What is stored belongs to calls older than those in the queue.
OwnInv ==
    \A e \in Entries :
        e \in write_batch \/ \A i \in 1..Len(writers_) : e.id < call[writers_[i]]

LastRecord == logs[logfile_number_].recs[Len(logs[logfile_number_].recs)]

\* The group of the front writer: its entries, their sequence numbers, and how
\* far they are in the log and in mem_ at each point of Write().
BatchInv ==
    /\ \A e \in write_batch : \E i \in 1..Len(group) : e.id = call[group[i]]
    /\ \A i \in 1..Len(group) :
         /\ Batch(group[i]).count # 0 => \E e \in write_batch : e.id = call[group[i]]
         /\ Batch(group[i]).sync => Batch(group[1]).sync
    /\ IsFiniteSet(write_batch)
    /\ \A e \in write_batch :
         last_sequence_ < e.seq /\ e.seq <= last_sequence_ + Cardinality(write_batch)
    /\ status \in {"ok", "sync_error"}
    /\ \A t \in Threads :
         /\ pc[t] \in {"log", "sync", "insert"} => status = "ok" /\ ~(write_batch \subseteq mem_)
         /\ pc[t] = "finish" /\ status = "ok" => write_batch \subseteq mem_
         /\ pc[t] \in {"sync", "insert", "finish"} =>
              Len(logs[logfile_number_].recs) > 0 /\ LastRecord = write_batch
         /\ pc[t] \in {"insert", "finish"} /\ status = "ok" /\ Batch(group[1]).sync =>
              logs[logfile_number_].synced = Len(logs[logfile_number_].recs)

\* last_sequence_ is above everything stored but the batch being written; the
\* manifest's is above its tables; Recover raises it over every log read.
SeqInv ==
    /\ last_sequence_ \in Nat /\ manifest.last_sequence \in Nat
    /\ mode = "open" =>
         /\ \A e \in Entries : e \in write_batch \/ e.seq <= last_sequence_
         /\ \A e \in Imm \cup TableSet(DOMAIN tables) : e.seq <= last_sequence_
         /\ \A n \in DOMAIN logs \ {logfile_number_} : \A e \in LogSet(n) : e.seq <= last_sequence_
    /\ \A e \in InTables(manifest.version) : e.seq <= manifest.last_sequence
    /\ mode # "down" => manifest.last_sequence <= last_sequence_
    /\ mode = "recover" =>
         /\ \A n \in LogsFrom(manifest.log_number) \ rlogs :
              \A e \in LogSet(n) : e.seq <= last_sequence_
         /\ \A e \in TableSet(edit.add) \cup mem_ : e.seq <= last_sequence_

\* The table of a flush holds imm_, that of a compaction its inputs.
FlushInv ==
    /\ flushing # NoFile /\ bgpc \in Busy \cup {"built"} =>
         IF flushing \in DOMAIN tables THEN tables[flushing] = Imm ELSE Imm = {}
    /\ flushing = NoFile /\ bgpc \in Busy => TableSet(Inputs) \subseteq tables[Out]

\* A log is a sequence of records of which a prefix is synced.  Only the last
\* may be torn, by a crash.
DiskInv ==
    \A n \in DOMAIN logs :
        /\ logs[n] \in [recs: Seq(SUBSET Entry), synced: Nat]
        /\ logs[n].synced <= Len(logs[n].recs)
        /\ \A i \in 1..Len(logs[n].recs) : logs[n].recs[i] = {} =>
             i = Len(logs[n].recs) /\ logs[n].synced < i /\ "tear" \in Faults

\* The manifest is readable to its end but for a record torn by a crash, and
\* an open DB has replaced such a manifest; the log in use has no torn record.
WholeInv ==
    /\ manifest.torn \in {"no", "tail"}
    /\ manifest.torn # "no" => mode # "open" /\ "tear" \in Faults
    /\ logfile_number_ # NoFile =>
         \A i \in 1..Len(logs[logfile_number_].recs) : logs[logfile_number_].recs[i] # {}

\* While the DB is open an answered entry of an older log the version still
\* needs is in imm_ or in a table, and one of the log in use is in mem_.
LogInv ==
    mode = "open" =>
        /\ \A n \in DOMAIN logs : n <= logfile_number_
        /\ \A n \in DOMAIN logs : log_number_ <= n /\ n < logfile_number_ =>
             \A e \in LogSet(n) : Answered(e.id) => e \in Imm \cup InTables(manifest.version)
        /\ \A e \in LogSet(logfile_number_) : Answered(e.id) => e \in mem_

\* During Recover the logs read, oldest first, are in tables, and a log that is
\* reused is the memtable.
RecLogInv ==
    mode # "open" =>
        /\ mode = "down" \/ logfile_number_ = NoFile => mem_ = {}
        /\ mode = "recover" =>
             /\ \A m \in LogsFrom(manifest.log_number) \ rlogs :
                  /\ \A k \in rlogs : m < k
                  /\ m # logfile_number_ => LogSet(m) \subseteq TableSet(edit.add)
             /\ logfile_number_ # NoFile =>
                  /\ LogSet(logfile_number_) = mem_
                  /\ \A m \in LogsFrom(manifest.log_number) : m <= logfile_number_

\* What a reader may see, and the answers so far: recovery finds them, after a
\* crash of the machine too if they asked for sync, and an open DB serves them.
Served == mem_ \cup Imm \cup InTables(current)

AnswerInv ==
    \A i \in 1..Len(calls) :
        /\ calls[i].sync => calls[i].count # 0
        /\ Answered(i) =>
             /\ \E e \in OnDisk : e.id = i
             /\ calls[i].sync => \E e \in OnDiskSynced : e.id = i
             /\ mode = "open" => \E e \in Served : e.id = i

\* The inductive invariant on the data.
DataInv ==
    /\ ContentInv /\ OwnInv /\ BatchInv /\ SeqInv /\ FlushInv
    /\ DiskInv /\ LogInv /\ RecLogInv /\ AnswerInv

\* Where recovery looks: the manifest's tables and the logs it does not cover.
LEMMA RecoverableIs ==
    \A e : e \in OnDisk <=>
             \/ e \in InTables(manifest.version)
             \/ \E n \in DOMAIN logs : n >= manifest.log_number /\ e \in LogSet(n)
  BY DEF OnDisk, LogSet

\* The same after a crash of the machine.
LEMMA SyncedIs ==
    \A e : e \in OnDiskSynced <=>
             \/ e \in InTables(manifest.version)
             \/ \E n \in DOMAIN logs : n >= manifest.log_number /\ e \in SyncedSet(n)
  BY DEF OnDiskSynced, SyncedSet

\* The same in the next state.
LEMMA RecoverableIsNext ==
    \A e : e \in OnDisk' <=>
             \/ e \in InTables(manifest.version)'
             \/ \E n \in DOMAIN logs' : n >= manifest'.log_number /\ e \in LogSet(n)'
  BY DEF OnDisk, LogSet

\* The same in the next state.
LEMMA SyncedIsNext ==
    \A e : e \in OnDiskSynced' <=>
             \/ e \in InTables(manifest.version)'
             \/ \E n \in DOMAIN logs' : n >= manifest'.log_number /\ e \in SyncedSet(n)'
  BY DEF OnDiskSynced, SyncedSet

\* What is stored together.
LEMMA UnitsIs ==
    \A U : U \in Units <=>
             \/ U = Imm \/ U = write_batch \/ U = mem_ \cup write_batch
             \/ \E n \in DOMAIN tables : U = tables[n]
             \/ \E n \in DOMAIN logs : \E i \in 1..Len(logs[n].recs) : U = logs[n].recs[i]
  BY DEF Units, Records

\* The same in the next state.
LEMMA UnitsIsNext ==
    \A U : U \in Units' <=>
             \/ U = Imm' \/ U = write_batch' \/ U = mem_' \cup write_batch'
             \/ \E n \in DOMAIN tables' : U = tables'[n]
             \/ \E n \in DOMAIN logs' : \E i \in 1..Len(logs'[n].recs) : U = logs'[n].recs[i]
  BY DEF Units, Records

\* What is stored at all.
LEMMA EntriesIs ==
    \A e : e \in Entries <=>
             \/ e \in Imm \/ e \in write_batch \/ e \in mem_
             \/ \E n \in DOMAIN tables : e \in tables[n]
             \/ \E n \in DOMAIN logs : e \in LogSet(n)
<1> SUFFICES ASSUME NEW e
             PROVE  e \in Entries <=>
             \/ e \in Imm \/ e \in write_batch \/ e \in mem_
             \/ \E n \in DOMAIN tables : e \in tables[n]
             \/ \E n \in DOMAIN logs : e \in LogSet(n)
  OBVIOUS
<1>1. e \in Entries <=> \E U \in Units : e \in U
  BY DEF Entries
<1>2. \A n : e \in LogSet(n) <=> \E i \in 1..Len(logs[n].recs) : e \in logs[n].recs[i]
  BY DEF LogSet
<1>3. ASSUME NEW U \in Units, e \in U
      PROVE  \/ e \in Imm \/ e \in write_batch \/ e \in mem_
             \/ \E n \in DOMAIN tables : e \in tables[n]
             \/ \E n \in DOMAIN logs : e \in LogSet(n)
  <2>1. \/ U = Imm \/ U = write_batch \/ U = mem_ \cup write_batch
        \/ \E n \in DOMAIN tables : U = tables[n]
        \/ \E n \in DOMAIN logs : \E i \in 1..Len(logs[n].recs) : U = logs[n].recs[i]
    BY UnitsIs
  <2> QED
    BY <1>2, <1>3, <2>1
<1>4. /\ Imm \in Units /\ write_batch \in Units
      /\ mem_ \cup write_batch \in Units
      /\ \A n \in DOMAIN tables : tables[n] \in Units
      /\ \A n \in DOMAIN logs : \A i \in 1..Len(logs[n].recs) : logs[n].recs[i] \in Units
  BY UnitsIs
<1>5. ASSUME NEW n \in DOMAIN logs, e \in LogSet(n) PROVE \E U \in Units : e \in U
  BY <1>2, <1>4, <1>5
<1>6. e \in mem_ => e \in mem_ \cup write_batch
  OBVIOUS
<1> QED
  BY <1>1, <1>3, <1>4, <1>5, <1>6

\* The same in the next state.
LEMMA EntriesIsNext ==
    \A e : e \in Entries' <=>
             \/ e \in Imm' \/ e \in write_batch' \/ e \in mem_'
             \/ \E n \in DOMAIN tables' : e \in tables'[n]
             \/ \E n \in DOMAIN logs' : e \in LogSet(n)'
<1> SUFFICES ASSUME NEW e
             PROVE  e \in Entries' <=>
             \/ e \in Imm' \/ e \in write_batch' \/ e \in mem_'
             \/ \E n \in DOMAIN tables' : e \in tables'[n]
             \/ \E n \in DOMAIN logs' : e \in LogSet(n)'
  OBVIOUS
<1>1. e \in Entries' <=> \E U \in Units' : e \in U
  BY DEF Entries
<1>2. \A n : e \in LogSet(n)' <=> \E i \in 1..Len(logs'[n].recs) : e \in logs'[n].recs[i]
  BY DEF LogSet
<1>3. ASSUME NEW U \in Units', e \in U
      PROVE  \/ e \in Imm' \/ e \in write_batch' \/ e \in mem_'
             \/ \E n \in DOMAIN tables' : e \in tables'[n]
             \/ \E n \in DOMAIN logs' : e \in LogSet(n)'
  <2>1. \/ U = Imm' \/ U = write_batch' \/ U = mem_' \cup write_batch'
        \/ \E n \in DOMAIN tables' : U = tables'[n]
        \/ \E n \in DOMAIN logs' : \E i \in 1..Len(logs'[n].recs) : U = logs'[n].recs[i]
    BY UnitsIsNext
  <2> QED
    BY <1>2, <1>3, <2>1
<1>4. /\ Imm' \in Units' /\ write_batch' \in Units'
      /\ mem_' \cup write_batch' \in Units'
      /\ \A n \in DOMAIN tables' : tables'[n] \in Units'
      /\ \A n \in DOMAIN logs' : \A i \in 1..Len(logs'[n].recs) : logs'[n].recs[i] \in Units'
  BY UnitsIsNext
<1>5. ASSUME NEW n \in DOMAIN logs', e \in LogSet(n)' PROVE \E U \in Units' : e \in U
  BY <1>2, <1>4, <1>5
<1>6. e \in mem_' => e \in mem_' \cup write_batch'
  OBVIOUS
<1> QED
  BY <1>1, <1>3, <1>4, <1>5, <1>6

\* No old memtable, no entries in it.
LEMMA ImmNone == imm_ = None => Imm = {}
  BY DEF Imm, None

\* The entries of the old memtable.
LEMMA ImmSome == ASSUME NEW m, imm_ = <<m>> PROVE Imm = m
  BY DEF Imm

\* The same in the next state.
LEMMA ImmNoneNext == imm_' = None => Imm' = {}
  BY DEF Imm, None

\* The same in the next state.
LEMMA ImmSomeNext == ASSUME NEW m, imm_' = <<m>> PROVE Imm' = m
  BY DEF Imm

\* Merging sets of whole batches tears none.
LEMMA WholeUnion ==
    ASSUME NEW A, NEW S, \A U \in S : WholeIn(U, A)
    PROVE  WholeIn(UNION S, A)
  BY DEF WholeIn

\* Nor does merging two.
LEMMA WholeCup ==
    ASSUME NEW A, NEW U, NEW V, WholeIn(U, A), WholeIn(V, A)
    PROVE  WholeIn(U \cup V, A)
  BY DEF WholeIn

\* Nothing is torn in an empty set.
LEMMA WholeEmpty == ASSUME NEW A PROVE WholeIn({}, A)
  BY DEF WholeIn

\* Nor by removing others.
LEMMA WholeFewer ==
    ASSUME NEW A, NEW B, B \subseteq A, NEW U, WholeIn(U, A) PROVE WholeIn(U, B)
  BY DEF WholeIn

\* The calls so far are the same but for their answers.
SameCalls ==
    /\ Len(calls) <= Len(calls')
    /\ \A i \in 1..Len(calls) :
         calls'[i].count = calls[i].count /\ calls'[i].sync = calls[i].sync

(* Nothing is written: every unit of the new state is made of whole units of the old one. *)
LEMMA ContentKept ==
    ASSUME ContentInv, ThreadInv, ThreadInv', SameCalls,
           \A U \in Units' : U \subseteq Entries /\ WholeIn(U, Entries),
           Inserting' \/ WholeIn(mem_', Entries)
    PROVE  ContentInv' /\ Entries' \subseteq Entries
<1>1. Entries' \subseteq Entries
  BY DEF Entries
<1>2. \A U \in Units' : WholeIn(U, Entries')
  BY <1>1, WholeFewer
<1>3. Inserting' \/ WholeIn(mem_', Entries')
  BY <1>1, WholeFewer
<1>4. ASSUME NEW e \in Entries'
      PROVE  /\ e.id \in 1..Len(calls')
             /\ Cardinality({x \in Entries' : x.id = e.id}) = calls'[e.id].count
             /\ calls'[e.id].count # 0
  <2>1. PICK U \in Units' : e \in U
    BY DEF Entries
  <2>2. U \subseteq Entries' /\ U \subseteq Entries /\ WholeIn(U, Entries)
    BY <2>1 DEF Entries
  <2>3. {x \in Entries' : x.id = e.id} = {x \in Entries : x.id = e.id}
    BY <1>1, <2>1, <2>2 DEF WholeIn
  <2>4. /\ e.id \in 1..Len(calls) /\ calls[e.id].count # 0
        /\ Cardinality({x \in Entries : x.id = e.id}) = calls[e.id].count
    BY <1>1 DEF ContentInv, CountIn
  <2>5. Len(calls) \in Nat /\ Len(calls') \in Nat
    BY DEF ThreadInv, ThreadTypes
  <2>6. 1..Len(calls) \subseteq 1..Len(calls')
    BY <2>5 DEF SameCalls
  <2>7. calls'[e.id].count = calls[e.id].count
    BY <2>4 DEF SameCalls
  <2> QED
    BY <2>3, <2>4, <2>6, <2>7
<1>5. Ordered(Entries') /\ Entries' \subseteq Entry
  BY <1>1 DEF ContentInv, Ordered
<1>6. Bounded(Entries')
  BY <1>1 DEF ContentInv, Bounded
<1> QED
  BY <1>1, <1>2, <1>3, <1>4, <1>5, <1>6 DEF ContentInv, CountIn

\* Steps that write nothing keep the batches whole.
LEMMA ContentFrame ==
    ASSUME ContentInv, ThreadInv, ThreadInv', SameCalls,
           UNCHANGED <<mem_, imm_, write_batch, tables, logs>>, Inserting => Inserting'
    PROVE  ContentInv' /\ Entries' = Entries
<1>1. Units' = Units
  BY DEF Units, Imm, Records
<1>2. \A U \in Units' : U \subseteq Entries /\ WholeIn(U, Entries)
  BY <1>1 DEF ContentInv, Entries
<1>3. Inserting' \/ WholeIn(mem_', Entries)
  BY DEF ContentInv
<1>4. ContentInv'
  BY <1>2, <1>3, ContentKept
<1> QED
  BY <1>1, <1>4 DEF Entries

\* Steps that write nothing and let nobody overtake keep OwnInv.
LEMMA OwnFrame ==
    ASSUME OwnInv, Entries' \subseteq Entries, write_batch' = write_batch,
           \A i \in 1..Len(writers_') :
              \/ \E j \in 1..Len(writers_) : call'[writers_'[i]] = call[writers_[j]]
              \/ \A e \in Entries : e.id < call'[writers_'[i]]
    PROVE  OwnInv'
<1> SUFFICES ASSUME NEW e \in Entries', e \notin write_batch, NEW i \in 1..Len(writers_')
             PROVE  e.id < call'[writers_'[i]]
  BY DEF OwnInv
<1>1. \A j \in 1..Len(writers_) : e.id < call[writers_[j]]
  BY DEF OwnInv
<1> QED
  BY <1>1

\* This step answers no batch with success.
NoNewAnswers ==
    \A i \in 1..Len(calls') : Answered(i)' => i \in 1..Len(calls) /\ Answered(i)

\* Only TEST_CompactMemTable passes a null batch, and without sync.
SyncHasEntries == \A i \in 1..Len(calls) : calls[i].sync => calls[i].count # 0

(* An answered call keeps an entry where it had one. *)
LEMMA AnswersKept ==
    ASSUME AnswerInv, SameCalls, NoNewAnswers, SyncHasEntries',
           \A i \in 1..Len(calls) : Answered(i) =>
              /\ \E e \in OnDisk' : e.id = i
              /\ (\E e \in OnDiskSynced : e.id = i) => \E e \in OnDiskSynced' : e.id = i
              /\ mode' = "open" => \E e \in Served' : e.id = i
    PROVE  AnswerInv'
<1> SUFFICES ASSUME NEW i \in 1..Len(calls'), Answered(i)'
             PROVE  /\ \E e \in OnDisk' : e.id = i
                    /\ calls'[i].sync => \E e \in OnDiskSynced' : e.id = i
                    /\ mode' = "open" => \E e \in Served' : e.id = i
  BY DEF AnswerInv, SyncHasEntries
<1>1. i \in 1..Len(calls) /\ Answered(i)
  BY DEF NoNewAnswers
<1>2. calls'[i].sync = calls[i].sync
  BY <1>1 DEF SameCalls
<1>3. calls[i].sync => \E e \in OnDiskSynced : e.id = i
  BY <1>1 DEF AnswerInv
<1> QED
  BY <1>1, <1>2, <1>3

LEMMA SyncKept ==
    ASSUME AnswerInv, SameCalls, Len(calls') = Len(calls)
    PROVE  SyncHasEntries'
  BY DEF AnswerInv, SameCalls, SyncHasEntries

\* The group's members are the front of the queue, unanswered.
LEMMA GroupCalls ==
    ASSUME ThreadInv, NEW i \in 1..Len(group)
    PROVE  /\ i \in 1..Len(writers_) /\ group[i] = writers_[i] /\ group[i] \in Threads
           /\ call[group[i]] \in 1..Len(calls) /\ call[group[i]] \in Nat
           /\ Batch(group[i]).res = "pending" /\ group[1] = writers_[1]
           /\ \E j \in 1..Len(writers_) : group[i] = writers_[j]
<1>1. /\ group \in Seq(Threads) /\ Len(group) \in Nat /\ group # << >>
      /\ writers_ \in Seq(Threads) /\ Len(writers_) \in Nat
      /\ calls \in Seq(CallT) /\ Len(calls) \in Nat
      /\ call \in [Threads -> Nat] /\ \A u \in Threads : call[u] <= Len(calls)
  BY DEF ThreadInv, ThreadTypes, GroupInv
<1>2. /\ 1 <= Len(group) /\ Len(group) <= Len(writers_)
      /\ \A j \in 1..Len(group) : group[j] = writers_[j]
  BY <1>1 DEF ThreadInv, GroupInv
<1>3. i \in 1..Len(writers_) /\ group[i] = writers_[i] /\ group[i] \in Threads /\ group[1] = writers_[1]
  BY <1>1, <1>2
<1>4. call[writers_[i]] > 0 /\ Batch(writers_[i]).res = "pending"
  BY <1>3 DEF ThreadInv, QueueInv
<1> QED
  BY <1>1, <1>3, <1>4

(* Nothing happens to the data: at most calls are added, or answered with an error or with
   nothing to write. *)
quietVars == <<group, write_batch, status, mem_, imm_, logs, tables, manifest, last_sequence_,
               mode, logfile_number_, log_number_, current, rlogs>>

\* Such a step keeps everything about the data but FlushInv.
LEMMA QuietKept ==
    ASSUME DataInv, WritePathInv, WritePathInv', UNCHANGED quietVars,
           mode = "open" \/ edit' = edit, SameCalls, NoNewAnswers, SyncHasEntries',
           \A i \in 1..Len(writers_') :
              \/ \E j \in 1..Len(writers_) : call'[writers_'[i]] = call[writers_[j]]
              \/ \A e \in Entries : e.id < call'[writers_'[i]],
           \A i \in 1..Len(group) :
              call'[group[i]] = call[group[i]] /\ call[group[i]] \in 1..Len(calls),
           \A t \in Threads : pc[t] \in Writing \/ pc'[t] \in Writing => pc'[t] = pc[t]
    PROVE  /\ ContentInv' /\ OwnInv' /\ BatchInv' /\ SeqInv' /\ DiskInv' /\ LogInv'
           /\ RecLogInv' /\ AnswerInv'
<1> USE DEF quietVars
<1>0. ThreadInv /\ ThreadInv' /\ (mode = "open" => logfile_number_ \in DOMAIN logs)
  BY DEF WritePathInv, FilesInv, FilesPart, OpenInv
<1>1. Inserting <=> Inserting'
  BY DEF Inserting, Writing
<1>2. ContentInv' /\ Entries' = Entries
  BY <1>0, <1>1, ContentFrame DEF DataInv
<1>3. OwnInv'
  BY <1>2, OwnFrame DEF DataInv
<1>4. BatchInv'
  <2>1. \A i \in 1..Len(group) : /\ call'[group[i]] = call[group[i]]
                                 /\ calls'[call[group[i]]].count = calls[call[group[i]]].count
                                 /\ calls'[call[group[i]]].sync = calls[call[group[i]]].sync
    BY DEF SameCalls
  <2>2. \A t \in Threads : pc'[t] \in {"log", "sync", "insert", "finish"} =>
           pc[t] = pc'[t] /\ 1 \in 1..Len(group)
    <3>1. \A t \in Threads : pc[t] \in Writing => 1 <= Len(group) /\ Len(group) \in Nat
      BY <1>0 DEF ThreadInv, GroupInv
    <3> QED
      BY <3>1 DEF Writing
  <2>3. 1 \in 1..Len(group) \/ \A i \in 1..Len(group) : FALSE
    BY <1>0 DEF ThreadInv, GroupInv
  <2> QED
    BY <2>1, <2>2, <2>3, SMTT(30) DEF DataInv, BatchInv, Batch, LastRecord
<1>5. SeqInv'
  <2>1. /\ Imm' = Imm /\ TableSet(DOMAIN tables)' = TableSet(DOMAIN tables)
        /\ InTables(manifest.version)' = InTables(manifest.version)
        /\ LogsFrom(manifest.log_number)' = LogsFrom(manifest.log_number)
    BY DEF Imm, TableSet, InTables, LogsFrom, Files
  <2>2. \A n : LogSet(n)' = LogSet(n)
    BY DEF LogSet
  <2>3. mode = "recover" => TableSet(edit.add)' = TableSet(edit.add)
    BY DEF TableSet
  <2> QED
    BY <1>2, <2>1, <2>2, <2>3 DEF DataInv, SeqInv
<1>6. DiskInv'
  BY DEF DataInv, DiskInv
<1>7. \A e \in Entries : Answered(e.id)' => Answered(e.id)
  <2>1. TAKE e \in Entries
  <2>2. e.id \in 1..Len(calls')
    BY <1>2 DEF ContentInv, CountIn
  <2> QED
    BY <2>2 DEF NoNewAnswers
<1>8. LogInv'
  <2>1. /\ Imm' = Imm /\ InTables(manifest.version)' = InTables(manifest.version)
    BY DEF Imm, InTables, Files
  <2>2. \A n : LogSet(n)' = LogSet(n)
    BY DEF LogSet
  <2>4. \A n \in DOMAIN logs : \A e \in LogSet(n) : Answered(e.id)' => Answered(e.id)
    BY <1>7, EntriesIs
  <2> QED
    BY <1>0, <2>1, <2>2, <2>4 DEF DataInv, LogInv
<1>9. RecLogInv'
  <2>1. \A n : LogSet(n)' = LogSet(n)
    BY DEF LogSet
  <2>2. mode = "recover" => TableSet(edit.add)' = TableSet(edit.add)
    BY DEF TableSet
  <2>3. LogsFrom(manifest.log_number)' = LogsFrom(manifest.log_number)
    BY DEF LogsFrom
  <2> QED
    BY <2>1, <2>2, <2>3 DEF DataInv, RecLogInv
<1>10. AnswerInv'
  <2>1. InTables(manifest.version)' = InTables(manifest.version)
    BY DEF InTables, Files
  <2>2. \A n : LogSet(n)' = LogSet(n) /\ SyncedSet(n)' = SyncedSet(n)
    BY DEF LogSet, SyncedSet
  <2>3. OnDisk' = OnDisk /\ OnDiskSynced' = OnDiskSynced
    BY <2>1, <2>2, RecoverableIs, RecoverableIsNext, SyncedIs, SyncedIsNext
  <2>4. Served' = Served
    BY DEF Served, Imm, InTables, Files
  <2>5. \A i \in 1..Len(calls) : Answered(i) =>
           /\ \E e \in OnDisk' : e.id = i
           /\ (\E e \in OnDiskSynced : e.id = i) => \E e \in OnDiskSynced' : e.id = i
           /\ mode' = "open" => \E e \in Served' : e.id = i
    BY <2>3, <2>4 DEF DataInv, AnswerInv
  <2>6. AnswerInv
    BY DEF DataInv
  <2> QED
    BY <2>5, <2>6, AnswersKept
<1> QED
  BY <1>2, <1>3, <1>4, <1>5, <1>6, <1>8, <1>9, <1>10

(* A writer alone at the front of the queue is answered with an error, or had nothing to
   write. *)
LEMMA LoneAnswer ==
    ASSUME DataInv, WritePathInv, WritePathInv', NEW t \in Threads, pc[t] = "head",
           NEW res \in {"error", "ok"}, AnswerGroup(t, <<t>>, res),
           res = "ok" => Batch(t).count = 0, UNCHANGED <<call, quietVars, edit>>,
           pc'[t] \notin Writing, \A u \in Threads \ {t} : pc'[u] = pc[u]
    PROVE  /\ ContentInv' /\ OwnInv' /\ BatchInv' /\ SeqInv' /\ DiskInv' /\ LogInv'
           /\ RecLogInv' /\ AnswerInv'
<1>1. ThreadInv
  BY DEF WritePathInv
<1>2. /\ group = << >> /\ IsFront(<<t>>) /\ writers_[1] = t /\ res \in Results
      /\ pc[t] \in Active
  BY <1>1, FrontAtHead DEF Results, Active
<1>30. Len(calls) \in Nat /\ Len(writers_) \in Nat
  BY <1>1 DEF ThreadInv, ThreadTypes
<1>3. /\ Len(calls') = Len(calls)
      /\ \A i \in 1..Len(calls) :
           /\ calls'[i].count = calls[i].count /\ calls'[i].sync = calls[i].sync
           /\ (\E k \in 1..Len(<<t>>) : i = call[writers_[k]]) => calls'[i].res = res
           /\ ~(\E k \in 1..Len(<<t>>) : i = call[writers_[k]]) => calls'[i] = calls[i]
      /\ Len(writers_') = Len(writers_) - Len(<<t>>)
      /\ \A i \in 1..Len(writers_') : writers_'[i] = writers_[i + Len(<<t>>)]
  <2> DEFINE g == <<t>>
  <2>1. IsFront(g) /\ AnswerGroup(t, g, res)
    BY <1>2
  <2> HIDE DEF g
  <2>2. /\ Len(calls') = Len(calls)
        /\ \A i \in 1..Len(calls) :
           /\ calls'[i].count = calls[i].count /\ calls'[i].sync = calls[i].sync
           /\ (\E k \in 1..Len(g) : i = call[writers_[k]]) => calls'[i].res = res
           /\ ~(\E k \in 1..Len(g) : i = call[writers_[k]]) => calls'[i] = calls[i]
        /\ Len(writers_') = Len(writers_) - Len(g)
        /\ \A i \in 1..Len(writers_') : writers_'[i] = writers_[i + Len(g)]
    <3>1. pc[t] \in Active /\ res \in Results
      BY <1>2
    <3> QED
      BY <1>1, <2>1, <3>1, AnswerGroupEffect
  <2> QED
    BY <2>2 DEF g
<1>4. Len(<<t>>) = 1 /\ \A i : i \in 1..1 <=> i = 1
  OBVIOUS
<1>5. SameCalls
  BY <1>3, <1>30 DEF SameCalls
<1>6. NoNewAnswers
  <2> SUFFICES ASSUME NEW i \in 1..Len(calls'), Answered(i)'
               PROVE  i \in 1..Len(calls) /\ Answered(i)
    BY DEF NoNewAnswers
  <2>1. calls'[i].res = "ok" /\ calls'[i].count # 0 /\ i \in 1..Len(calls)
    BY <1>3 DEF Answered
  <2>2. CASE i = call[t]
    <3>1. calls'[i].res = res /\ calls'[i].count = Batch(t).count
      BY <1>2, <1>3, <1>4, <2>1, <2>2 DEF Batch
    <3> QED
      BY <2>1, <3>1
  <2>3. CASE i # call[t]
    <3>1. calls'[i] = calls[i]
      BY <1>2, <1>3, <1>4, <2>1, <2>3
    <3> QED
      BY <2>1, <3>1 DEF Answered
  <2> QED
    BY <2>2, <2>3
<1>7. SyncHasEntries'
  BY <1>3, <1>5, SyncKept DEF DataInv
<1>8. \A i \in 1..Len(writers_') : \E j \in 1..Len(writers_) : call'[writers_'[i]] = call[writers_[j]]
  <2>1. TAKE i \in 1..Len(writers_')
  <2>2. i + 1 \in 1..Len(writers_) /\ writers_'[i] = writers_[i + 1]
    BY <1>3, <1>30, <1>4
  <2> QED
    BY <2>2
<1>9. \A u \in Threads : pc[u] \in Writing \/ pc'[u] \in Writing => pc'[u] = pc[u]
  BY DEF Writing
<1>10. \A i \in 1..Len(group) : call'[group[i]] = call[group[i]] /\ call[group[i]] \in 1..Len(calls)
  BY <1>2
<1> QED
  BY <1>5, <1>6, <1>7, <1>8, <1>9, <1>10, QuietKept

\* Steps that neither build nor install a table keep FlushInv.
LEMMA FlushFrame ==
    ASSUME FlushInv, UNCHANGED <<tables, imm_>>,
           \/ UNCHANGED <<flushing, compacting>> /\ (bgpc' = bgpc \/ {bgpc, bgpc'} \subseteq Busy)
           \/ bgpc' \notin Busy \cup {"built"}
    PROVE  FlushInv'
  BY DEF FlushInv, Imm, TableSet, Inputs, Out

\* Moves of threads that are not writing keep the data.
LEMMA QuietThread ==
    ASSUME DataInv, WritePathInv, WritePathInv', UNCHANGED quietVars,
           UNCHANGED <<calls, call, writers_>>,
           mode = "open" \/ edit' = edit,
           \A t \in Threads : pc[t] \in Writing \/ pc'[t] \in Writing => pc'[t] = pc[t]
    PROVE  /\ ContentInv' /\ OwnInv' /\ BatchInv' /\ SeqInv' /\ DiskInv' /\ LogInv'
           /\ RecLogInv' /\ AnswerInv'
<1>1. SameCalls
  BY DEF SameCalls, WritePathInv, ThreadInv, ThreadTypes
<1>2. NoNewAnswers
  BY DEF NoNewAnswers, Answered
<1>3. SyncHasEntries'
  BY <1>1, SyncKept DEF DataInv
<1>4. \A i \in 1..Len(writers_') : \E j \in 1..Len(writers_) : call'[writers_'[i]] = call[writers_[j]]
  OBVIOUS
<1>5. ASSUME NEW i \in 1..Len(group)
      PROVE  call'[group[i]] = call[group[i]] /\ call[group[i]] \in 1..Len(calls)
  BY GroupCalls DEF WritePathInv
<1> QED
  BY <1>1, <1>2, <1>3, <1>4, <1>5, QuietKept

\* Joining the queue keeps the data: the new call is the youngest.
LEMMA EnqueueData ==
    ASSUME DataInv, WritePathInv, WritePathInv', NEW t \in Threads, NEW k \in 0..MaxCount,
           NEW s \in BOOLEAN, Enqueue(t, k, s)
    PROVE  DataInv'
<1> DEFINE c == [count |-> k, sync |-> s, res |-> "pending"]
<1>1. /\ UNCHANGED <<quietVars, edit, tables, imm_, flushing, bgpc, compacting>>
      /\ calls' = Append(calls, c) /\ writers_' = Append(writers_, t)
      /\ call' = [call EXCEPT ![t] = Len(calls) + 1] /\ pc[t] = "idle" /\ (k = 0 => ~s)
  BY DEF Enqueue, quietVars, memVars, versionVars, bgVars, openVars, diskVars
<1>2. pc'[t] \in {"head", "cvwait"} /\ \A u \in Threads \ {t} : pc'[u] = pc[u]
  BY DEF Enqueue, WritePathInv, ThreadInv, ThreadTypes
<1>3. /\ calls \in Seq(CallT) /\ writers_ \in Seq(Threads) /\ call \in [Threads -> Nat]
      /\ group \in Seq(Threads) /\ Len(calls) \in Nat /\ Len(writers_) \in Nat
      /\ \A i \in 1..Len(writers_) : writers_[i] # t /\ writers_[i] \in Threads
  <2>1. /\ calls \in Seq(CallT) /\ writers_ \in Seq(Threads) /\ call \in [Threads -> Nat]
        /\ group \in Seq(Threads)
    BY DEF WritePathInv, ThreadInv, ThreadTypes, GroupInv
  <2>2. \A i \in 1..Len(writers_) : pc[writers_[i]] # "idle"
    BY DEF WritePathInv, ThreadInv, QueueInv, Active
  <2>3. \A i \in 1..Len(writers_) : writers_[i] # t /\ writers_[i] \in Threads
    <3>1. pc[t] = "idle"
      BY <1>1
    <3>2. \A i \in 1..Len(writers_) : writers_[i] \in Threads
      BY <2>1
    <3> QED
      BY <2>2, <3>1, <3>2
  <2> QED
    BY <2>1, <2>3
<1>4. /\ Len(calls') = Len(calls) + 1 /\ \A i \in 1..Len(calls) : calls'[i] = calls[i]
      /\ calls'[Len(calls) + 1] = c
  BY <1>1, <1>3, AppendProperties DEF CallT, Results
<1>5. /\ Len(writers_') = Len(writers_) + 1
      /\ \A i \in 1..Len(writers_) : writers_'[i] = writers_[i]
      /\ writers_'[Len(writers_) + 1] = t
  BY <1>1, <1>3, AppendProperties
<1>6. SameCalls
  BY <1>3, <1>4 DEF SameCalls
<1>7. \A i \in 1..Len(calls') : i \in 1..Len(calls) \/ i = Len(calls) + 1
  BY <1>3, <1>4
<1>8. NoNewAnswers
  BY <1>4, <1>7 DEF NoNewAnswers, Answered
<1>9. SyncHasEntries'
  <2>1. \A i \in 1..Len(calls) : calls[i].sync => calls[i].count # 0
    BY DEF DataInv, AnswerInv
  <2> QED
    BY <1>1, <1>4, <1>7, <2>1 DEF SyncHasEntries
<1>10. \A i \in 1..Len(writers_') :
          \/ \E j \in 1..Len(writers_) : call'[writers_'[i]] = call[writers_[j]]
          \/ \A e \in Entries : e.id < call'[writers_'[i]]
  <2>1. TAKE i \in 1..Len(writers_')
  <2>2. CASE i \in 1..Len(writers_)
    BY <1>1, <1>3, <1>5, <2>2
  <2>3. CASE i = Len(writers_) + 1
    <3>1. call'[writers_'[i]] = Len(calls) + 1
      BY <1>1, <1>3, <1>5, <2>3
    <3>2. \A e \in Entries : e.id \in 1..Len(calls)
      BY DEF DataInv, ContentInv, CountIn
    <3> QED
      BY <1>3, <3>1, <3>2
  <2> QED
    BY <1>3, <1>5, <2>2, <2>3
<1>11. ASSUME NEW i \in 1..Len(group)
       PROVE  call'[group[i]] = call[group[i]] /\ call[group[i]] \in 1..Len(calls)
  <2>1. /\ call[group[i]] \in 1..Len(calls) /\ group[i] \in Threads
        /\ \E j \in 1..Len(writers_) : group[i] = writers_[j]
    BY GroupCalls DEF WritePathInv
  <2> QED
    BY <1>1, <1>3, <2>1
<1>12. \A u \in Threads : pc[u] \in Writing \/ pc'[u] \in Writing => pc'[u] = pc[u]
  BY <1>1, <1>2 DEF Writing
<1>13. UNCHANGED quietVars /\ edit' = edit
  BY <1>1
<1>14. /\ ContentInv' /\ OwnInv' /\ BatchInv' /\ SeqInv' /\ DiskInv' /\ LogInv'
       /\ RecLogInv' /\ AnswerInv'
  BY <1>6, <1>8, <1>9, <1>10, <1>11, <1>12, <1>13, QuietKept
<1>15. FlushInv'
  BY <1>1, FlushFrame DEF DataInv
<1> QED
  BY <1>14, <1>15 DEF DataInv

\* Waking up and waiting keep the data.
LEMMA WaitingData ==
    ASSUME DataInv, WritePathInv, WritePathInv', NEW t \in Threads,
           Wake(t) \/ HeadDelay(t) \/ HeadWait(t) \/ FlushWait(t)
    PROVE  DataInv'
<1>1. UNCHANGED quietVars /\ UNCHANGED <<calls, call, writers_>> /\ edit' = edit
      /\ UNCHANGED <<tables, imm_, flushing, bgpc, compacting>>
  BY DEF Wake, HeadDelay, HeadWait, FlushWait, quietVars, memVars, versionVars, bgVars,
      openVars, diskVars, callVars, queueVars, headVars
<1>2. pc \in [Threads -> ThreadPcs]
  BY DEF WritePathInv, ThreadInv, ThreadTypes
<1>3. /\ \A u \in Threads \ {t} : pc'[u] = pc[u]
      /\ pc'[t] = pc[t] \/ (pc[t] \notin Writing /\ pc'[t] \notin Writing)
  BY <1>2 DEF Wake, HeadDelay, HeadWait, FlushWait, callVars, AtHead, Returned, Writing
<1>4. \A u \in Threads : pc[u] \in Writing \/ pc'[u] \in Writing => pc'[u] = pc[u]
  BY <1>3
<1>5. /\ ContentInv' /\ OwnInv' /\ BatchInv' /\ SeqInv' /\ DiskInv' /\ LogInv'
      /\ RecLogInv' /\ AnswerInv'
  BY <1>1, <1>4, QuietThread
<1>6. FlushInv'
  BY <1>1, FlushFrame DEF DataInv
<1> QED
  BY <1>5, <1>6 DEF DataInv

\* Answering an error, or a null batch, keeps the data.
LEMMA AnsweringData ==
    ASSUME DataInv, WritePathInv, WritePathInv', NEW t \in Threads,
           HeadError(t) \/ HeadSwitchFails(t) \/ (HeadProceeds(t) /\ Batch(t).count = 0)
    PROVE  DataInv'
<1>1. /\ UNCHANGED <<call, quietVars, edit>>
      /\ UNCHANGED <<tables, imm_, flushing, bgpc, compacting>> /\ pc[t] = "head"
  BY DEF HeadError, HeadSwitchFails, HeadProceeds, quietVars, memVars, versionVars, bgVars,
      openVars, diskVars, headVars, AtHead, MaySwitch
<1>2. \E res \in {"error", "ok"} :
         AnswerGroup(t, <<t>>, res) /\ (res = "ok" => Batch(t).count = 0)
  BY DEF HeadError, HeadSwitchFails, HeadProceeds
<1>3. pc \in [Threads -> ThreadPcs]
  BY DEF WritePathInv, ThreadInv, ThreadTypes
<1>4. pc'[t] \notin Writing /\ \A u \in Threads \ {t} : pc'[u] = pc[u]
  BY <1>3 DEF HeadError, HeadSwitchFails, HeadProceeds, Writing
<1>5. /\ ContentInv' /\ OwnInv' /\ BatchInv' /\ SeqInv' /\ DiskInv' /\ LogInv'
      /\ RecLogInv' /\ AnswerInv'
  BY <1>1, <1>2, <1>4, LoneAnswer
<1>6. FlushInv'
  BY <1>1, FlushFrame DEF DataInv
<1> QED
  BY <1>5, <1>6 DEF DataInv

\* SignalAll does not move a writing thread.
LEMMA WokenWriting ==
    ASSUME pc \in [Threads -> ThreadPcs], pc' = pc \/ pc' = Woken(pc), NEW u \in Threads,
           pc[u] \in Writing \/ pc'[u] \in Writing
    PROVE  pc'[u] = pc[u]
  BY DEF Woken, Writing

\* The steps of the background thread that write no table and install nothing,
\* their failures, and the start of a close keep the data.
LEMMA BackgroundQuiet ==
    ASSUME DataInv, WritePathInv, WritePathInv',
           \/ BackgroundSkip \/ CompactMemTable \/ (\E l \in BOOLEAN : FlushEdit(l))
           \/ FlushFails \/ InstallFails \/ RemoveDone \/ BackgroundEnd \/ StartCompaction
           \/ AbandonCompaction \/ (FinishCompaction /\ bgpc' = "end")
           \/ (BuildTable /\ bgpc' = "buildfailed") \/ (WriteManifest /\ manifest' = manifest)
           \/ StartClose \/ UNCHANGED vars
    PROVE  DataInv'
<1>1. UNCHANGED quietVars /\ UNCHANGED <<calls, call, writers_>> /\ UNCHANGED <<tables, imm_>>
  BY DEF BackgroundSkip, CompactMemTable, FlushEdit, FlushFails, InstallFails, RemoveDone,
      BackgroundEnd, StartCompaction, AbandonCompaction, FinishCompaction, BuildTable, WriteManifest, StartClose, vars,
      bgUnchanged, quietVars, memVars, versionVars, openVars, diskVars, callVars, queueVars,
      headVars
<1>2. mode = "open" \/ edit' = edit
  <2>1. bgpc # "idle" => mode = "open"
    BY DEF WritePathInv, FilesInv, ClosedInv
  <2> QED
    BY <2>1 DEF BackgroundSkip, CompactMemTable, FlushEdit, FlushFails, InstallFails, RemoveDone,
      BackgroundEnd, StartCompaction, AbandonCompaction, FinishCompaction, BuildTable, WriteManifest, StartClose, vars,
      bgVars
<1>3. pc \in [Threads -> ThreadPcs]
  BY DEF WritePathInv, ThreadInv, ThreadTypes
<1>4. pc' = pc \/ pc' = Woken(pc)
  BY DEF BackgroundSkip, CompactMemTable, FlushEdit, FlushFails, InstallFails, RemoveDone,
      BackgroundEnd, StartCompaction, AbandonCompaction, FinishCompaction, BuildTable, WriteManifest, StartClose, vars,
      callVars, FlushError, RecordBackgroundError
<1>5. \A u \in Threads : pc[u] \in Writing \/ pc'[u] \in Writing => pc'[u] = pc[u]
  BY <1>3, <1>4, WokenWriting
<1>6. /\ ContentInv' /\ OwnInv' /\ BatchInv' /\ SeqInv' /\ DiskInv' /\ LogInv'
      /\ RecLogInv' /\ AnswerInv'
  BY <1>1, <1>2, <1>5, QuietThread
<1>7. CASE \E l \in BOOLEAN : FlushEdit(l)
  <2>1. bgpc = "built" /\ bgpc' = "manifest" /\ flushing' = flushing
    BY <1>7 DEF FlushEdit
  <2>2. flushing # NoFile
    BY <2>1 DEF WritePathInv, FilesInv, FilesPart, BackgroundInv
  <2>3. FlushInv'
    BY <1>1, <2>1, <2>2 DEF DataInv, FlushInv, Imm
  <2> QED
    BY <1>6, <2>3 DEF DataInv
<1>8. CASE ~(\E l \in BOOLEAN : FlushEdit(l))
  <2>1. \/ UNCHANGED <<flushing, compacting>> /\ (bgpc' = bgpc \/ {bgpc, bgpc'} \subseteq Busy)
        \/ bgpc' \notin Busy \cup {"built"}
    BY <1>8 DEF BackgroundSkip, CompactMemTable, FlushFails, InstallFails, RemoveDone,
      BackgroundEnd, StartCompaction, AbandonCompaction, FinishCompaction, BuildTable, WriteManifest, StartClose, vars,
      bgVars, AfterFlush, Busy
  <2>2. FlushInv'
    BY <1>1, <2>1, FlushFrame DEF DataInv
  <2> QED
    BY <1>6, <2>2 DEF DataInv
<1> QED
  BY <1>7, <1>8

\* More to recover and to serve is no harm to the answers.
LEMMA AnswersGrow ==
    ASSUME AnswerInv, ThreadInv, calls' = calls, OnDisk \subseteq OnDisk',
           OnDiskSynced \subseteq OnDiskSynced', mode' = "open" => mode = "open" /\ Served \subseteq Served'
    PROVE  AnswerInv'
<1>1. \A i : Answered(i)' <=> Answered(i)
  BY DEF Answered
<1>2. \A i \in 1..Len(calls) :
        /\ calls[i].sync => calls[i].count # 0
        /\ Answered(i) =>
             /\ \E e \in OnDisk : e.id = i
             /\ calls[i].sync => \E e \in OnDiskSynced : e.id = i
             /\ mode = "open" => \E e \in Served : e.id = i
  BY DEF AnswerInv
<1> QED
  BY <1>1, <1>2 DEF AnswerInv

\* What is in the logs after a new one is created.
LEMMA NewLogFile ==
    ASSUME NEW n, n \notin DOMAIN logs, logs' = Created(logs, n, EmptyLog)
    PROVE  /\ DOMAIN logs' = DOMAIN logs \cup {n}
           /\ LogSet(n)' = {} /\ logs'[n] = EmptyLog /\ Len(logs'[n].recs) = 0
           /\ \A k \in DOMAIN logs : /\ logs'[k] = logs[k] /\ LogSet(k)' = LogSet(k)
                                     /\ SyncedSet(k)' = SyncedSet(k)
           /\ DiskInv => DiskInv'
<1>1. /\ DOMAIN logs' = DOMAIN logs \cup {n} /\ logs'[n] = EmptyLog
      /\ \A k \in DOMAIN logs : logs'[k] = logs[k]
  BY DEF Created
<1>2. logs'[n].recs = << >> /\ logs'[n].synced = 0 /\ Len(logs'[n].recs) = 0
  BY <1>1 DEF EmptyLog
<1>3. LogSet(n)' = {}
  BY <1>2 DEF LogSet
<1>4. \A k \in DOMAIN logs : LogSet(k)' = LogSet(k) /\ SyncedSet(k)' = SyncedSet(k)
  BY <1>1 DEF LogSet, SyncedSet
<1>5. DiskInv => DiskInv'
  <2>1. EmptyLog \in [recs: Seq(SUBSET Entry), synced: Nat]
    BY DEF EmptyLog
  <2> QED
    BY <1>1, <1>2, <2>1 DEF DiskInv
<1> QED
  BY <1>1, <1>2, <1>3, <1>4, <1>5

\* MakeRoomForWrite's switch: mem_ becomes imm_, a new log starts.
LEMMA HeadSwitchData ==
    ASSUME DataInv, WritePathInv, WritePathInv', NEW t \in Threads, HeadSwitch(t)
    PROVE  DataInv'
<1>0. PICK n : n = next_file_number_
  OBVIOUS
<1>1. /\ UNCHANGED <<calls, pc, call, writers_, group, write_batch, status, last_sequence_,
                     log_number_, current, bgpc, flushing, compacting, edit, mode, rlogs,
                     tables, manifest>>
      /\ logs' = Created(logs, n, EmptyLog) /\ logfile_number_' = n
      /\ imm_' = <<mem_>> /\ mem_' = {} /\ imm_ = None /\ mode = "open" /\ pc[t] = "head"
  BY <1>0 DEF HeadSwitch, MaySwitch, AtHead, callVars, queueVars, versionVars, openVars
<1>2. /\ group = << >> /\ write_batch = {} /\ status = "ok" /\ ThreadInv /\ ThreadInv'
      /\ \A u \in Threads : pc[u] \notin Writing
  <2>1. ThreadInv /\ ThreadInv'
    BY DEF WritePathInv
  <2>2. group = << >> /\ write_batch = {} /\ status = "ok" /\ writers_[1] = t
    BY <1>1, <2>1, FrontAtHead
  <2>3. Len(group) = 0 /\ \A u \in Threads : pc[u] \in Writing => 1 <= Len(group)
    BY <2>1, <2>2 DEF ThreadInv, GroupInv
  <2> QED
    BY <2>1, <2>2, <2>3
<1>3. ~Inserting /\ ~Inserting'
  BY <1>1, <1>2 DEF Inserting, Writing
<1>4. /\ n \in Nat /\ DOMAIN logs \subseteq Nat /\ \A k \in DOMAIN logs : k < n
      /\ logfile_number_ \in DOMAIN logs /\ n \notin DOMAIN logs
  BY <1>0, <1>1 DEF WritePathInv, FilesInv, FilesPart, FileTypes, OpenInv
<1>5. /\ DOMAIN logs' = DOMAIN logs \cup {n}
      /\ LogSet(n)' = {} /\ Len(logs'[n].recs) = 0
      /\ \A k \in DOMAIN logs : /\ logs'[k] = logs[k] /\ LogSet(k)' = LogSet(k)
                                /\ SyncedSet(k)' = SyncedSet(k)
      /\ DiskInv'
  BY <1>1, <1>4, NewLogFile DEF DataInv
<1>6. Imm' = mem_ /\ Imm = {}
  BY <1>1, ImmNone, ImmSomeNext
<1>7. SameCalls
  BY <1>1, <1>2 DEF SameCalls, ThreadInv, ThreadTypes
<1>8. WholeIn(mem_, Entries) /\ \A U \in Units : U \subseteq Entries /\ WholeIn(U, Entries)
  BY <1>3 DEF DataInv, ContentInv, Entries
<1>9. mem_ \subseteq Entries
  BY EntriesIs
<1>10. ASSUME NEW U \in Units' PROVE U \subseteq Entries /\ WholeIn(U, Entries)
  <2>1. \/ U = mem_ \/ U = {}
        \/ \E k \in DOMAIN tables : U = tables[k]
        \/ \E k \in DOMAIN logs' : \E i \in 1..Len(logs'[k].recs) : U = logs'[k].recs[i]
    BY <1>1, <1>2, <1>6, UnitsIsNext
  <2>2. U = mem_ \/ U = {} \/ U \in Units
    <3>1. ASSUME NEW k \in DOMAIN logs', NEW i \in 1..Len(logs'[k].recs), U = logs'[k].recs[i]
          PROVE  U \in Units
      <4>1. k # n
        BY <1>5, <3>1
      <4> QED
        BY <1>5, <3>1, <4>1, UnitsIs
    <3> QED
      BY <2>1, <3>1, UnitsIs
  <2> QED
    BY <1>8, <1>9, <2>2, WholeEmpty
<1>11. ContentInv' /\ Entries' \subseteq Entries
  BY <1>1, <1>2, <1>7, <1>10, WholeEmpty, ContentKept DEF DataInv
<1>12. OwnInv'
  BY <1>1, <1>11, OwnFrame DEF DataInv
<1>13. BatchInv'
  BY <1>1, <1>2, FS_EmptySet DEF BatchInv, Writing
<1>14. \A e \in Entries : e.seq <= last_sequence_
  BY <1>1, <1>2 DEF DataInv, SeqInv
<1>15. SeqInv'
  <2>1. /\ TableSet(DOMAIN tables)' = TableSet(DOMAIN tables)
        /\ InTables(manifest.version)' = InTables(manifest.version)
    BY <1>1 DEF TableSet, InTables, Files
  <2>2. \A e \in Imm' : e.seq <= last_sequence_
    BY <1>6, <1>9, <1>14
  <2>3. \A k \in DOMAIN logs' \ {n} : \A e \in LogSet(k)' : e.seq <= last_sequence_
    BY <1>5, <1>14, EntriesIs
  <2> QED
    BY <1>1, <1>11, <1>14, <2>1, <2>2, <2>3 DEF DataInv, SeqInv
<1>16. FlushInv'
  <2>1. flushing = NoFile
    BY <1>1 DEF WritePathInv, FilesInv, FilesPart, BackgroundInv
  <2> QED
    BY <1>1, <2>1 DEF DataInv, FlushInv, TableSet, Inputs, Out
<1>17. LogInv'
  <2>1. InTables(manifest.version)' = InTables(manifest.version)
    BY <1>1 DEF InTables, Files
  <2>2. \A i : Answered(i)' <=> Answered(i)
    BY <1>1 DEF Answered
  <2>3. /\ \A k \in DOMAIN logs : k <= logfile_number_
        /\ \A k \in DOMAIN logs : log_number_ <= k /\ k < logfile_number_ =>
             \A e \in LogSet(k) : Answered(e.id) => e \in InTables(manifest.version)
        /\ \A e \in LogSet(logfile_number_) : Answered(e.id) => e \in mem_
    BY <1>1, <1>6 DEF DataInv, LogInv
  <2>4. \A k \in DOMAIN logs' : k <= n
    BY <1>4, <1>5
  <2>5. ASSUME NEW k \in DOMAIN logs', log_number_ <= k, k < n, NEW e \in LogSet(k)', Answered(e.id)
        PROVE  e \in Imm' \cup InTables(manifest.version)
    <3>1. k \in DOMAIN logs /\ e \in LogSet(k)
      BY <1>4, <1>5, <2>5
    <3>2. k < logfile_number_ \/ k = logfile_number_
      BY <1>4, <2>3, <3>1
    <3> QED
      BY <1>6, <2>3, <2>5, <3>1, <3>2
  <2> QED
    BY <1>1, <1>5, <2>1, <2>2, <2>4, <2>5 DEF LogInv
<1>18. RecLogInv'
  BY <1>1 DEF RecLogInv
<1>19. AnswerInv'
  <2>1. InTables(manifest.version)' = InTables(manifest.version) /\ InTables(current)' = InTables(current)
    BY <1>1 DEF InTables, Files
  <2>2. OnDisk \subseteq OnDisk' /\ OnDiskSynced \subseteq OnDiskSynced'
    BY <1>1, <1>5, <2>1, RecoverableIs, RecoverableIsNext, SyncedIs, SyncedIsNext
  <2>3. Served \subseteq Served'
    BY <1>6, <2>1 DEF Served
  <2> QED
    BY <1>1, <1>2, <2>2, <2>3, AnswersGrow DEF DataInv
<1> QED
  BY <1>5, <1>11, <1>12, <1>13, <1>15, <1>16, <1>17, <1>18, <1>19 DEF DataInv

\* A bijection keeps the size.
LEMMA SameSize ==
    ASSUME NEW S, NEW T, IsFiniteSet(S), NEW f \in [S -> T],
           \A x, y \in S : f[x] = f[y] => x = y, \A z \in T : \E x \in S : f[x] = z
    PROVE  IsFiniteSet(T) /\ Cardinality(T) = Cardinality(S)
<1>1. f \in Bijection(S, T)
  BY DEF Bijection, Injection, Surjection, IsInjective
<1>2. ExistsBijection(S, T)
  BY <1>1 DEF ExistsBijection
<1> QED
  BY <1>2, FS_Bijection

\* The places of the first n writers' entries: writer and position.
Slots(n) == UNION {{i} \X (1..Batch(writers_[i]).count) : i \in 1..n}

\* Membership in Slots.
LEMMA SlotsIs ==
    \A n, p : p \in Slots(n) <=>
       \E i \in 1..n : \E k \in 1..Batch(writers_[i]).count : p = <<i, k>>
  BY DEF Slots

\* Types of a queued call.
LEMMA CountType ==
    ASSUME ThreadInv, NEW i \in 1..Len(writers_)
    PROVE  /\ Batch(writers_[i]).count \in Nat /\ call[writers_[i]] \in 1..Len(calls)
           /\ call[writers_[i]] \in Nat /\ writers_[i] \in Threads
<1>1. /\ writers_ \in Seq(Threads) /\ calls \in Seq(CallT) /\ Len(calls) \in Nat
      /\ call \in [Threads -> Nat] /\ \A u \in Threads : call[u] <= Len(calls)
      /\ call[writers_[i]] > 0
  BY DEF ThreadInv, ThreadTypes, QueueInv
<1>2. writers_[i] \in Threads
  BY <1>1
<1>3. call[writers_[i]] \in 1..Len(calls)
  BY <1>1, <1>2
<1>4. calls[call[writers_[i]]] \in CallT
  BY <1>1, <1>3
<1>5. calls[call[writers_[i]]].count \in 0..MaxCount
  BY <1>4 DEF CallT
<1> QED
  BY <1>1, <1>2, <1>3, <1>5, WritePathConstants DEF Batch

\* Size of 1..c.
LEMMA UpTo == ASSUME NEW c \in Nat PROVE IsFiniteSet(1..c) /\ Cardinality(1..c) = c
<1>1. 1 \in Int /\ c \in Int
  OBVIOUS
<1>2. IsFiniteSet(1..c) /\ Cardinality(1..c) = IF 1 > c THEN 0 ELSE c - 1 + 1
  BY <1>1, FS_Interval
<1> QED
  BY <1>2

\* The first n writers have finitely many entries.
LEMMA SlotsFinite ==
    ASSUME ThreadInv, NEW n \in 0..Len(writers_)
    PROVE  IsFiniteSet(Slots(n))
<1>1. Len(writers_) \in Nat /\ n \in Int
  BY DEF ThreadInv, ThreadTypes
<1> DEFINE Col(i) == {i} \X (1..Batch(writers_[i]).count)
           Cols == {Col(i) : i \in 1..n}
<1>2. \A i \in 1..n : i \in 1..Len(writers_)
  BY <1>1
<1>3. ASSUME NEW i \in 1..n PROVE IsFiniteSet(Col(i))
  <2>1. Batch(writers_[i]).count \in Nat
    BY <1>2, CountType
  <2>2. IsFiniteSet(1..Batch(writers_[i]).count) /\ IsFiniteSet({i})
    BY <2>1, UpTo, FS_Singleton
  <2> QED
    BY <2>2, FS_Product
<1>4. IsFiniteSet(Cols)
  <2> DEFINE f == [i \in 1..n |-> Col(i)]
  <2> HIDE DEF Col
  <2>1. f \in Surjection(1..n, Cols)
    BY DEF Surjection
  <2>2. IsFiniteSet(1..n)
    BY <1>1, FS_Interval
  <2> QED
    BY <2>1, <2>2, FS_Surjection
<1>5. \A T \in Cols : IsFiniteSet(T)
  BY <1>3
<1>6. IsFiniteSet(UNION Cols)
  BY <1>4, <1>5, FS_UNION
<1> QED
  BY <1>6 DEF Slots

\* One more writer, as many more entries (WriteBatchInternal::Append).
LEMMA SizeToStep ==
    ASSUME ThreadInv, NEW i \in 1..Len(writers_)
    PROVE  /\ SizeTo(i - 1) \in Nat /\ SizeTo(i) \in Nat
           /\ SizeTo(i) = SizeTo(i - 1) + Batch(writers_[i]).count
<1> DEFINE c == Batch(writers_[i]).count
           A == Slots(i - 1)
           B == {i} \X (1..c)
<1>1. Len(writers_) \in Nat /\ i - 1 \in 0..Len(writers_) /\ i \in 0..Len(writers_) /\ i \in Nat
  BY DEF ThreadInv, ThreadTypes
<1>2. c \in Nat
  BY CountType
<1>3. IsFiniteSet(A) /\ IsFiniteSet(Slots(i))
  BY <1>1, SlotsFinite
<1>4. IsFiniteSet(B) /\ Cardinality(B) = c
  <2>1. IsFiniteSet(1..c) /\ Cardinality(1..c) = c
    BY <1>2, UpTo
  <2>2. IsFiniteSet({i}) /\ Cardinality({i}) = 1
    BY FS_Singleton
  <2> HIDE DEF c
  <2>3. /\ IsFiniteSet({i} \X (1..c))
        /\ Cardinality({i} \X (1..c)) = Cardinality({i}) * Cardinality(1..c)
    BY <2>1, <2>2, FS_Product
  <2>4. Cardinality(B) = 1 * c
    BY <2>1, <2>2, <2>3
  <2> QED
    BY <1>2, <2>3, <2>4
<1>5. Slots(i) = A \cup B
  <2>1. \A j : j \in 1..i <=> j \in 1..i - 1 \/ j = i
    BY <1>1
  <2>2. \A p : p \in B <=> \E k \in 1..c : p = <<i, k>>
    OBVIOUS
  <2>3. \A p : p \in Slots(i) <=> p \in A \cup B
    BY <2>1, <2>2, SlotsIs
  <2> QED
    BY <2>3
<1>6. A \cap B = {}
  <2>1. \A p \in A : p[1] \in 1..i - 1
    BY SlotsIs
  <2>2. \A p \in B : p[1] = i
    OBVIOUS
  <2>3. i \notin 1..i - 1
    BY <1>1
  <2> QED
    BY <2>1, <2>2, <2>3
<1>7. Cardinality(A \cup B) = Cardinality(A) + Cardinality(B) - Cardinality({})
  BY <1>3, <1>4, <1>6, FS_Union
<1>8. Cardinality(A) \in Nat /\ Cardinality(Slots(i)) \in Nat /\ Cardinality({}) = 0
  BY <1>3, FS_CardinalityType, FS_EmptySet
<1>9. SizeTo(i) = Cardinality(Slots(i)) /\ SizeTo(i - 1) = Cardinality(A)
  BY DEF SizeTo, Slots
<1> HIDE DEF c, A, B
<1>10. Cardinality(Slots(i)) = Cardinality(A) + c
  BY <1>2, <1>4, <1>5, <1>7, <1>8
<1> QED
  BY <1>8, <1>9, <1>10 DEF c

\* More writers, no fewer entries.
LEMMA SizeToGrows ==
    ASSUME ThreadInv, NEW i \in 0..Len(writers_), NEW j \in 0..Len(writers_), i <= j
    PROVE  SizeTo(i) \in Nat /\ SizeTo(j) \in Nat /\ SizeTo(i) <= SizeTo(j)
<1>0. Len(writers_) \in Nat /\ i \in Nat /\ j \in Nat
  BY DEF ThreadInv, ThreadTypes
<1>1. IsFiniteSet(Slots(i)) /\ IsFiniteSet(Slots(j))
  BY SlotsFinite
<1>2. Slots(i) \subseteq Slots(j)
  <2>1. 1..i \subseteq 1..j
    BY <1>0
  <2> QED
    BY <2>1, SlotsIs
<1>3. Cardinality(Slots(i)) <= Cardinality(Slots(j))
  BY <1>1, <1>2, FS_Subset
<1>4. Cardinality(Slots(i)) \in Nat /\ Cardinality(Slots(j)) \in Nat
  BY <1>1, FS_CardinalityType
<1> QED
  BY <1>3, <1>4 DEF SizeTo, Slots

\* Entry k of the i-th writer, as SetSequence and the batch's order number it.
EntryAt(i, k) == [seq |-> last_sequence_ + SizeTo(i - 1) + k, id |-> call[writers_[i]]]

\* The record of a group: the entries of its members.
LEMMA ContentsIs ==
    ASSUME ThreadInv, NEW g, IsFront(g)
    PROVE  \A e : e \in Contents(g) <=>
              \E i \in 1..Len(g) : \E k \in 1..Batch(writers_[i]).count : e = EntryAt(i, k)
<1>1. DOMAIN g = 1..Len(g) /\ \A i \in 1..Len(g) : g[i] = writers_[i]
  BY DEF IsFront
<1>2. \A e : e \in Contents(g) <=>
         \E i \in DOMAIN g : \E k \in 1..Batch(g[i]).count :
            e = [seq |-> last_sequence_ + SizeTo(i - 1) + k, id |-> call[g[i]]]
  BY DEF Contents
<1> QED
  BY <1>1, <1>2 DEF EntryAt

\* Its call and its sequence number.
LEMMA EntryAtIs ==
    ASSUME ThreadInv, last_sequence_ \in Nat, NEW i \in 1..Len(writers_),
           NEW k \in 1..Batch(writers_[i]).count
    PROVE  /\ EntryAt(i, k) \in Entry /\ EntryAt(i, k).id = call[writers_[i]]
           /\ EntryAt(i, k).seq = last_sequence_ + SizeTo(i - 1) + k
           /\ EntryAt(i, k).seq <= last_sequence_ + SizeTo(i)
           /\ SizeTo(i - 1) \in Nat /\ SizeTo(i) \in Nat /\ k \in Nat
<1>1. /\ SizeTo(i - 1) \in Nat /\ SizeTo(i) \in Nat
      /\ SizeTo(i) = SizeTo(i - 1) + Batch(writers_[i]).count
  BY SizeToStep
<1>2. Batch(writers_[i]).count \in Nat /\ call[writers_[i]] \in Nat
  BY CountType
<1>3. k \in Nat /\ k <= Batch(writers_[i]).count
  BY <1>2
<1>4. /\ EntryAt(i, k).id = call[writers_[i]]
      /\ EntryAt(i, k).seq = last_sequence_ + SizeTo(i - 1) + k
  BY DEF EntryAt
<1>5. last_sequence_ + SizeTo(i - 1) + k \in Nat
  BY <1>1, <1>3
<1>6. EntryAt(i, k) \in Entry
  BY <1>2, <1>5 DEF EntryAt, Entry
<1>7. last_sequence_ + SizeTo(i - 1) + k <= last_sequence_ + SizeTo(i)
  BY <1>1, <1>2, <1>3
<1> QED
  BY <1>1, <1>3, <1>4, <1>6, <1>7

\* Entries of a later writer are numbered higher.
LEMMA EntryAtOrder ==
    ASSUME ThreadInv, last_sequence_ \in Nat,
           NEW i \in 1..Len(writers_), NEW k \in 1..Batch(writers_[i]).count,
           NEW j \in 1..Len(writers_), NEW l \in 1..Batch(writers_[j]).count, i < j
    PROVE  EntryAt(i, k).seq < EntryAt(j, l).seq /\ EntryAt(i, k).id < EntryAt(j, l).id
<1>1. /\ Len(writers_) \in Nat /\ i \in 0..Len(writers_) /\ j - 1 \in 0..Len(writers_)
      /\ i <= j - 1
  BY DEF ThreadInv, ThreadTypes
<1>2. SizeTo(i) \in Nat /\ SizeTo(j - 1) \in Nat /\ SizeTo(i) <= SizeTo(j - 1)
  BY <1>1, SizeToGrows
<1>3. EntryAt(i, k).seq \in Nat /\ EntryAt(i, k).seq <= last_sequence_ + SizeTo(i)
  BY EntryAtIs DEF Entry
<1>4. EntryAt(j, l).seq = last_sequence_ + SizeTo(j - 1) + l /\ l \in Nat /\ l >= 1
  BY EntryAtIs
<1>5. EntryAt(i, k).seq < EntryAt(j, l).seq
  BY <1>2, <1>3, <1>4
<1>6. call[writers_[i]] < call[writers_[j]]
  BY DEF ThreadInv, QueueInv
<1> QED
  BY <1>5, <1>6, EntryAtIs

\* Within a call the numbers differ.
LEMMA EntryAtUnique ==
    ASSUME ThreadInv, last_sequence_ \in Nat,
           NEW i \in 1..Len(writers_), NEW k \in 1..Batch(writers_[i]).count,
           NEW j \in 1..Len(writers_), NEW l \in 1..Batch(writers_[j]).count,
           EntryAt(i, k).id = EntryAt(j, l).id
    PROVE  i = j /\ (EntryAt(i, k).seq = EntryAt(j, l).seq => k = l)
<1>1. Len(writers_) \in Nat /\ i \in Nat /\ j \in Nat
  BY DEF ThreadInv, ThreadTypes
<1>2. EntryAt(i, k).id \in Nat
  BY EntryAtIs DEF Entry
<1>3. ~(i < j)
  BY <1>2, EntryAtOrder
<1>4. ~(j < i)
  BY <1>2, EntryAtOrder
<1>5. i = j
  BY <1>1, <1>3, <1>4
<1>6. /\ EntryAt(i, k).seq = last_sequence_ + SizeTo(i - 1) + k
      /\ EntryAt(j, l).seq = last_sequence_ + SizeTo(j - 1) + l
      /\ SizeTo(i - 1) \in Nat /\ k \in Nat /\ l \in Nat
  BY EntryAtIs
<1> QED
  BY <1>5, <1>6

\* The entries of one call.
Of(A, i) == {e \in A : e.id = i}

\* The record of a group: whole batches, in the order of the queue, with new
\* numbers, as many as it has entries (SetSequence, Count).
LEMMA ContentsFacts ==
    ASSUME ThreadInv, last_sequence_ \in Nat, NEW g, IsFront(g), NEW W, W = Contents(g)
    PROVE  /\ IsFiniteSet(W) /\ W \subseteq Entry /\ Ordered(W)
           /\ \A e \in W : \E i \in 1..Len(g) : e.id = call[g[i]]
           /\ \A e \in W : last_sequence_ < e.seq /\ e.seq <= last_sequence_ + Cardinality(W)
           /\ \A i \in 1..Len(g) :
                /\ Cardinality(Of(W, call[g[i]])) = Batch(g[i]).count
                /\ Batch(g[i]).count # 0 => \E e \in W : e.id = call[g[i]]
<1> DEFINE n == Len(g)
<1>1. /\ n \in Nat /\ n >= 1 /\ Len(writers_) \in Nat /\ n \in 0..Len(writers_)
      /\ \A i \in 1..n : i \in 1..Len(writers_) /\ g[i] = writers_[i]
  BY DEF IsFront, ThreadInv, ThreadTypes
<1>2. \A e : e \in W <=>
         \E i \in 1..n : \E k \in 1..Batch(writers_[i]).count : e = EntryAt(i, k)
  BY ContentsIs
<1> HIDE DEF n
<1>3. W \subseteq Entry
  BY <1>1, <1>2, EntryAtIs
<1>4. Ordered(W)
  <2> SUFFICES ASSUME NEW e \in W, NEW f \in W, e.id < f.id PROVE e.seq < f.seq
    BY DEF Ordered
  <2>1. PICK i \in 1..n : \E k \in 1..Batch(writers_[i]).count : e = EntryAt(i, k)
    BY <1>2
  <2>2. PICK k \in 1..Batch(writers_[i]).count : e = EntryAt(i, k)
    BY <2>1
  <2>3. PICK j \in 1..n : \E l \in 1..Batch(writers_[j]).count : f = EntryAt(j, l)
    BY <1>2
  <2>4. PICK l \in 1..Batch(writers_[j]).count : f = EntryAt(j, l)
    BY <2>3
  <2>5. i \in 1..Len(writers_) /\ j \in 1..Len(writers_) /\ i \in Nat /\ j \in Nat
    BY <1>1
  <2>6. e.id \in Nat /\ f.id \in Nat
    BY <1>3 DEF Entry
  <2>7. ~(j < i)
    BY <2>2, <2>4, <2>5, <2>6, EntryAtOrder
  <2>8. i # j
    <3>1. e.id = call[writers_[i]] /\ f.id = call[writers_[j]]
      BY <2>2, <2>4, <2>5, EntryAtIs
    <3> QED
      BY <2>6, <3>1
  <2>9. i < j
    BY <2>5, <2>7, <2>8
  <2> QED
    BY <2>2, <2>4, <2>5, <2>9, EntryAtOrder
<1>5. ASSUME NEW e \in W PROVE \E i \in 1..n : e.id = call[g[i]]
  BY <1>1, <1>2, EntryAtIs
<1>6. IsFiniteSet(W) /\ Cardinality(W) = SizeTo(n)
  <2> DEFINE f == [p \in Slots(n) |-> EntryAt(p[1], p[2])]
  <2>1. IsFiniteSet(Slots(n))
    BY <1>1, SlotsFinite
  <2>2. \A i \in 1..n : \A k \in 1..Batch(writers_[i]).count :
           <<i, k>> \in Slots(n) /\ f[<<i, k>>] = EntryAt(i, k)
    BY SlotsIs
  <2>3. \A p \in Slots(n) : \E i \in 1..n : \E k \in 1..Batch(writers_[i]).count : p = <<i, k>>
    BY SlotsIs
  <2> HIDE DEF f
  <2>4. f \in [Slots(n) -> W]
    <3>1. \A p \in Slots(n) : EntryAt(p[1], p[2]) \in W
      BY <1>2, <2>3
    <3> QED
      BY <3>1 DEF f
  <2>5. ASSUME NEW p \in Slots(n), NEW q \in Slots(n), f[p] = f[q] PROVE p = q
    <3>1. PICK i \in 1..n : \E k \in 1..Batch(writers_[i]).count : p = <<i, k>>
      BY <2>3
    <3>2. PICK k \in 1..Batch(writers_[i]).count : p = <<i, k>>
      BY <3>1
    <3>3. PICK j \in 1..n : \E l \in 1..Batch(writers_[j]).count : q = <<j, l>>
      BY <2>3
    <3>4. PICK l \in 1..Batch(writers_[j]).count : q = <<j, l>>
      BY <3>3
    <3>5. EntryAt(i, k) = EntryAt(j, l)
      BY <2>2, <2>5, <3>2, <3>4
    <3>6. i = j /\ k = l
      BY <1>1, <3>5, EntryAtUnique
    <3> QED
      BY <3>2, <3>4, <3>6
  <2>6. ASSUME NEW e \in W PROVE \E p \in Slots(n) : f[p] = e
    <3>1. PICK i \in 1..n : \E k \in 1..Batch(writers_[i]).count : e = EntryAt(i, k)
      BY <1>2
    <3>2. PICK k \in 1..Batch(writers_[i]).count : e = EntryAt(i, k)
      BY <3>1
    <3>3. <<i, k>> \in Slots(n) /\ f[<<i, k>>] = EntryAt(i, k)
      BY <2>2
    <3> QED
      BY <3>2, <3>3
  <2>7. IsFiniteSet(W) /\ Cardinality(W) = Cardinality(Slots(n))
    BY <2>1, <2>4, <2>5, <2>6, SameSize
  <2> QED
    BY <2>7 DEF SizeTo, Slots
<1>7. ASSUME NEW e \in W PROVE last_sequence_ < e.seq /\ e.seq <= last_sequence_ + Cardinality(W)
  <2>1. PICK i \in 1..n : \E k \in 1..Batch(writers_[i]).count : e = EntryAt(i, k)
    BY <1>2
  <2>2. PICK k \in 1..Batch(writers_[i]).count : e = EntryAt(i, k)
    BY <2>1
  <2>3. /\ e.seq = last_sequence_ + SizeTo(i - 1) + k /\ e.seq <= last_sequence_ + SizeTo(i)
        /\ SizeTo(i - 1) \in Nat /\ SizeTo(i) \in Nat /\ k \in Nat /\ k >= 1
    BY <1>1, <2>2, EntryAtIs
  <2>4. SizeTo(i) <= SizeTo(n) /\ SizeTo(n) \in Nat
    <3>1. i \in 0..Len(writers_) /\ i <= n
      BY <1>1
    <3> QED
      BY <1>1, <3>1, SizeToGrows
  <2> QED
    BY <1>6, <2>3, <2>4
<1>8. ASSUME NEW i \in 1..n
      PROVE  /\ Cardinality({e \in W : e.id = call[g[i]]}) = Batch(g[i]).count
             /\ Batch(g[i]).count # 0 => \E e \in W : e.id = call[g[i]]
  <2> DEFINE c == Batch(writers_[i]).count
             T == {e \in W : e.id = call[g[i]]}
             f == [k \in 1..c |-> EntryAt(i, k)]
  <2>1. c \in Nat /\ i \in 1..Len(writers_) /\ g[i] = writers_[i]
    BY <1>1, CountType
  <2>2. IsFiniteSet(1..c) /\ Cardinality(1..c) = c
    BY <2>1, UpTo
  <2>3. \A k \in 1..c : EntryAt(i, k) \in T
    BY <1>2, <2>1, EntryAtIs
  <2>4. ASSUME NEW e \in T PROVE \E k \in 1..c : e = EntryAt(i, k)
    <3>1. PICK j \in 1..n : \E k \in 1..Batch(writers_[j]).count : e = EntryAt(j, k)
      BY <1>2
    <3>2. PICK k \in 1..Batch(writers_[j]).count : e = EntryAt(j, k)
      BY <3>1
    <3>3. call[writers_[j]] = call[writers_[i]]
      BY <1>1, <2>1, <3>2, EntryAtIs
    <3>4. i = j
      <4>1. /\ i \in Nat /\ j \in Nat /\ j \in 1..Len(writers_)
            /\ call[writers_[j]] \in Nat /\ call[writers_[i]] \in Nat
        <5>1. i \in Nat /\ j \in Nat /\ j \in 1..Len(writers_)
          BY <1>1
        <5> QED
          BY <2>1, <5>1, CountType
      <4>2. \A a, b \in 1..Len(writers_) : a < b => call[writers_[a]] < call[writers_[b]]
        BY DEF ThreadInv, QueueInv
      <4> QED
        BY <2>1, <3>3, <4>1, <4>2
    <3> QED
      BY <3>2, <3>4
  <2>5. f \in [1..c -> T]
    BY <2>3
  <2>6. ASSUME NEW k \in 1..c, NEW l \in 1..c, f[k] = f[l] PROVE k = l
    <3>1. EntryAt(i, k) = EntryAt(i, l)
      BY <2>6
    <3> QED
      BY <2>1, <3>1, EntryAtUnique
  <2>7. \A e \in T : \E k \in 1..c : f[k] = e
    BY <2>4
  <2> HIDE DEF f, T
  <2>8. Cardinality(T) = c
    <3>1. Cardinality(T) = Cardinality(1..c)
      BY <2>2, <2>5, <2>6, <2>7, SameSize
    <3> QED
      BY <2>2, <3>1
  <2>9. c # 0 => 1 \in 1..c
    BY <2>1
  <2> QED
    BY <2>1, <2>3, <2>8, <2>9 DEF T
<1> QED
  BY <1>3, <1>4, <1>5, <1>6, <1>7, <1>8 DEF n, Of

\* The disk is the same, so what is read from it is.
LEMMA SameDisk ==
    ASSUME UNCHANGED <<logs, tables, manifest>>
    PROVE  /\ \A n : LogSet(n)' = LogSet(n) /\ SyncedSet(n)' = SyncedSet(n)
           /\ InTables(manifest.version)' = InTables(manifest.version)
           /\ TableSet(DOMAIN tables)' = TableSet(DOMAIN tables)
           /\ LogsFrom(manifest.log_number)' = LogsFrom(manifest.log_number)
           /\ OnDisk' = OnDisk /\ OnDiskSynced' = OnDiskSynced
           /\ DiskInv => DiskInv'
<1>1. /\ \A n : LogSet(n)' = LogSet(n) /\ SyncedSet(n)' = SyncedSet(n)
      /\ InTables(manifest.version)' = InTables(manifest.version)
      /\ TableSet(DOMAIN tables)' = TableSet(DOMAIN tables)
      /\ LogsFrom(manifest.log_number)' = LogsFrom(manifest.log_number)
  BY DEF LogSet, SyncedSet, InTables, Files, TableSet, LogsFrom
<1>2. OnDisk' = OnDisk /\ OnDiskSynced' = OnDiskSynced
  BY <1>1, RecoverableIs, RecoverableIsNext, SyncedIs, SyncedIsNext
<1>3. DiskInv => DiskInv'
  BY DEF DiskInv
<1> QED
  BY <1>1, <1>2, <1>3

\* While a thread is in MakeRoomForWrite nobody writes.
LEMMA HeadFacts ==
    ASSUME ThreadInv, NEW t \in Threads, pc[t] = "head"
    PROVE  /\ group = << >> /\ write_batch = {} /\ status = "ok" /\ IsFront(<<t>>)
           /\ writers_ # << >> /\ writers_[1] = t
           /\ \A u \in Threads : pc[u] \notin Writing
           /\ ~Inserting
<1>1. /\ group = << >> /\ write_batch = {} /\ status = "ok" /\ IsFront(<<t>>)
      /\ writers_ # << >> /\ writers_[1] = t
  BY FrontAtHead
<1>2. Len(group) = 0 /\ \A u \in Threads : pc[u] \in Writing => 1 <= Len(group)
  BY <1>1 DEF ThreadInv, GroupInv
<1>3. \A u \in Threads : pc[u] \notin Writing
  BY <1>2
<1> QED
  BY <1>1, <1>3 DEF Inserting, Writing

\* BuildBatchGroup and SetSequence: a new batch, not yet stored elsewhere.
LEMMA HeadProceedsData ==
    ASSUME DataInv, WritePathInv, WritePathInv', NEW t \in Threads, HeadProceeds(t),
           Batch(t).count # 0
    PROVE  DataInv'
<1>1. PICK g : g = BuildBatchGroup
  OBVIOUS
<1>2. PICK W : W = Contents(g)
  OBVIOUS
<1>3. /\ UNCHANGED <<calls, call, writers_, status, mem_, imm_, logs, tables, manifest,
                     last_sequence_, logfile_number_, log_number_, current, mode, rlogs, edit,
                     flushing, bgpc, compacting>>
      /\ group' = g /\ write_batch' = W /\ mode = "open" /\ pc[t] = "head"
      /\ pc' = [pc EXCEPT ![t] = "log"]
  <2>1. group' = g
    BY <1>1 DEF HeadProceeds
  <2>2. write_batch' = W
    BY <1>2, <2>1 DEF HeadProceeds
  <2> QED
    BY <2>1, <2>2 DEF HeadProceeds, AtHead, queueVars, memVars, versionVars, bgVars, openVars, diskVars
<1>4. ThreadInv /\ ThreadInv' /\ pc \in [Threads -> ThreadPcs]
  BY DEF WritePathInv, ThreadInv, ThreadTypes
<1>5. /\ group = << >> /\ write_batch = {} /\ status = "ok"
      /\ writers_ # << >> /\ writers_[1] = t
      /\ \A u \in Threads : pc[u] \notin Writing
      /\ ~Inserting
  BY <1>3, <1>4, HeadFacts
<1>6. ~Inserting' /\ pc'[t] = "log" /\ \A u \in Threads \ {t} : pc'[u] \notin Writing
  BY <1>3, <1>4, <1>5 DEF Inserting, Writing
<1>7. /\ IsFront(g)
      /\ \A i \in 1..Len(g) : Batch(g[i]).sync => Batch(writers_[1]).sync
  BY <1>1, <1>4, <1>5, BuildBatchGroupFront
<1>8. last_sequence_ \in Nat
  BY DEF DataInv, SeqInv
<1>9. /\ IsFiniteSet(W) /\ W \subseteq Entry /\ Ordered(W)
      /\ \A e \in W : \E i \in 1..Len(g) : e.id = call[g[i]]
      /\ \A e \in W : last_sequence_ < e.seq /\ e.seq <= last_sequence_ + Cardinality(W)
      /\ \A i \in 1..Len(g) :
           /\ Cardinality(Of(W, call[g[i]])) = Batch(g[i]).count
           /\ Batch(g[i]).count # 0 => \E e \in W : e.id = call[g[i]]
  <2>1. ThreadInv /\ IsFront(g)
    BY <1>4, <1>7
  <2> QED
    BY <1>2, <1>8, <2>1, ContentsFacts
<1>10. /\ Len(g) \in Nat /\ 1 \in 1..Len(g) /\ g[1] = t
       /\ \A i \in 1..Len(g) : i \in 1..Len(writers_) /\ g[i] = writers_[i]
  <2>1. writers_ \in Seq(Threads) /\ Len(writers_) \in Nat
    BY <1>4 DEF ThreadInv, ThreadTypes
  <2>2. /\ g \in Seq(Threads) /\ 1 <= Len(g) /\ Len(g) <= Len(writers_)
        /\ \A i \in 1..Len(g) : g[i] = writers_[i]
    BY <1>7 DEF IsFront
  <2> QED
    BY <1>5, <2>1, <2>2
<1>11. \A i \in 1..Len(g) : call[g[i]] \in 1..Len(calls) /\ call[g[i]] \in Nat
  BY <1>4, <1>10, CountType
<1>12. \A e \in Entries : \A i \in 1..Len(g) : e.id < call[g[i]]
  BY <1>5, <1>10 DEF DataInv, OwnInv
<1>13. Entries \subseteq Entry /\ \A e \in Entries : e.seq <= last_sequence_
  BY <1>3, <1>5 DEF DataInv, ContentInv, SeqInv
<1>14. \A e \in Entries : \A f \in W : e.id \in Nat /\ f.id \in Nat /\ e.id < f.id
  BY <1>9, <1>12, <1>13 DEF Entry
<1>15. \A e : e \in Entries' <=> e \in Entries \/ e \in W
  <2>1. Imm' = Imm /\ \A n : LogSet(n)' = LogSet(n)
    BY <1>3 DEF Imm, LogSet
  <2> QED
    BY <1>3, <1>5, <2>1, EntriesIs, EntriesIsNext
<1>16. ContentInv'
  <2>1. Entries' \subseteq Entry
    BY <1>9, <1>13, <1>15
  <2>2. ASSUME NEW U, U \subseteq Entries, WholeIn(U, Entries) PROVE WholeIn(U, Entries')
    BY <1>14, <1>15, <2>2 DEF WholeIn
  <2>3. WholeIn(W, Entries')
    BY <1>14, <1>15 DEF WholeIn
  <2>4. \A U \in Units : U \subseteq Entries /\ WholeIn(U, Entries)
    BY DEF DataInv, ContentInv, Entries
  <2>5. mem_ \subseteq Entries /\ WholeIn(mem_, Entries)
    BY <1>5, EntriesIs DEF DataInv, ContentInv
  <2>6. WholeIn(mem_ \cup W, Entries')
    BY <2>2, <2>3, <2>5, WholeCup
  <2>7. ASSUME NEW U \in Units' PROVE WholeIn(U, Entries')
    <3>1. U \in Units \/ U = W \/ U = mem_ \cup W
      <4>1. Imm' = Imm
        BY <1>3 DEF Imm
      <4> QED
        BY <1>3, <4>1, UnitsIs, UnitsIsNext
    <3> QED
      BY <2>2, <2>3, <2>4, <2>6, <3>1
  <2>8. WholeIn(mem_', Entries')
    BY <1>3, <2>2, <2>5
  <2>9. CountIn(Entries, calls) /\ Ordered(Entries)
    BY DEF DataInv, ContentInv
  <2>10. ASSUME NEW e \in Entries'
         PROVE  /\ e.id \in 1..Len(calls)
                /\ Cardinality({x \in Entries' : x.id = e.id}) = calls[e.id].count
                /\ calls[e.id].count # 0
    <3>1. CASE e \in Entries
      <4>1. {x \in Entries' : x.id = e.id} = {x \in Entries : x.id = e.id}
        BY <1>14, <1>15, <3>1
      <4> QED
        BY <2>9, <3>1, <4>1 DEF CountIn
    <3>2. CASE e \in W
      <4>1. {x \in Entries' : x.id = e.id} = {x \in W : x.id = e.id}
        BY <1>14, <1>15, <3>2
      <4>2. PICK i \in 1..Len(g) : e.id = call[g[i]]
        BY <1>9, <3>2
      <4>3. Cardinality({x \in W : x.id = call[g[i]]}) = calls[call[g[i]]].count
        BY <1>9 DEF Batch, Of
      <4>4. Cardinality({x \in W : x.id = e.id}) # 0
        <5>1. IsFiniteSet({x \in W : x.id = e.id})
          BY <1>9, FS_Subset
        <5>2. {x \in W : x.id = e.id} # {}
          BY <3>2
        <5> QED
          BY <5>1, <5>2, FS_EmptySet
      <4> QED
        BY <1>11, <4>1, <4>2, <4>3, <4>4
    <3> QED
      BY <1>15, <3>1, <3>2
  <2>11. Ordered(Entries')
    <3> SUFFICES ASSUME NEW e \in Entries', NEW f \in Entries', e.id < f.id PROVE e.seq < f.seq
      BY DEF Ordered
    <3>1. CASE e \in Entries /\ f \in Entries
      BY <2>9, <3>1 DEF Ordered
    <3>2. CASE e \in W /\ f \in W
      BY <1>9, <3>2 DEF Ordered
    <3>3. CASE e \in Entries /\ f \in W
      <4>1. e.seq \in Nat /\ f.seq \in Nat /\ e.seq <= last_sequence_ /\ last_sequence_ < f.seq
        BY <1>9, <1>13, <3>3 DEF Entry
      <4> QED
        BY <1>8, <4>1
    <3>4. CASE e \in W /\ f \in Entries
      BY <1>14, <3>4
    <3> QED
      BY <1>15, <3>1, <3>2, <3>3, <3>4
  <2>12. Bounded(Entries')
    <3>1. Cardinality(W) \in Nat
      BY <1>9, FS_CardinalityType
    <3>2. \A e \in Entries' : e.seq \in Nat
      BY <2>1 DEF Entry
    <3>3. \A e \in Entries' : e.seq <= last_sequence_ + Cardinality(W)
      BY <1>8, <1>9, <1>13, <1>15, <3>1, <3>2
    <3> QED
      BY <1>8, <3>1, <3>3 DEF Bounded
  <2>13. CountIn(Entries', calls')
    BY <1>3, <2>10 DEF CountIn
  <2> QED
    BY <2>1, <2>7, <2>8, <2>11, <2>12, <2>13 DEF ContentInv
<1>17. OwnInv'
  <2>1. \A e \in Entries : \A i \in 1..Len(writers_) : e.id < call[writers_[i]]
    BY <1>5 DEF DataInv, OwnInv
  <2> QED
    BY <1>3, <1>15, <2>1 DEF OwnInv
<1>18. BatchInv'
  <2>1. \A i \in 1..Len(g) : Batch(g[i])' = Batch(g[i])
    BY <1>3 DEF Batch
  <2>2. ~(W \subseteq mem_)
    <3>1. PICK e \in W : e.id = call[t]
      BY <1>9, <1>10
    <3>2. e \notin Entries
      BY <1>14
    <3> QED
      BY <3>2, EntriesIs
  <2>3. ASSUME NEW u \in Threads
        PROVE  /\ pc'[u] \in {"log", "sync", "insert"} => status' = "ok" /\ ~(write_batch' \subseteq mem_')
               /\ pc'[u] \notin {"sync", "insert", "finish"}
    BY <1>3, <1>5, <1>6, <2>2 DEF Writing
  <2>4. Batch(writers_[1]) = Batch(g[1])
    BY <1>5, <1>10
  <2> QED
    BY <1>3, <1>5, <1>7, <1>9, <2>1, <2>3, <2>4 DEF BatchInv, Batch
<1>19. Imm' = Imm /\ InTables(current)' = InTables(current)
  BY <1>3 DEF Imm, InTables, Files
<1>20. /\ \A n : LogSet(n)' = LogSet(n)
       /\ InTables(manifest.version)' = InTables(manifest.version)
       /\ TableSet(DOMAIN tables)' = TableSet(DOMAIN tables)
       /\ OnDisk' = OnDisk /\ OnDiskSynced' = OnDiskSynced /\ DiskInv'
  BY <1>3, SameDisk DEF DataInv
<1>21. SeqInv'
  BY <1>3, <1>13, <1>15, <1>19, <1>20 DEF DataInv, SeqInv
<1>22. FlushInv'
  BY <1>3, FlushFrame DEF DataInv
<1>23. LogInv'
  BY <1>3, <1>19, <1>20 DEF DataInv, LogInv, Answered
<1>24. RecLogInv'
  BY <1>3 DEF RecLogInv
<1>25. AnswerInv'
  <2>1. Served' = Served
    BY <1>3, <1>19 DEF Served
  <2> QED
    BY <1>3, <1>4, <1>20, <2>1, AnswersGrow DEF DataInv
<1> QED
  BY <1>16, <1>17, <1>18, <1>20, <1>21, <1>22, <1>23, <1>24, <1>25 DEF DataInv

\* A thread past MakeRoomForWrite is the front of the queue, with its group.
LEMMA WriterFacts ==
    ASSUME WritePathInv, NEW t \in Threads, pc[t] \in Writing
    PROVE  /\ ThreadInv /\ mode = "open" /\ logfile_number_ \in DOMAIN logs
           /\ \A u \in Threads : pc[u] \in Active => u = t
           /\ IsFront(group) /\ Len(group) \in Nat /\ 1 \in 1..Len(group) /\ group[1] = t
           /\ pc \in [Threads -> ThreadPcs] /\ pc[t] \in Active
<1>1. ThreadInv
  BY DEF WritePathInv
<1>2. mode = "open"
  BY DEF WritePathInv, FilesInv, ClosedInv, Writing
<1>3. logfile_number_ \in DOMAIN logs
  BY <1>2 DEF WritePathInv, FilesInv, FilesPart, OpenInv
<1>4. pc[t] \in Active /\ pc \in [Threads -> ThreadPcs]
  BY <1>1 DEF Active, Writing, ThreadInv, ThreadTypes
<1>5. \A u \in Threads : pc[u] \in Active => writers_[1] = u
  BY <1>1 DEF ThreadInv, QueueInv
<1>6. /\ group \in Seq(Threads) /\ 1 <= Len(group) /\ Len(group) <= Len(writers_)
      /\ \A i \in 1..Len(group) : group[i] = writers_[i]
  BY <1>1 DEF ThreadInv, GroupInv
<1>7. Len(group) \in Nat /\ 1 \in 1..Len(group) /\ group[1] = t
  BY <1>4, <1>5, <1>6
<1> QED
  BY <1>1, <1>2, <1>3, <1>4, <1>5, <1>6, <1>7 DEF IsFront

(* What stays true of the group's own entries: none of its calls has an answer. *)
LEMMA GroupPending ==
    ASSUME ThreadInv, BatchInv, NEW e \in write_batch
    PROVE  ~Answered(e.id)
<1>1. PICK i \in 1..Len(group) : e.id = call[group[i]]
  BY DEF BatchInv
<1>2. calls[call[group[i]]].res = "pending"
  BY GroupCalls DEF Batch
<1> QED
  BY <1>1, <1>2 DEF Answered

\* Steps of the writer keep its group.
LEMMA BatchKept ==
    ASSUME BatchInv, UNCHANGED <<calls, call, group, write_batch, last_sequence_>>,
           status' \in {"ok", "sync_error"},
           \A u \in Threads :
             /\ pc'[u] \in {"log", "sync", "insert"} => status' = "ok" /\ ~(write_batch \subseteq mem_')
             /\ pc'[u] = "finish" /\ status' = "ok" => write_batch \subseteq mem_'
             /\ pc'[u] \in {"sync", "insert", "finish"} =>
                  Len(logs'[logfile_number_'].recs) > 0 /\ LastRecord' = write_batch
             /\ pc'[u] \in {"insert", "finish"} /\ status' = "ok" /\ Batch(group[1]).sync =>
                  logs'[logfile_number_'].synced = Len(logs'[logfile_number_'].recs)
    PROVE  BatchInv'
<1>1. /\ \A e \in write_batch : \E i \in 1..Len(group) : e.id = call[group[i]]
      /\ \A i \in 1..Len(group) :
             /\ calls[call[group[i]]].count # 0 => \E e \in write_batch : e.id = call[group[i]]
             /\ calls[call[group[i]]].sync => calls[call[group[1]]].sync
      /\ IsFiniteSet(write_batch)
      /\ \A e \in write_batch :
             last_sequence_ < e.seq /\ e.seq <= last_sequence_ + Cardinality(write_batch)
  BY DEF BatchInv, Batch
<1>2. /\ \A e \in write_batch' : \E i \in 1..Len(group') : e.id = call'[group'[i]]
      /\ \A i \in 1..Len(group') :
             /\ calls'[call'[group'[i]]].count # 0 => \E e \in write_batch' : e.id = call'[group'[i]]
             /\ calls'[call'[group'[i]]].sync => calls'[call'[group'[1]]].sync
      /\ IsFiniteSet(write_batch')
      /\ \A e \in write_batch' :
             last_sequence_' < e.seq /\ e.seq <= last_sequence_' + Cardinality(write_batch')
  BY <1>1
<1>3. \A u \in Threads :
         pc'[u] \in {"insert", "finish"} /\ status' = "ok" /\ calls'[call'[group'[1]]].sync =>
                  logs'[logfile_number_'].synced = Len(logs'[logfile_number_'].recs)
  BY DEF Batch
<1> QED
  BY <1>2, <1>3 DEF BatchInv, Batch

\* The log in use has a number, and no torn record.
LEMMA InUse ==
    ASSUME WholeInv, WritePathInv, mode = "open"
    PROVE  \A i \in 1..Len(logs[logfile_number_].recs) : logs[logfile_number_].recs[i] # {}
  BY DEF WholeInv, WritePathInv, FilesInv, FilesPart, FileTypes, OpenInv, NoFile

\* log_->AddRecord that succeeds: the log in use ends with the group's record.
LEMMA AddRecordData ==
    ASSUME DataInv, WholeInv, WritePathInv, WritePathInv', WholeRecords,
           NEW t \in Threads, AddRecord(t)
    PROVE  DataInv'
<1>1. pc[t] = "log" /\ pc[t] \in Writing
  BY DEF AddRecord, Writing
<1>2. /\ ThreadInv /\ mode = "open" /\ logfile_number_ \in DOMAIN logs
      /\ \A u \in Threads : pc[u] \in Active => u = t
      /\ Len(group) \in Nat /\ 1 \in 1..Len(group) /\ group[1] = t
      /\ pc \in [Threads -> ThreadPcs] /\ ThreadInv'
  BY <1>1, WriterFacts DEF WritePathInv
<1>3. PICK n : n = logfile_number_
  OBVIOUS
<1>4. /\ UNCHANGED <<calls, call, writers_, group, write_batch, status, mem_, imm_, tables,
                     manifest, last_sequence_, logfile_number_, log_number_, current, mode,
                     rlogs, edit, flushing, bgpc, compacting>>
      /\ logs' = [logs EXCEPT ![n] = [logs[n] EXCEPT !.recs = Append(@, write_batch)]]
      /\ pc' = [pc EXCEPT ![t] = IF Batch(t).sync THEN "sync" ELSE "insert"]
  <2>1. ~MayFail("append")
    BY DEF MayFail, WholeRecords
  <2> QED
    BY <1>3, <2>1 DEF AddRecord, writeUnchanged, queueVars, memVars, versionVars, bgVars, openVars
<1>5. /\ pc'[t] = IF Batch(t).sync THEN "sync" ELSE "insert"
      /\ \A u \in Threads \ {t} : pc'[u] = pc[u] /\ pc'[u] \notin Writing
  BY <1>2, <1>4 DEF Active, Writing
<1>6. ~Inserting
  BY <1>1, <1>2 DEF Inserting, Active
<1>7. /\ logs[n] \in [recs: Seq(SUBSET Entry), synced: Nat] /\ logs[n].synced <= Len(logs[n].recs)
      /\ \A i \in 1..Len(logs[n].recs) : logs[n].recs[i] # {}
  BY <1>2, <1>3, InUse DEF DataInv, DiskInv
<1>8. write_batch \subseteq Entries /\ write_batch \in SUBSET Entry /\ write_batch # {}
  <2>1. write_batch \subseteq Entries
    BY EntriesIs
  <2>2. Entries \subseteq Entry /\ ~(write_batch \subseteq mem_)
    BY <1>1 DEF DataInv, ContentInv, BatchInv
  <2> QED
    BY <2>1, <2>2
<1>9. PICK r \in Seq(SUBSET Entry) : r = logs[n].recs /\ Len(r) \in Nat
  BY <1>7
<1>10. PICK W \in SUBSET Entry : W = write_batch
  BY <1>8
<1>11. /\ Append(r, W) \in Seq(SUBSET Entry) /\ Len(Append(r, W)) = Len(r) + 1
       /\ \A i \in 1..Len(r) : Append(r, W)[i] = r[i]
       /\ Append(r, W)[Len(r) + 1] = W
  BY <1>9, AppendProperties
<1>12. /\ DOMAIN logs' = DOMAIN logs
       /\ \A k \in DOMAIN logs : k # n => logs'[k] = logs[k]
       /\ logs'[n].recs = Append(r, W) /\ logs'[n].synced = logs[n].synced
       /\ logs'[n] \in [recs: Seq(SUBSET Entry), synced: Nat]
  <2>1. logs'[n] = [logs[n] EXCEPT !.recs = Append(r, W)] /\ n \in DOMAIN logs
    BY <1>2, <1>3, <1>4, <1>9, <1>10
  <2>2. logs'[n].recs = Append(r, W) /\ logs'[n].synced = logs[n].synced
    BY <1>7, <2>1
  <2>3. logs'[n] \in [recs: Seq(SUBSET Entry), synced: Nat]
    BY <1>7, <1>11, <2>1
  <2> QED
    BY <1>4, <2>2, <2>3
<1> HIDE <1>4
<1>13. /\ UNCHANGED <<calls, call, writers_, group, write_batch, status, mem_, imm_, tables,
                     manifest, last_sequence_, logfile_number_, log_number_, current, mode,
                     rlogs, edit, flushing, bgpc, compacting>>
  BY <1>4
<1>14. /\ \A i : i \in 1..Len(r) + 1 <=> i \in 1..Len(r) \/ i = Len(r) + 1
       /\ Len(r) + 1 > 0 /\ Len(logs[n].recs) = Len(r)
  BY <1>9
<1>15. /\ \A k \in DOMAIN logs : k # n => LogSet(k)' = LogSet(k) /\ SyncedSet(k)' = SyncedSet(k)
       /\ LogSet(n)' = LogSet(n) \cup W
       /\ SyncedSet(n)' = SyncedSet(n)
  <2>1. \A k \in DOMAIN logs : k # n => LogSet(k)' = LogSet(k) /\ SyncedSet(k)' = SyncedSet(k)
    BY <1>12 DEF LogSet, SyncedSet
  <2>2. LogSet(n)' = LogSet(n) \cup W
    <3>1. \A e : e \in LogSet(n)' <=> \E i \in 1..Len(r) + 1 : e \in Append(r, W)[i]
      BY <1>11, <1>12 DEF LogSet
    <3>2. \A e : e \in LogSet(n) <=> \E i \in 1..Len(r) : e \in r[i]
      BY <1>9 DEF LogSet
    <3> QED
      BY <1>11, <1>14, <3>1, <3>2
  <2>3. SyncedSet(n)' = SyncedSet(n)
    <3>1. \A i \in 1..logs[n].synced : i \in 1..Len(r)
      BY <1>7, <1>9
    <3>2. \A i \in 1..logs[n].synced : logs'[n].recs[i] = logs[n].recs[i]
      BY <1>9, <1>11, <1>12, <3>1
    <3>3. logs'[n].synced = logs[n].synced
      BY <1>12
    <3>4. \A e : e \in SyncedSet(n)' <=> e \in SyncedSet(n)
      BY <3>2, <3>3 DEF SyncedSet
    <3> QED
      BY <3>4
  <2> QED
    BY <2>1, <2>2, <2>3
<1>16. SameCalls
  BY <1>2, <1>13 DEF SameCalls, ThreadInv, ThreadTypes
<1>17. \A U \in Units : U \subseteq Entries /\ WholeIn(U, Entries)
  BY DEF DataInv, ContentInv, Entries
<1>18. ASSUME NEW U \in Units' PROVE U \in Units
  <2>1. Imm' = Imm
    BY <1>13 DEF Imm
  <2>2. ASSUME NEW k \in DOMAIN logs', NEW i \in 1..Len(logs'[k].recs), U = logs'[k].recs[i]
        PROVE  U \in Units
    <3>1. CASE k # n
      BY <1>12, <2>2, <3>1, UnitsIs
    <3>2. CASE k = n
      <4>1. i \in 1..Len(r) \/ i = Len(r) + 1
        BY <1>11, <1>12, <1>14, <2>2, <3>2
      <4>2. U = W \/ \E j \in 1..Len(logs[n].recs) : U = logs[n].recs[j]
        BY <1>9, <1>11, <1>12, <2>2, <3>2, <4>1
      <4> QED
        BY <1>2, <1>3, <1>10, <4>2, UnitsIs
    <3> QED
      BY <3>1, <3>2
  <2>3. \/ U = Imm \/ U = write_batch \/ U = mem_ \cup write_batch
        \/ \E k \in DOMAIN tables : U = tables[k]
        \/ \E k \in DOMAIN logs' : \E i \in 1..Len(logs'[k].recs) : U = logs'[k].recs[i]
    BY <1>13, <2>1, UnitsIsNext
  <2> QED
    BY <2>2, <2>3, UnitsIs
<1>19. ContentInv' /\ Entries' \subseteq Entries
  <2>1. WholeIn(mem_', Entries)
    BY <1>6, <1>13 DEF DataInv, ContentInv
  <2>2. \A U \in Units' : U \subseteq Entries /\ WholeIn(U, Entries)
    BY <1>17, <1>18
  <2> QED
    BY <1>2, <1>16, <2>1, <2>2, ContentKept DEF DataInv
<1>20. OwnInv'
  BY <1>13, <1>19, OwnFrame DEF DataInv
<1>21. BatchInv'
  <2>1. \A u : Batch(u)' = Batch(u)
    BY <1>13 DEF Batch
  <2>2. BatchInv /\ status = "ok" /\ ~(write_batch \subseteq mem_)
    BY <1>1 DEF DataInv, BatchInv
  <2>3. Len(logs'[n].recs) > 0 /\ logs'[n].recs[Len(logs'[n].recs)] = write_batch
    BY <1>9, <1>10, <1>11, <1>12, <1>14
  <2>4. LastRecord' = write_batch /\ Len(logs'[logfile_number_'].recs) > 0
    BY <1>3, <1>13, <2>3 DEF LastRecord
  <2>5. ASSUME NEW u \in Threads
        PROVE  /\ pc'[u] \in {"log", "sync", "insert"} => status' = "ok" /\ ~(write_batch' \subseteq mem_')
               /\ pc'[u] # "finish"
               /\ pc'[u] = "insert" => ~Batch(group[1]).sync
    <3>1. CASE u = t
      BY <1>2, <1>5, <1>13, <2>2, <3>1
    <3>2. CASE u # t
      BY <1>5, <3>2 DEF Writing
    <3> QED
      BY <3>1, <3>2
  <2> QED
    BY <1>13, <2>2, <2>4, <2>5, BatchKept
<1>22. InTables(manifest.version)' = InTables(manifest.version) /\ InTables(current)' = InTables(current)
       /\ TableSet(DOMAIN tables)' = TableSet(DOMAIN tables) /\ Imm' = Imm
  BY <1>13 DEF InTables, Files, TableSet, Imm
<1>23. SeqInv'
  <2>1. \A k \in DOMAIN logs' \ {n} : \A e \in LogSet(k)' : e.seq <= last_sequence_
    BY <1>2, <1>3, <1>12, <1>15 DEF DataInv, SeqInv
  <2>2. \A e \in Entries' : e \in write_batch \/ e.seq <= last_sequence_
    BY <1>2, <1>19 DEF DataInv, SeqInv
  <2> QED
    BY <1>2, <1>3, <1>13, <1>22, <2>1, <2>2 DEF DataInv, SeqInv
<1>24. FlushInv'
  BY <1>13, FlushFrame DEF DataInv
<1>25. DiskInv'
  <2>1. \A i \in 1..Len(logs'[n].recs) : logs'[n].recs[i] # {}
    BY <1>7, <1>8, <1>9, <1>10, <1>11, <1>12, <1>14
  <2>2. logs'[n].synced <= Len(logs'[n].recs)
    BY <1>7, <1>9, <1>11, <1>12
  <2>3. ASSUME NEW k \in DOMAIN logs', k # n
        PROVE  /\ logs'[k] \in [recs: Seq(SUBSET Entry), synced: Nat]
               /\ logs'[k].synced <= Len(logs'[k].recs)
               /\ \A i \in 1..Len(logs'[k].recs) : logs'[k].recs[i] = {} =>
                    i = Len(logs'[k].recs) /\ logs'[k].synced < i /\ "tear" \in Faults
    BY <1>12, <2>3 DEF DataInv, DiskInv
  <2> QED
    BY <1>12, <2>1, <2>2, <2>3 DEF DiskInv
<1>26. LogInv'
  <2>1. \A i : Answered(i)' <=> Answered(i)
    BY <1>13 DEF Answered
  <2>2. \A e \in W : ~Answered(e.id)
    BY <1>2, <1>10, GroupPending DEF DataInv
  <2>3. /\ \A k \in DOMAIN logs : k <= n
        /\ \A k \in DOMAIN logs : log_number_ <= k /\ k < n =>
             \A e \in LogSet(k) : Answered(e.id) => e \in Imm \cup InTables(manifest.version)
        /\ \A e \in LogSet(n) : Answered(e.id) => e \in mem_
    BY <1>2, <1>3 DEF DataInv, LogInv
  <2>4. n \in Nat /\ DOMAIN logs \subseteq Nat
    BY <1>3 DEF WritePathInv, FilesInv, FilesPart, FileTypes
  <2>5. \A k \in DOMAIN logs : k < n => k # n
    BY <2>4
  <2>6. \A k \in DOMAIN logs : log_number_ <= k /\ k < n =>
             \A e \in LogSet(k)' : Answered(e.id) => e \in Imm \cup InTables(manifest.version)
    BY <1>15, <2>3, <2>5
  <2>7. \A e \in LogSet(n)' : Answered(e.id) => e \in mem_
    BY <1>15, <2>2, <2>3
  <2> QED
    BY <1>3, <1>12, <1>13, <1>22, <2>1, <2>3, <2>6, <2>7 DEF LogInv
<1>27. RecLogInv'
  BY <1>2, <1>13 DEF RecLogInv
<1>28. AnswerInv'
  <2>1. OnDisk \subseteq OnDisk' /\ OnDiskSynced \subseteq OnDiskSynced'
    BY <1>12, <1>13, <1>15, <1>22, RecoverableIs, RecoverableIsNext, SyncedIs, SyncedIsNext
  <2>2. Served' = Served
    BY <1>13, <1>22 DEF Served
  <2> QED
    BY <1>2, <1>13, <2>1, <2>2, AnswersGrow DEF DataInv
<1> QED
  BY <1>19, <1>20, <1>21, <1>23, <1>24, <1>25, <1>26, <1>27, <1>28 DEF DataInv

\* logfile_->Sync(), failing or not: all of the log in use, or nothing new.
LEMMA SyncLogData ==
    ASSUME DataInv, WholeInv, WritePathInv, WritePathInv', NEW t \in Threads, SyncLog(t)
    PROVE  DataInv'
<1>1. pc[t] = "sync" /\ pc[t] \in Writing
  BY DEF SyncLog, Writing
<1>2. /\ ThreadInv /\ mode = "open" /\ logfile_number_ \in DOMAIN logs
      /\ \A u \in Threads : pc[u] \in Active => u = t
      /\ pc \in [Threads -> ThreadPcs] /\ ThreadInv'
  BY <1>1, WriterFacts DEF WritePathInv
<1>3. PICK n : n = logfile_number_
  OBVIOUS
<1>4. UNCHANGED <<calls, call, writers_, group, write_batch, mem_, imm_, tables,
                     manifest, last_sequence_, logfile_number_, log_number_, current, mode,
                     rlogs, edit, flushing, bgpc, compacting>>
  BY DEF SyncLog, writeUnchanged, queueVars, memVars, versionVars, bgVars, openVars
<1>5. /\ logs[n] \in [recs: Seq(SUBSET Entry), synced: Nat] /\ logs[n].synced <= Len(logs[n].recs)
      /\ \A i \in 1..Len(logs[n].recs) : logs[n].recs[i] # {}
      /\ Len(logs[n].recs) \in Nat /\ logs[n].recs \in Seq(SUBSET Entry)
  BY <1>2, <1>3, InUse DEF DataInv, DiskInv
<1>6. BatchInv /\ status = "ok" /\ ~(write_batch \subseteq mem_) /\ Len(logs[n].recs) > 0
      /\ LastRecord = write_batch
  BY <1>1, <1>3 DEF DataInv, BatchInv
<1>7. /\ DOMAIN logs' = DOMAIN logs
      /\ \A k \in DOMAIN logs : k # n => logs'[k] = logs[k]
      /\ logs'[n].recs = logs[n].recs
      /\ logs'[n].synced \in {logs[n].synced, Len(logs[n].recs)}
      /\ logs'[n] \in [recs: Seq(SUBSET Entry), synced: Nat]
      /\ \/ /\ logs'[n].synced = Len(logs[n].recs) /\ status' = "ok"
            /\ pc' = [pc EXCEPT ![t] = "insert"]
         \/ status' = "sync_error" /\ pc' = [pc EXCEPT ![t] = "finish"]
  <2>1. CASE /\ logs' = [logs EXCEPT ![logfile_number_].synced = Len(logs[logfile_number_].recs)]
             /\ pc' = [pc EXCEPT ![t] = "insert"] /\ UNCHANGED status
    <3>1. logs'[n] = [logs[n] EXCEPT !.synced = Len(logs[n].recs)] /\ n \in DOMAIN logs
      BY <1>2, <1>3, <2>1
    <3>2. logs'[n].recs = logs[n].recs /\ logs'[n].synced = Len(logs[n].recs)
      BY <1>5, <3>1
    <3>3. logs'[n] \in [recs: Seq(SUBSET Entry), synced: Nat]
      BY <1>5, <3>1
    <3>4. /\ DOMAIN logs' = DOMAIN logs
          /\ \A k \in DOMAIN logs : k # n => logs'[k] = logs[k]
      BY <1>3, <2>1
    <3> QED
      BY <1>6, <2>1, <3>2, <3>3, <3>4
  <2>2. CASE /\ status' = "sync_error" /\ pc' = [pc EXCEPT ![t] = "finish"] /\ UNCHANGED logs
    BY <1>5, <2>2
  <2> QED
    BY <2>1, <2>2 DEF SyncLog
<1>8. /\ \A k \in DOMAIN logs : /\ logs'[k].recs = logs[k].recs /\ LogSet(k)' = LogSet(k)
                                /\ SyncedSet(k) \subseteq SyncedSet(k)'
  <2>1. \A k \in DOMAIN logs : logs'[k].recs = logs[k].recs
    BY <1>7
  <2>2. \A k \in DOMAIN logs : LogSet(k)' = LogSet(k)
    BY <2>1 DEF LogSet
  <2>3. \A k \in DOMAIN logs : k # n => SyncedSet(k) \subseteq SyncedSet(k)'
    BY <1>7 DEF SyncedSet
  <2>4. 1..logs[n].synced \subseteq 1..logs'[n].synced
    BY <1>5, <1>7
  <2>5. SyncedSet(n) \subseteq SyncedSet(n)'
    BY <1>7, <2>4 DEF SyncedSet
  <2> QED
    BY <2>1, <2>2, <2>3, <2>5
<1>9. SameCalls
  BY <1>2, <1>4 DEF SameCalls, ThreadInv, ThreadTypes
<1>10. ~Inserting
  BY <1>1, <1>2 DEF Inserting, Active
<1>11. ContentInv' /\ Entries' \subseteq Entries
  <2>1. WholeIn(mem_', Entries)
    BY <1>4, <1>10 DEF DataInv, ContentInv
  <2>2. Imm' = Imm
    BY <1>4 DEF Imm
  <2>3. \A U \in Units' : U \in Units
    BY <1>4, <1>7, <1>8, <2>2, UnitsIs, UnitsIsNext
  <2>4. \A U \in Units' : U \subseteq Entries /\ WholeIn(U, Entries)
    BY <2>3 DEF DataInv, ContentInv, Entries
  <2> QED
    BY <1>2, <1>9, <2>1, <2>4, ContentKept DEF DataInv
<1>12. OwnInv'
  BY <1>4, <1>11, OwnFrame DEF DataInv
<1>13. BatchInv'
  <2>1. LastRecord' = write_batch /\ Len(logs'[logfile_number_'].recs) > 0
    BY <1>2, <1>3, <1>4, <1>6, <1>7 DEF LastRecord
  <2>2. \A u \in Threads \ {t} : pc'[u] \notin Writing
    BY <1>2, <1>7 DEF Active, Writing
  <2>3. pc'[t] = "insert" => status' = "ok" /\ logs'[logfile_number_'].synced = Len(logs'[logfile_number_'].recs)
    BY <1>2, <1>3, <1>4, <1>7
  <2>4. pc'[t] \in {"insert", "finish"} /\ (pc'[t] = "finish" => status' = "sync_error")
    BY <1>2, <1>7
  <2>5. status' \in {"ok", "sync_error"} /\ ~(write_batch \subseteq mem_')
    BY <1>4, <1>6, <1>7
  <2>6. ASSUME NEW u \in Threads, pc'[u] \in Writing PROVE u = t
    BY <2>2, <2>6
  <2> QED
    BY <1>4, <1>6, <2>1, <2>3, <2>4, <2>5, <2>6, BatchKept DEF Writing
<1>14. InTables(manifest.version)' = InTables(manifest.version) /\ InTables(current)' = InTables(current)
       /\ TableSet(DOMAIN tables)' = TableSet(DOMAIN tables) /\ Imm' = Imm
  BY <1>4 DEF InTables, Files, TableSet, Imm
<1>15. SeqInv'
  <2>1. \A k \in DOMAIN logs' \ {n} : \A e \in LogSet(k)' : e.seq <= last_sequence_
    BY <1>2, <1>3, <1>7, <1>8 DEF DataInv, SeqInv
  <2>2. \A e \in Entries' : e \in write_batch \/ e.seq <= last_sequence_
    BY <1>2, <1>11 DEF DataInv, SeqInv
  <2> QED
    BY <1>2, <1>3, <1>4, <1>14, <2>1, <2>2 DEF DataInv, SeqInv
<1>16. FlushInv'
  BY <1>4, FlushFrame DEF DataInv
<1>17. DiskInv'
  <2>1. logs'[n].synced <= Len(logs'[n].recs)
    BY <1>5, <1>7
  <2>2. \A i \in 1..Len(logs'[n].recs) : logs'[n].recs[i] # {}
    BY <1>5, <1>7
  <2>3. ASSUME NEW k \in DOMAIN logs', k # n
        PROVE  /\ logs'[k] \in [recs: Seq(SUBSET Entry), synced: Nat]
               /\ logs'[k].synced <= Len(logs'[k].recs)
               /\ \A i \in 1..Len(logs'[k].recs) : logs'[k].recs[i] = {} =>
                    i = Len(logs'[k].recs) /\ logs'[k].synced < i /\ "tear" \in Faults
    BY <1>7, <2>3 DEF DataInv, DiskInv
  <2> QED
    BY <1>7, <2>1, <2>2, <2>3 DEF DiskInv
<1>18. LogInv'
  <2>1. \A i : Answered(i)' <=> Answered(i)
    BY <1>4 DEF Answered
  <2> QED
    BY <1>2, <1>4, <1>7, <1>8, <1>14, <2>1 DEF DataInv, LogInv
<1>19. RecLogInv'
  BY <1>2, <1>4 DEF RecLogInv
<1>20. AnswerInv'
  <2>1. OnDisk \subseteq OnDisk' /\ OnDiskSynced \subseteq OnDiskSynced'
    BY <1>4, <1>7, <1>8, <1>14, RecoverableIs, RecoverableIsNext, SyncedIs, SyncedIsNext
  <2>2. Served' = Served
    BY <1>4, <1>14 DEF Served
  <2> QED
    BY <1>2, <1>4, <2>1, <2>2, AnswersGrow DEF DataInv
<1> QED
  BY <1>11, <1>12, <1>13, <1>15, <1>16, <1>17, <1>18, <1>19, <1>20 DEF DataInv

\* InsertInto, entry by entry.
LEMMA InsertIntoData ==
    ASSUME DataInv, WritePathInv, WritePathInv', NEW t \in Threads, InsertInto(t)
    PROVE  DataInv'
<1>1. pc[t] = "insert" /\ pc[t] \in Writing
  BY DEF InsertInto, Writing
<1>2. /\ ThreadInv /\ mode = "open" /\ logfile_number_ \in DOMAIN logs
      /\ \A u \in Threads : pc[u] \in Active => u = t
      /\ pc \in [Threads -> ThreadPcs] /\ ThreadInv'
  BY <1>1, WriterFacts DEF WritePathInv
<1>3. /\ BatchInv /\ status = "ok" /\ ~(write_batch \subseteq mem_)
      /\ Len(logs[logfile_number_].recs) > 0 /\ LastRecord = write_batch
      /\ Batch(group[1]).sync => logs[logfile_number_].synced = Len(logs[logfile_number_].recs)
  BY <1>1 DEF DataInv, BatchInv
<1>4. PICK e \in write_batch \ mem_ : mem_' = mem_ \cup {e}
  <2> DEFINE R == write_batch \ mem_
             S == {x.seq : x \in R}
             e == CHOOSE x \in R : \A y \in R : x.seq <= y.seq
  <2>1. S \in SUBSET Nat /\ S # {}
    <3>1. write_batch \subseteq Entry
      BY EntriesIs DEF DataInv, ContentInv
    <3> QED
      BY <1>3, <3>1 DEF Entry
  <2>2. PICK m \in S : \A k \in S : m <= k
    BY <2>1, LeastElement
  <2>3. \E x \in R : \A y \in R : x.seq <= y.seq
    BY <2>2
  <2>4. e \in R
    BY <2>3
  <2>5. mem_' = mem_ \cup {e}
    BY DEF InsertInto
  <2> QED
    BY <2>4, <2>5
<1>5. /\ UNCHANGED <<calls, call, writers_, group, write_batch, status, imm_, logs, tables,
                     manifest, last_sequence_, logfile_number_, log_number_, current, mode,
                     rlogs, edit, flushing, bgpc, compacting>>
      /\ pc' = IF write_batch \subseteq mem_' THEN [pc EXCEPT ![t] = "finish"] ELSE pc
  BY DEF InsertInto, queueVars, headVars, memVars, versionVars, bgVars, openVars, diskVars, InsertedAll
<1>6. SameCalls
  BY <1>2, <1>5 DEF SameCalls, ThreadInv, ThreadTypes
<1>7. mem_' \cup write_batch' = mem_ \cup write_batch /\ mem_ \subseteq mem_'
  BY <1>4, <1>5
<1>8. \A U \in Units : U \subseteq Entries /\ WholeIn(U, Entries)
  BY DEF DataInv, ContentInv, Entries
<1>9. ContentInv' /\ Entries' \subseteq Entries
  <2>1. Imm' = Imm
    BY <1>5 DEF Imm
  <2>2. \A U \in Units' : U \in Units
    BY <1>5, <1>7, <2>1, UnitsIs, UnitsIsNext
  <2>3. Inserting' \/ WholeIn(mem_', Entries)
    <3>1. CASE write_batch \subseteq mem_'
      <4>1. mem_' = mem_ \cup write_batch
        BY <1>5, <1>7, <3>1
      <4> QED
        BY <1>8, <4>1, UnitsIs
    <3>2. CASE ~(write_batch \subseteq mem_')
      <4>1. pc'[t] = "insert"
        BY <1>1, <1>5, <3>2
      <4> QED
        BY <4>1 DEF Inserting
    <3> QED
      BY <3>1, <3>2
  <2>4. \A U \in Units' : U \subseteq Entries /\ WholeIn(U, Entries)
    BY <1>8, <2>2
  <2> QED
    BY <1>2, <1>6, <2>3, <2>4, ContentKept DEF DataInv
<1>10. OwnInv'
  BY <1>5, <1>9, OwnFrame DEF DataInv
<1>11. BatchInv'
  <2>1. LastRecord' = write_batch /\ Len(logs'[logfile_number_'].recs) > 0
    BY <1>3, <1>5 DEF LastRecord
  <2>2. \A u \in Threads \ {t} : pc'[u] \notin Writing
    BY <1>2, <1>5 DEF Active, Writing
  <2>3. /\ write_batch \subseteq mem_' => pc'[t] = "finish"
        /\ ~(write_batch \subseteq mem_') => pc'[t] = "insert"
    BY <1>1, <1>2, <1>5
  <2>4. status' = "ok" /\ (Batch(group[1]).sync => logs'[logfile_number_'].synced = Len(logs'[logfile_number_'].recs))
    BY <1>3, <1>5
  <2>5. ASSUME NEW u \in Threads, pc'[u] \in Writing PROVE u = t
    BY <2>2, <2>5
  <2> QED
    BY <1>3, <1>5, <2>1, <2>3, <2>4, <2>5, BatchKept DEF Writing
<1>12. InTables(current)' = InTables(current) /\ Imm' = Imm
  BY <1>5 DEF InTables, Files, Imm
<1>13. /\ \A n : LogSet(n)' = LogSet(n)
       /\ InTables(manifest.version)' = InTables(manifest.version)
       /\ TableSet(DOMAIN tables)' = TableSet(DOMAIN tables)
       /\ OnDisk' = OnDisk /\ OnDiskSynced' = OnDiskSynced /\ DiskInv'
  BY <1>5, SameDisk DEF DataInv
<1>14. SeqInv'
  BY <1>2, <1>5, <1>9, <1>12, <1>13 DEF DataInv, SeqInv
<1>15. FlushInv'
  BY <1>5, FlushFrame DEF DataInv
<1>16. LogInv'
  <2>1. \A i : Answered(i)' <=> Answered(i)
    BY <1>5 DEF Answered
  <2> QED
    BY <1>2, <1>5, <1>7, <1>12, <1>13, <2>1 DEF DataInv, LogInv
<1>17. RecLogInv'
  BY <1>2, <1>5 DEF RecLogInv
<1>18. AnswerInv'
  <2>1. Served \subseteq Served'
    BY <1>5, <1>7, <1>12 DEF Served
  <2> QED
    BY <1>2, <1>5, <1>13, <2>1, AnswersGrow DEF DataInv
<1> QED
  BY <1>9, <1>10, <1>11, <1>13, <1>14, <1>15, <1>16, <1>17, <1>18 DEF DataInv

\* The end of Write(): what is answered with success is logged, synced when
\* asked, in mem_, and below the new last_sequence_.
LEMMA FinishWriteData ==
    ASSUME DataInv, WritePathInv, WritePathInv', NEW t \in Threads, FinishWrite(t)
    PROVE  DataInv'
<1>1. pc[t] = "finish" /\ pc[t] \in Writing
  BY DEF FinishWrite, Writing
<1>2. /\ ThreadInv /\ mode = "open" /\ logfile_number_ \in DOMAIN logs
      /\ \A u \in Threads : pc[u] \in Active => u = t
      /\ IsFront(group) /\ Len(group) \in Nat /\ 1 \in 1..Len(group) /\ group[1] = t
      /\ pc \in [Threads -> ThreadPcs] /\ pc[t] \in Active
  BY <1>1, WriterFacts
<1>3. ThreadInv'
  BY DEF WritePathInv
<1>4. PICK m : m = Len(group)
  OBVIOUS
<1>5. PICK W : W = write_batch
  OBVIOUS
<1>6. PICK res \in Results : res = IF status = "ok" THEN "ok" ELSE "error"
  BY DEF Results
<1>7. PICK g : g = group
  OBVIOUS
<1>8. /\ UNCHANGED <<call, mem_, imm_, logs, tables, manifest, logfile_number_, log_number_,
                     current, mode, rlogs, edit, flushing, bgpc, compacting>>
      /\ group' = << >> /\ write_batch' = {} /\ status' = "ok"
      /\ last_sequence_' = last_sequence_ + Cardinality(W)
      /\ AnswerGroup(t, g, res)
  BY <1>5, <1>6, <1>7 DEF FinishWrite, versionVars, bgVars, openVars, diskVars
<1>9. \A u \in Threads : pc'[u] \notin Writing
  <2>1. \A u \in Threads \ {t} : pc[u] \notin Active
    BY <1>2
  <2>2. pc' = [pc EXCEPT ![t] = "idle"] \/ pc' = Woken([pc EXCEPT ![t] = "idle"])
    BY DEF FinishWrite, RecordBackgroundError
  <2> QED
    BY <1>2, <2>1, <2>2 DEF Woken, Writing, Active
<1>10. ~Inserting /\ ~Inserting'
  BY <1>1, <1>2, <1>9 DEF Inserting, Active, Writing
<1>11. /\ Len(calls') = Len(calls)
       /\ \A i \in 1..Len(calls) :
            /\ calls'[i].count = calls[i].count /\ calls'[i].sync = calls[i].sync
            /\ (\E k \in 1..m : i = call[writers_[k]]) => calls'[i].res = res
            /\ ~(\E k \in 1..m : i = call[writers_[k]]) => calls'[i] = calls[i]
       /\ Len(writers_') = Len(writers_) - m
       /\ \A i \in 1..Len(writers_') : writers_'[i] = writers_[i + m]
  <2>1. IsFront(g) /\ m = Len(g)
    BY <1>2, <1>4, <1>7
  <2>2. ThreadInv /\ pc[t] \in Active /\ AnswerGroup(t, g, res)
    BY <1>2, <1>8
  <2>3. /\ Len(calls') = Len(calls)
        /\ \A i \in 1..Len(calls) :
            /\ calls'[i].count = calls[i].count /\ calls'[i].sync = calls[i].sync
            /\ (\E k \in 1..Len(g) : i = call[writers_[k]]) => calls'[i].res = res
            /\ ~(\E k \in 1..Len(g) : i = call[writers_[k]]) => calls'[i] = calls[i]
        /\ Len(writers_') = Len(writers_) - Len(g)
        /\ \A i \in 1..Len(writers_') : writers_'[i] = writers_[i + Len(g)]
    BY <2>1, <2>2, AnswerGroupEffect, SMTT(30)
  <2> QED
    BY <2>1, <2>3
<1>12. /\ Len(calls) \in Nat /\ Len(writers_) \in Nat /\ m \in Nat /\ m <= Len(writers_)
       /\ \A i \in 1..m : i \in 1..Len(writers_) /\ group[i] = writers_[i]
  <2>1. Len(calls) \in Nat /\ Len(writers_) \in Nat
    BY <1>2 DEF ThreadInv, ThreadTypes
  <2>2. m \in Nat /\ m <= Len(writers_) /\ \A i \in 1..m : group[i] = writers_[i]
    BY <1>2, <1>4 DEF IsFront
  <2> QED
    BY <2>1, <2>2
<1>13. SameCalls
  BY <1>11, <1>12 DEF SameCalls
<1>14. BatchInv /\ IsFiniteSet(W) /\ Cardinality(W) \in Nat /\ last_sequence_ \in Nat
       /\ \A e \in W : last_sequence_ < e.seq /\ e.seq <= last_sequence_ + Cardinality(W)
  BY <1>5, FS_CardinalityType DEF DataInv, BatchInv, SeqInv
<1>15. /\ \A e \in W : \E i \in 1..m : e.id = call[writers_[i]]
       /\ \A i \in 1..m :
            /\ calls[call[writers_[i]]].count # 0 => \E e \in W : e.id = call[writers_[i]]
            /\ calls[call[writers_[i]]].sync => calls[call[group[1]]].sync
  BY <1>4, <1>5, <1>12, <1>14 DEF BatchInv, Batch
<1>16. /\ status = "ok" => W \subseteq mem_
       /\ Len(logs[logfile_number_].recs) > 0 /\ LastRecord = W
       /\ status = "ok" /\ calls[call[group[1]]].sync =>
            logs[logfile_number_].synced = Len(logs[logfile_number_].recs)
  BY <1>1, <1>5, <1>14 DEF BatchInv, Batch
<1>17. mem_ \subseteq Entries /\ WholeIn(mem_, Entries)
       /\ \A U \in Units : U \subseteq Entries /\ WholeIn(U, Entries)
  BY <1>10, EntriesIs DEF DataInv, ContentInv, Entries
<1>18. Imm' = Imm /\ InTables(current)' = InTables(current)
  BY <1>8 DEF Imm, InTables, Files
<1>19. ContentInv' /\ Entries' \subseteq Entries
  <2>1. ASSUME NEW U \in Units' PROVE U \in Units \/ U = {} \/ U = mem_
    BY <1>8, <1>18, UnitsIs, UnitsIsNext
  <2>2. \A U \in Units' : U \subseteq Entries /\ WholeIn(U, Entries)
    BY <1>17, <2>1, WholeEmpty
  <2> QED
    BY <1>2, <1>3, <1>8, <1>13, <1>17, <2>2, ContentKept DEF DataInv
<1>20. \A a, b \in 1..Len(writers_) : a < b => call[writers_[a]] < call[writers_[b]]
  BY <1>2 DEF ThreadInv, QueueInv
<1>21. \A e \in Entries : e \in W \/ \A i \in 1..Len(writers_) : e.id < call[writers_[i]]
  BY <1>5 DEF DataInv, OwnInv
<1>22. OwnInv'
  <2> SUFFICES ASSUME NEW e \in Entries', NEW i \in 1..Len(writers_')
               PROVE  e.id < call'[writers_'[i]]
    BY DEF OwnInv
  <2>1. i + m \in 1..Len(writers_) /\ writers_'[i] = writers_[i + m] /\ i \in Nat /\ i > 0
    BY <1>11, <1>12
  <2>2. CASE e \in W
    <3>1. PICK k \in 1..m : e.id = call[writers_[k]]
      BY <1>15, <2>2
    <3>2. k \in 1..Len(writers_) /\ k < i + m
      BY <1>12, <2>1
    <3> QED
      BY <1>8, <1>20, <2>1, <3>1, <3>2
  <2>3. CASE e \notin W
    BY <1>8, <1>19, <1>21, <2>1, <2>3
  <2> QED
    BY <2>2, <2>3
<1>23. BatchInv'
  BY <1>8, <1>9, FS_EmptySet DEF BatchInv, Writing
<1>24. /\ \A n : LogSet(n)' = LogSet(n) /\ SyncedSet(n)' = SyncedSet(n)
       /\ InTables(manifest.version)' = InTables(manifest.version)
       /\ TableSet(DOMAIN tables)' = TableSet(DOMAIN tables)
       /\ OnDisk' = OnDisk /\ OnDiskSynced' = OnDiskSynced /\ DiskInv'
  BY <1>8, SameDisk DEF DataInv
<1>25. Entries \subseteq Entry
  BY DEF DataInv, ContentInv
<1>26. SeqInv'
  <2> DEFINE last == last_sequence_
             lastN == last_sequence_ + Cardinality(W)
  <2>1. lastN \in Nat /\ last <= lastN
    BY <1>14
  <2>2. \A e \in Entries : e.seq \in Nat /\ e.seq <= lastN
    <3>1. \A e \in Entries : e \in W \/ e.seq <= last_sequence_
      BY <1>2, <1>5 DEF DataInv, SeqInv
    <3>2. \A e \in Entries : e.seq \in Nat
      BY <1>25 DEF Entry
    <3> QED
      BY <1>14, <2>1, <3>1, <3>2
  <2> HIDE DEF lastN
  <2>3. Imm \subseteq Entries /\ TableSet(DOMAIN tables) \subseteq Entries
        /\ \A n \in DOMAIN logs : LogSet(n) \subseteq Entries
    BY EntriesIs DEF TableSet
  <2>4. manifest.last_sequence \in Nat /\ manifest.last_sequence <= lastN
        /\ \A e \in InTables(manifest.version) : e.seq <= manifest.last_sequence
    BY <1>2, <1>14, <2>1 DEF DataInv, SeqInv
  <2>5. last_sequence_' = lastN
    BY <1>8 DEF lastN
  <2> QED
    BY <1>2, <1>8, <1>18, <1>19, <1>24, <2>1, <2>2, <2>3, <2>4, <2>5 DEF SeqInv
<1>27. FlushInv'
  BY <1>8, FlushFrame DEF DataInv
(* The calls answered by this step. *)
<1>28. ASSUME NEW i \in 1..Len(calls), Answered(i)'
       PROVE  Answered(i) \/ (status = "ok" /\ \E k \in 1..m : i = call[writers_[k]])
  <2>1. CASE \E k \in 1..m : i = call[writers_[k]]
    BY <1>6, <1>11, <1>28, <2>1 DEF Answered
  <2>2. CASE ~(\E k \in 1..m : i = call[writers_[k]])
    <3>1. calls'[i] = calls[i]
      BY <1>11, <2>2
    <3> QED
      BY <1>28, <3>1 DEF Answered
  <2> QED
    BY <2>1, <2>2
<1>29. ASSUME NEW e \in Entries, Answered(e.id)', ~Answered(e.id)
       PROVE  status = "ok" /\ e \in W
  <2>1. e.id \in 1..Len(calls)
    BY DEF DataInv, ContentInv, CountIn
  <2>2. status = "ok" /\ \E k \in 1..m : e.id = call[writers_[k]]
    BY <1>28, <1>29, <2>1
  <2>3. PICK k \in 1..m : e.id = call[writers_[k]]
    BY <2>2
  <2>4. k \in 1..Len(writers_) /\ e.id \in Nat
    BY <1>12, <1>25 DEF Entry
  <2>5. ~(e.id < call[writers_[k]])
    BY <2>3, <2>4
  <2> QED
    BY <1>21, <2>2, <2>4, <2>5
<1>30. LogInv'
  <2>1. /\ \A n \in DOMAIN logs : n <= logfile_number_
        /\ \A n \in DOMAIN logs : log_number_ <= n /\ n < logfile_number_ =>
             \A e \in LogSet(n) : Answered(e.id) => e \in Imm \cup InTables(manifest.version)
        /\ \A e \in LogSet(logfile_number_) : Answered(e.id) => e \in mem_
    BY <1>2 DEF DataInv, LogInv
  <2>2. \A n \in DOMAIN logs : LogSet(n) \subseteq Entries
    BY EntriesIs
  <2>3. ASSUME NEW e \in LogSet(logfile_number_), Answered(e.id)' PROVE e \in mem_
    <3>1. e \in Entries
      BY <1>2, <2>2
    <3> QED
      BY <1>16, <1>29, <2>1, <2>3, <3>1
  <2>4. ASSUME NEW n \in DOMAIN logs, log_number_ <= n, n < logfile_number_,
               NEW e \in LogSet(n), Answered(e.id)'
        PROVE  e \in Imm \cup InTables(manifest.version)
    <3>1. n # logfile_number_
      <4>1. n \in Nat /\ logfile_number_ \in Nat
        BY DEF WritePathInv, FilesInv, FilesPart, FileTypes
      <4> QED
        BY <2>4, <4>1
    <3>2. e.seq <= last_sequence_ /\ e \in Entries /\ e.seq \in Nat
      BY <1>2, <1>25, <2>2, <3>1 DEF DataInv, SeqInv, Entry
    <3>3. e \notin W
      BY <1>14, <3>2
    <3>4. Answered(e.id)
      BY <1>29, <2>4, <3>2, <3>3
    <3> QED
      BY <2>1, <2>4, <3>4
  <2> QED
    BY <1>8, <1>18, <1>24, <2>1, <2>3, <2>4 DEF LogInv
<1>31. RecLogInv'
  BY <1>2, <1>8 DEF RecLogInv
<1>32. AnswerInv'
  <2>1. Served' = Served
    BY <1>8, <1>18 DEF Served
  <2>2. ASSUME NEW i \in 1..Len(calls) PROVE calls'[i].sync => calls'[i].count # 0
    BY <1>11 DEF DataInv, AnswerInv
  <2>3. ASSUME NEW i \in 1..Len(calls), Answered(i)'
        PROVE  /\ \E e \in OnDisk : e.id = i
               /\ calls[i].sync => \E e \in OnDiskSynced : e.id = i
               /\ \E e \in Served : e.id = i
    <3>1. CASE Answered(i)
      BY <1>2, <3>1 DEF DataInv, AnswerInv
    <3>2. CASE ~Answered(i)
      <4>1. status = "ok" /\ \E k \in 1..m : i = call[writers_[k]]
        BY <1>28, <2>3, <3>2
      <4>2. PICK k \in 1..m : i = call[writers_[k]]
        BY <4>1
      <4>3. calls[i].count # 0
        BY <1>11, <2>3 DEF Answered
      <4>4. PICK e \in W : e.id = i
        BY <1>15, <4>2, <4>3
      <4>5. e \in mem_
        BY <1>16, <4>1, <4>4
      <4>6. logfile_number_ \in DOMAIN logs /\ logfile_number_ >= manifest.log_number
        <5>1. manifest.log_number <= logfile_number_ /\ manifest.log_number \in Nat
              /\ logfile_number_ \in Nat
          BY <1>2 DEF WritePathInv, FilesInv, FilesPart, FileTypes, OpenInv
        <5> QED
          BY <1>2, <5>1
      <4>7. Len(logs[logfile_number_].recs) \in Nat
        BY <1>2 DEF DataInv, DiskInv
      <4>8. e \in LogSet(logfile_number_)
        BY <1>16, <4>4, <4>7 DEF LogSet, LastRecord
      <4>9. calls[i].sync => e \in SyncedSet(logfile_number_)
        <5>1. calls[i].sync => logs[logfile_number_].synced = Len(logs[logfile_number_].recs)
          BY <1>15, <1>16, <4>1, <4>2
        <5> QED
          BY <4>8, <5>1 DEF LogSet, SyncedSet
      <4>10. e \in OnDisk /\ (calls[i].sync => e \in OnDiskSynced)
        BY <4>6, <4>8, <4>9, RecoverableIs, SyncedIs
      <4> QED
        BY <4>4, <4>5, <4>10 DEF Served
    <3> QED
      BY <3>1, <3>2
  <2>4. \A i \in 1..Len(calls) : calls'[i].sync = calls[i].sync
    BY <1>11
  <2> QED
    BY <1>11, <1>24, <2>1, <2>2, <2>3, <2>4 DEF AnswerInv
<1> QED
  BY <1>19, <1>22, <1>23, <1>24, <1>26, <1>27, <1>30, <1>31, <1>32 DEF DataInv

(* A step of the background thread: the writers, the memtable and the current log stay. *)
backgroundVars == <<calls, call, pc, writers_, group, write_batch, status, mem_,
                    last_sequence_, mode, rlogs, logfile_number_>>

\* The tables of the manifest exist.
LEMMA ManifestTables ==
    ASSUME WholeRecords, WritePathInv
    PROVE  NewManifests /\ Files(manifest.version) \subseteq DOMAIN tables
  BY DEF WholeRecords, NewManifests, WritePathInv, FilesInv, FilesPart, ManifestInv

\* Such a step keeps the writers' part of the invariant.
LEMMA BackgroundKept ==
    ASSUME DataInv, WritePathInv, WritePathInv', mode = "open", UNCHANGED backgroundVars,
           DOMAIN logs' \subseteq DOMAIN logs, \A n \in DOMAIN logs' : logs'[n] = logs[n],
           Imm' \in {Imm, {}},
           \A n \in DOMAIN tables' :
              /\ tables'[n] \subseteq Imm \cup TableSet(DOMAIN tables)
              /\ WholeIn(tables'[n], Entries),
           manifest'.last_sequence \in Nat, manifest'.last_sequence <= last_sequence_,
           \A e \in InTables(manifest.version)' : e.seq <= manifest'.last_sequence
    PROVE  /\ ContentInv' /\ OwnInv' /\ BatchInv' /\ SeqInv' /\ DiskInv' /\ RecLogInv'
           /\ Entries' \subseteq Entries
<1> USE DEF backgroundVars
<1>1. ThreadInv /\ ThreadInv' /\ logfile_number_ \in DOMAIN logs /\ logfile_number_ \in DOMAIN logs'
  BY DEF WritePathInv, FilesInv, FilesPart, OpenInv
<1>2. \A n \in DOMAIN logs' : LogSet(n)' = LogSet(n)
  BY DEF LogSet
<1>3. SameCalls
  BY <1>1 DEF SameCalls, ThreadInv, ThreadTypes
<1>4. Imm \subseteq Entries /\ TableSet(DOMAIN tables) \subseteq Entries
  BY EntriesIs DEF TableSet
<1>5. \A U \in Units : U \subseteq Entries /\ WholeIn(U, Entries)
  BY DEF DataInv, ContentInv, Entries
<1>6. ASSUME NEW U \in Units' PROVE U \subseteq Entries /\ WholeIn(U, Entries)
  <2>1. \/ U \in {Imm, {}} \/ U = write_batch \/ U = mem_ \cup write_batch
        \/ \E n \in DOMAIN tables' : U = tables'[n]
        \/ \E n \in DOMAIN logs' : \E i \in 1..Len(logs'[n].recs) : U = logs'[n].recs[i]
    BY UnitsIsNext
  <2>2. ASSUME NEW n \in DOMAIN tables', U = tables'[n]
        PROVE  U \subseteq Entries /\ WholeIn(U, Entries)
    BY <1>4, <2>2
  <2>3. U \in Units \/ U = {} \/ \E n \in DOMAIN tables' : U = tables'[n]
    BY <2>1, UnitsIs
  <2> QED
    BY <1>5, <2>2, <2>3, WholeEmpty
<1>7. Inserting' \/ WholeIn(mem_', Entries)
  BY DEF DataInv, ContentInv, Inserting
<1>8. ContentInv' /\ Entries' \subseteq Entries
  BY <1>1, <1>3, <1>6, <1>7, ContentKept DEF DataInv
<1>9. OwnInv'
  BY <1>8, OwnFrame DEF DataInv
<1>10. BatchInv'
  BY <1>1 DEF DataInv, BatchInv, Batch, LastRecord
<1>11. SeqInv'
  <2>1. \A e \in Imm \cup TableSet(DOMAIN tables) : e.seq <= last_sequence_
    BY DEF DataInv, SeqInv
  <2>2. \A e \in Imm' \cup TableSet(DOMAIN tables)' : e \in Imm \cup TableSet(DOMAIN tables)
    <3>1. \A e : e \in TableSet(DOMAIN tables)' <=> \E n \in DOMAIN tables' : e \in tables'[n]
      BY DEF TableSet
    <3> QED
      BY <3>1
  <2>3. \A n \in DOMAIN logs' \ {logfile_number_} : \A e \in LogSet(n)' : e.seq <= last_sequence_
    BY <1>2 DEF DataInv, SeqInv
  <2>4. \A e \in Entries' : e \in write_batch \/ e.seq <= last_sequence_
    BY <1>8 DEF DataInv, SeqInv
  <2>5. last_sequence_ \in Nat
    BY DEF DataInv, SeqInv
  <2> QED
    BY <2>1, <2>2, <2>3, <2>4, <2>5 DEF SeqInv
<1>12. DiskInv'
  BY DEF DataInv, DiskInv
<1>13. RecLogInv'
  BY DEF RecLogInv
<1> QED
  BY <1>8, <1>9, <1>10, <1>11, <1>12, <1>13

(* A table is written that no version names yet: nothing is lost and nothing is found. *)
LEMMA TableWritten ==
    ASSUME WholeRecords, DataInv, WritePathInv, WritePathInv', mode = "open", UNCHANGED backgroundVars,
           UNCHANGED <<logs, imm_, manifest, current, log_number_>>,
           DOMAIN tables \subseteq DOMAIN tables', NEW n,
           \A k \in DOMAIN tables : k # n => tables'[k] = tables[k],
           \A k \in DOMAIN tables' : k \in DOMAIN tables \/ k = n,
           n \notin Files(current) \cup Files(manifest.version),
           tables'[n] \subseteq Imm \cup TableSet(DOMAIN tables), WholeIn(tables'[n], Entries)
    PROVE  /\ ContentInv' /\ OwnInv' /\ BatchInv' /\ SeqInv' /\ DiskInv' /\ RecLogInv'
           /\ LogInv' /\ AnswerInv'
<1>1. Files(current) \subseteq DOMAIN tables /\ Files(manifest.version) \subseteq DOMAIN tables
  BY ManifestTables DEF WritePathInv, FilesInv, FilesPart, OpenInv
<1>2. /\ InTables(current)' = InTables(current)
      /\ InTables(manifest.version)' = InTables(manifest.version)
  BY <1>1 DEF InTables, Files
<1>3. Imm' = Imm
  BY DEF Imm
<1>4. ASSUME NEW k \in DOMAIN tables'
      PROVE  /\ tables'[k] \subseteq Imm \cup TableSet(DOMAIN tables)
             /\ WholeIn(tables'[k], Entries)
  <2>1. CASE k = n
    BY <2>1
  <2>2. CASE k # n
    <3>1. k \in DOMAIN tables /\ tables'[k] = tables[k]
      BY <2>2
    <3>2. tables[k] \in Units /\ tables[k] \subseteq TableSet(DOMAIN tables)
      BY <3>1, UnitsIs DEF TableSet
    <3> QED
      BY <3>1, <3>2 DEF DataInv, ContentInv
  <2> QED
    BY <2>1, <2>2
<1>5. /\ manifest.last_sequence \in Nat /\ manifest.last_sequence <= last_sequence_
      /\ \A e \in InTables(manifest.version) : e.seq <= manifest.last_sequence
  BY DEF DataInv, SeqInv
<1>6. /\ ContentInv' /\ OwnInv' /\ BatchInv' /\ SeqInv' /\ DiskInv' /\ RecLogInv'
  BY <1>2, <1>3, <1>4, <1>5, BackgroundKept
<1>7. \A k : LogSet(k)' = LogSet(k) /\ SyncedSet(k)' = SyncedSet(k)
  BY DEF LogSet, SyncedSet
<1>8. LogInv'
  BY <1>2, <1>3, <1>7 DEF DataInv, LogInv, Answered, backgroundVars
<1>9. AnswerInv'
  <2>1. OnDisk' = OnDisk /\ OnDiskSynced' = OnDiskSynced
    BY <1>2, <1>7, RecoverableIs, RecoverableIsNext, SyncedIs, SyncedIsNext
  <2>2. Served' = Served
    BY <1>2, <1>3 DEF Served, backgroundVars
  <2>3. ThreadInv /\ calls' = calls /\ mode' = mode
    BY DEF WritePathInv, backgroundVars
  <2> QED
    BY <2>1, <2>2, <2>3, AnswersGrow DEF DataInv
<1> QED
  BY <1>6, <1>8, <1>9

\* BuildTable: a table with what imm_ holds.
LEMMA BuildTableData ==
    ASSUME WholeRecords, DataInv, WritePathInv, WritePathInv', BuildTable
    PROVE  DataInv'
<1>1. CASE bgpc' = "buildfailed"
  BY <1>1, BackgroundQuiet
<1>2. CASE bgpc' # "buildfailed" /\ imm_[1] # {}
  <2>1. PICK n : n = flushing
    OBVIOUS
  <2>2. /\ UNCHANGED backgroundVars /\ UNCHANGED <<logs, imm_, manifest, current, log_number_>>
        /\ tables' = Created(tables, n, imm_[1]) /\ bgpc = "build" /\ bgpc' = "built"
        /\ UNCHANGED <<flushing, compacting>>
    BY <1>2, <2>1 DEF BuildTable, bgUnchanged, backgroundVars, queueVars, headVars, openVars, versionVars
  <2>3. /\ mode = "open" /\ flushing # NoFile /\ imm_ # None /\ n \notin DOMAIN tables
        /\ imm_ = None \/ \E m : imm_ = <<m>>
        /\ n \notin Files(current) \cup Files(manifest.version)
    BY <2>1, <2>2 DEF WritePathInv, FilesInv, FilesPart, ClosedInv, BackgroundInv, FileTypes
  <2>4. imm_[1] = Imm
    <3>1. PICK m : imm_ = <<m>>
      BY <2>3
    <3> QED
      BY <3>1, ImmSome
  <2>5. /\ DOMAIN tables' = DOMAIN tables \cup {n} /\ tables'[n] = Imm
        /\ \A k \in DOMAIN tables : tables'[k] = tables[k]
    BY <2>2, <2>3, <2>4 DEF Created
  <2>6. WholeIn(Imm, Entries)
    BY UnitsIs DEF DataInv, ContentInv
  <2>7. /\ ContentInv' /\ OwnInv' /\ BatchInv' /\ SeqInv' /\ DiskInv' /\ RecLogInv'
        /\ LogInv' /\ AnswerInv'
    BY <2>2, <2>3, <2>5, <2>6, TableWritten
  <2>8. FlushInv'
    BY <2>1, <2>2, <2>5 DEF FlushInv, Imm, Busy
  <2> QED
    BY <2>7, <2>8 DEF DataInv
<1>3. CASE bgpc' # "buildfailed" /\ imm_[1] = {}
  <2>1. /\ UNCHANGED quietVars /\ UNCHANGED <<calls, call, writers_, pc, edit, tables, imm_>>
        /\ bgpc = "build" /\ bgpc' = "built" /\ flushing' = flushing
    BY <1>3 DEF BuildTable, bgUnchanged, quietVars, queueVars, headVars, openVars, versionVars
  <2>2. /\ ContentInv' /\ OwnInv' /\ BatchInv' /\ SeqInv' /\ DiskInv' /\ LogInv'
        /\ RecLogInv' /\ AnswerInv'
    BY <2>1, QuietThread
  <2>3. /\ flushing # NoFile /\ flushing \notin DOMAIN tables
        /\ \E m : imm_ = <<m>>
    BY <2>1 DEF WritePathInv, FilesInv, FilesPart, BackgroundInv, FileTypes
  <2>4. Imm = {}
    BY <1>3, <2>3, ImmSome
  <2>5. FlushInv'
    BY <2>1, <2>3, <2>4 DEF FlushInv, Imm, Busy
  <2> QED
    BY <2>2, <2>5 DEF DataInv
<1> QED
  BY <1>1, <1>2, <1>3

\* OpenCompactionOutputFile: an empty table nobody refers to.
LEMMA OpenCompactionOutputFileData ==
    ASSUME WholeRecords, DataInv, WritePathInv, WritePathInv', OpenCompactionOutputFile
    PROVE  DataInv'
<1>1. PICK n : n = next_file_number_
  OBVIOUS
<1>2. /\ UNCHANGED backgroundVars /\ UNCHANGED <<logs, imm_, manifest, current, log_number_>>
      /\ tables' = Created(tables, n, {}) /\ bgpc = "cinput" /\ bgpc' = "cbuild"
  BY <1>1 DEF OpenCompactionOutputFile, bgUnchanged, backgroundVars, queueVars, headVars, openVars, versionVars
<1>3. mode = "open"
  BY <1>2 DEF WritePathInv, FilesInv, ClosedInv
<1>4. /\ n \in Nat /\ DOMAIN tables \subseteq Nat /\ \A k \in DOMAIN tables : k < n
      /\ Files(current) \cup Files(manifest.version) \subseteq DOMAIN tables
  BY <1>1, <1>3, ManifestTables DEF WritePathInv, FilesInv, FilesPart, FileTypes, OpenInv
<1>5. n \notin DOMAIN tables /\ n \notin Files(current) \cup Files(manifest.version)
  BY <1>4
<1>6. /\ DOMAIN tables' = DOMAIN tables \cup {n} /\ tables'[n] = {}
      /\ \A k \in DOMAIN tables : tables'[k] = tables[k]
  BY <1>2, <1>5 DEF Created
<1>7. /\ ContentInv' /\ OwnInv' /\ BatchInv' /\ SeqInv' /\ DiskInv' /\ RecLogInv'
      /\ LogInv' /\ AnswerInv'
  BY <1>2, <1>3, <1>5, <1>6, WholeEmpty, TableWritten
<1>8. FlushInv'
  BY <1>2 DEF FlushInv, Busy
<1> QED
  BY <1>7, <1>8 DEF DataInv

\* FinishCompactionOutputFile: a table with what the inputs hold.
LEMMA FinishCompactionData ==
    ASSUME WholeRecords, DataInv, WritePathInv, WritePathInv', FinishCompaction
    PROVE  DataInv'
<1>1. CASE bgpc' = "end"
  BY <1>1, BackgroundQuiet
<1>2. CASE bgpc' # "end"
  <2>1. PICK n : n = Out
    OBVIOUS
  <2>2. /\ UNCHANGED backgroundVars /\ UNCHANGED <<logs, imm_, manifest, current, log_number_>>
        /\ tables' = [k \in DOMAIN tables |-> IF k = n THEN TableSet(Inputs) ELSE tables[k]]
        /\ bgpc = "cbuild" /\ bgpc' = "manifest" /\ UNCHANGED <<flushing, compacting>>
    BY <1>2, <2>1 DEF FinishCompaction, bgUnchanged, backgroundVars, queueVars, headVars, openVars,
        versionVars, TableSet, Inputs, Out
  <2>3. mode = "open" /\ flushing = NoFile /\ compacting # None /\ OutOpen
    BY <2>2 DEF WritePathInv, FilesInv, FilesPart, ClosedInv, BackgroundInv, OutOpen
  <2>4. /\ n \in DOMAIN tables /\ n \notin Files(current) \cup Files(manifest.version)
        /\ Inputs \subseteq Files(current)
    BY <2>1, <2>2, <2>3 DEF WritePathInv, FilesInv, FilesPart, BackgroundInv
  <2>5. Inputs \subseteq DOMAIN tables
    BY <2>3, <2>4 DEF WritePathInv, FilesInv, FilesPart, OpenInv
  <2>6. /\ DOMAIN tables' = DOMAIN tables /\ tables'[n] = TableSet(Inputs)
        /\ \A k \in DOMAIN tables : k # n => tables'[k] = tables[k]
    BY <2>2, <2>4
  <2>7. WholeIn(TableSet(Inputs), Entries)
    <3>1. \A U \in {tables[k] : k \in Inputs} : WholeIn(U, Entries)
      BY <2>5, UnitsIs DEF DataInv, ContentInv
    <3> QED
      BY <3>1, WholeUnion DEF TableSet
  <2>8. TableSet(Inputs) \subseteq TableSet(DOMAIN tables)
    BY <2>5 DEF TableSet
  <2>9. /\ ContentInv' /\ OwnInv' /\ BatchInv' /\ SeqInv' /\ DiskInv' /\ RecLogInv'
        /\ LogInv' /\ AnswerInv'
    BY <2>2, <2>3, <2>4, <2>6, <2>7, <2>8, TableWritten
  <2>10. FlushInv'
    <3>1. Out' = n /\ Inputs' = Inputs /\ flushing' = NoFile
      BY <2>1, <2>2, <2>3 DEF Out, Inputs
    <3>2. TableSet(Inputs)' \subseteq TableSet(Inputs)
      <4>1. \A k \in Inputs : k # n
        BY <2>4
      <4> QED
        BY <2>5, <2>6, <3>1, <4>1 DEF TableSet
    <3> QED
      BY <2>6, <3>1, <3>2 DEF FlushInv
  <2> QED
    BY <2>9, <2>10 DEF DataInv
<1> QED
  BY <1>1, <1>2

(* What the edit being written or installed does to the set of tables. *)
LEMMA EditKeepsTables ==
    ASSUME DataInv, WritePathInv, bgpc \in Busy, NEW v \in Version, Files(v) \subseteq DOMAIN tables
    PROVE  /\ InTables(v) \subseteq InTables(Apply(v, edit))
           /\ flushing # NoFile => InTables(Apply(v, edit)) = InTables(v) \cup Imm
           /\ InTables(Apply(v, edit)) \subseteq Imm \cup TableSet(DOMAIN tables)
           /\ Files(Apply(v, edit)) \subseteq DOMAIN tables
<1>1. /\ edit \in EditT /\ edit.add \subseteq DOMAIN tables
      /\ \/ flushing # NoFile /\ edit.add = {flushing} \cap DOMAIN tables /\ edit.del = {}
         \/ flushing = NoFile /\ edit.add = {Out} /\ edit.del = Inputs
  BY DEF WritePathInv, FilesInv, FilesPart, FileTypes, BackgroundInv
<1>2. Files(Apply(v, edit)) = (Files(v) \ edit.del) \cup edit.add
  BY <1>1, ApplyType
<1>3. \A e : e \in InTables(v) <=> \E n \in Files(v) : e \in tables[n]
  BY DEF InTables
<1>4. \A e : e \in InTables(Apply(v, edit)) <=>
         \E n \in (Files(v) \ edit.del) \cup edit.add : e \in tables[n]
  BY <1>2 DEF InTables
<1>5. CASE flushing # NoFile
  <2>1. /\ edit.del = {}
        /\ \/ tables[flushing] = Imm /\ edit.add = {flushing}
           \/ Imm = {} /\ edit.add = {}
    BY <1>1, <1>5 DEF DataInv, FlushInv
  <2>2. InTables(Apply(v, edit)) = InTables(v) \cup Imm
    BY <1>3, <1>4, <2>1
  <2>3. InTables(v) \subseteq TableSet(DOMAIN tables)
    BY DEF InTables, TableSet
  <2> QED
    BY <1>1, <1>2, <2>2, <2>3
<1>6. CASE flushing = NoFile
  <2>1. TableSet(Inputs) \subseteq tables[Out] /\ edit.add = {Out} /\ edit.del = Inputs
    BY <1>1, <1>6 DEF DataInv, FlushInv
  <2>2. \A e : \A n \in Inputs : e \in tables[n] => e \in tables[Out]
    BY <2>1 DEF TableSet
  <2>3. InTables(v) \subseteq InTables(Apply(v, edit))
    BY <1>3, <1>4, <2>1, <2>2
  <2>4. InTables(Apply(v, edit)) \subseteq TableSet(DOMAIN tables)
    BY <1>1, <1>4 DEF TableSet
  <2> QED
    BY <1>1, <1>2, <1>6, <2>3, <2>4
<1> QED
  BY <1>5, <1>6

\* The manifest record: what the logs it rules out held is in its tables.
LEMMA WriteManifestData ==
    ASSUME DataInv, WholeInv, WholeRecords, WritePathInv, WritePathInv', WriteManifest
    PROVE  DataInv'
<1>1. CASE manifest' = manifest
  BY <1>1, BackgroundQuiet
<1>2. CASE manifest' # manifest
  <2>1. /\ UNCHANGED backgroundVars
        /\ UNCHANGED <<logs, tables, imm_, current, log_number_, flushing, compacting>>
        /\ manifest' = Logged(edit) /\ bgpc = "manifest" /\ bgpc' \in Busy
    <3>1. bgpc = "manifest" /\ mode = "open"
      BY DEF WriteManifest, WritePathInv, FilesInv, ClosedInv
    <3>2. ~MayFail("descriptor") /\ Appended(edit) = Logged(edit)
      BY <3>1 DEF MayFail, WholeRecords, WholeInv, Appended
    <3> QED
      BY <1>2, <3>1, <3>2 DEF WriteManifest, FailedAppend, bgUnchanged, backgroundVars, queueVars,
          headVars, openVars, versionVars, Busy
  <2>2. PICK v \in Version : v = manifest.version
    BY DEF WritePathInv, FilesInv, FilesPart, FileTypes
  <2>3. /\ mode = "open" /\ bgpc \in Busy /\ Files(v) \subseteq DOMAIN tables
        /\ log_number_ <= manifest.log_number /\ manifest.log_number <= logfile_number_
        /\ log_number_ \in Nat /\ manifest.log_number \in Nat /\ logfile_number_ \in Nat
        /\ DOMAIN logs \subseteq Nat
        /\ \/ flushing # NoFile /\ edit.log_number = logfile_number_
           \/ flushing = NoFile /\ edit.log_number = log_number_
    <3>1. mode = "open" /\ bgpc \in Busy
      BY <2>1 DEF WritePathInv, FilesInv, ClosedInv, Busy
    <3>2. manifest.torn = "no"
      BY <3>1 DEF WholeInv
    <3> QED
      BY <2>2, <3>1, <3>2, ManifestTables DEF WritePathInv, FilesInv, FilesPart, FileTypes, OpenInv, BackgroundInv
  <2>4. /\ InTables(v) \subseteq InTables(Apply(v, edit))
        /\ flushing # NoFile => InTables(Apply(v, edit)) = InTables(v) \cup Imm
        /\ InTables(Apply(v, edit)) \subseteq Imm \cup TableSet(DOMAIN tables)
    BY <2>3, EditKeepsTables
  <2>5. PICK T : T = InTables(Apply(v, edit))
    OBVIOUS
  <2>6. /\ InTables(manifest.version)' = T
        /\ manifest'.log_number = edit.log_number /\ manifest'.last_sequence = last_sequence_
    <3>1. manifest'.version = Apply(v, edit)
          /\ manifest'.log_number = edit.log_number /\ manifest'.last_sequence = last_sequence_
      BY <2>1, <2>2 DEF Logged
    <3> QED
      BY <2>1, <2>5, <3>1 DEF InTables
  <2>7. Imm' = Imm
    BY <2>1 DEF Imm
  <2>8. last_sequence_ \in Nat /\ \A e \in Imm \cup TableSet(DOMAIN tables) : e.seq <= last_sequence_
    BY <2>3 DEF DataInv, SeqInv
  <2>9. /\ ContentInv' /\ OwnInv' /\ BatchInv' /\ SeqInv' /\ DiskInv' /\ RecLogInv'
    <3>1. ASSUME NEW n \in DOMAIN tables'
          PROVE  /\ tables'[n] \subseteq Imm \cup TableSet(DOMAIN tables)
                 /\ WholeIn(tables'[n], Entries)
      <4>1. tables'[n] = tables[n] /\ n \in DOMAIN tables
        BY <2>1
      <4>2. tables[n] \in Units /\ tables[n] \subseteq TableSet(DOMAIN tables)
        BY <4>1, UnitsIs DEF TableSet
      <4> QED
        BY <4>1, <4>2 DEF DataInv, ContentInv
    <3>2. /\ manifest'.last_sequence \in Nat /\ manifest'.last_sequence <= last_sequence_
          /\ \A e \in InTables(manifest.version)' : e.seq <= manifest'.last_sequence
      BY <2>4, <2>5, <2>6, <2>8
    <3>3. logs' = logs /\ mode = "open" /\ UNCHANGED backgroundVars
      BY <2>1, <2>3
    <3> QED
      BY <2>7, <3>1, <3>2, <3>3, BackgroundKept
  <2>10. FlushInv'
    BY <2>1, FlushFrame DEF DataInv, Busy
  <2>11. \A k : LogSet(k)' = LogSet(k) /\ SyncedSet(k)' = SyncedSet(k)
    BY <2>1 DEF LogSet, SyncedSet
  <2>12. /\ \A n \in DOMAIN logs : n <= logfile_number_
         /\ \A n \in DOMAIN logs : log_number_ <= n /\ n < logfile_number_ =>
             \A e \in LogSet(n) : Answered(e.id) => e \in Imm \cup InTables(v)
         /\ \A e \in LogSet(logfile_number_) : Answered(e.id) => e \in mem_
    BY <2>2, <2>3 DEF DataInv, LogInv
  <2>13. \A i : Answered(i)' <=> Answered(i)
    BY <2>1 DEF Answered, backgroundVars
  <2>14. LogInv'
    BY <2>1, <2>4, <2>5, <2>6, <2>7, <2>11, <2>12, <2>13 DEF LogInv, backgroundVars
  <2>15. ASSUME NEW i \in 1..Len(calls), Answered(i)
         PROVE  /\ \E e \in OnDisk' : e.id = i
                /\ (\E e \in OnDiskSynced : e.id = i) => \E e \in OnDiskSynced' : e.id = i
    <3>1. ASSUME NEW e, Answered(e.id), NEW n \in DOMAIN logs, n >= manifest.log_number, e \in LogSet(n)
          PROVE  e \in T \/ n >= manifest'.log_number
      <4>1. CASE flushing = NoFile
        BY <2>3, <2>6, <3>1, <4>1
      <4>2. CASE flushing # NoFile /\ n < logfile_number_
        <5>1. log_number_ <= n
          BY <2>3, <3>1
        <5>2. e \in Imm \cup InTables(v)
          BY <2>12, <3>1, <4>2, <5>1
        <5> QED
          BY <2>4, <2>5, <4>2, <5>2
      <4>3. CASE flushing # NoFile /\ ~(n < logfile_number_)
        BY <2>3, <2>6, <4>3
      <4> QED
        BY <4>1, <4>2, <4>3
    <3>2. ASSUME NEW e \in OnDisk, e.id = i PROVE e \in OnDisk'
      <4>1. CASE e \in InTables(manifest.version)
        BY <2>2, <2>4, <2>5, <2>6, <4>1, RecoverableIsNext
      <4>2. CASE \E n \in DOMAIN logs : n >= manifest.log_number /\ e \in LogSet(n)
        <5>1. PICK n \in DOMAIN logs : n >= manifest.log_number /\ e \in LogSet(n)
          BY <4>2
        <5>2. e \in T \/ n >= manifest'.log_number
          BY <2>15, <3>1, <3>2, <5>1
        <5> QED
          BY <2>1, <2>6, <2>11, <5>1, <5>2, RecoverableIsNext
      <4> QED
        BY <4>1, <4>2, RecoverableIs
    <3>3. ASSUME NEW e \in OnDiskSynced, e.id = i PROVE e \in OnDiskSynced'
      <4>1. CASE e \in InTables(manifest.version)
        BY <2>2, <2>4, <2>5, <2>6, <4>1, SyncedIsNext
      <4>2. CASE \E n \in DOMAIN logs : n >= manifest.log_number /\ e \in SyncedSet(n)
        <5>1. PICK n \in DOMAIN logs : n >= manifest.log_number /\ e \in SyncedSet(n)
          BY <4>2
        <5>2. e \in LogSet(n)
          <6>1. /\ logs[n] \in [recs: Seq(SUBSET Entry), synced: Nat] /\ logs[n].synced <= Len(logs[n].recs)
            BY DEF DataInv, DiskInv
          <6>2. 1..logs[n].synced \subseteq 1..Len(logs[n].recs)
            BY <6>1
          <6> QED
            BY <5>1, <6>2 DEF LogSet, SyncedSet
        <5>3. e \in T \/ n >= manifest'.log_number
          BY <2>15, <3>1, <3>3, <5>1, <5>2
        <5> QED
          BY <2>1, <2>6, <2>11, <5>1, <5>3, SyncedIsNext
      <4> QED
        BY <4>1, <4>2, SyncedIs
    <3>4. \E e \in OnDisk : e.id = i
      BY <2>15 DEF DataInv, AnswerInv
    <3> QED
      BY <3>2, <3>3, <3>4
  <2>16. AnswerInv'
    <3>1. SameCalls
      BY <2>1 DEF SameCalls, backgroundVars, WritePathInv, ThreadInv, ThreadTypes
    <3>2. NoNewAnswers
      BY <2>1, <2>13 DEF NoNewAnswers, backgroundVars
    <3>3. calls' = calls /\ mode' = mode
      BY <2>1 DEF backgroundVars
    <3>4. SyncHasEntries'
      BY <3>1, <3>3, SyncKept DEF DataInv
    <3>5. InTables(current)' = InTables(current)
      BY <2>1 DEF InTables, Files
    <3>6. Served' = Served
      BY <2>1, <2>7, <3>5 DEF Served, backgroundVars
    <3>7. \A i \in 1..Len(calls) : Answered(i) => \E e \in Served' : e.id = i
      BY <2>3, <3>6 DEF DataInv, AnswerInv
    <3> QED
      BY <2>15, <3>1, <3>2, <3>4, <3>7, AnswersKept DEF DataInv
  <2> QED
    BY <2>9, <2>10, <2>14, <2>16 DEF DataInv
<1> QED
  BY <1>1, <1>2

\* The new version: what imm_ held is in its tables.
LEMMA InstallData ==
    ASSUME DataInv, WritePathInv, WritePathInv', Install
    PROVE  DataInv'
<1>1. /\ UNCHANGED backgroundVars /\ UNCHANGED <<logs, tables, manifest>>
      /\ bgpc = "install" /\ bgpc' = "remove" /\ current' = Apply(current, edit)
      /\ log_number_' = edit.log_number
      /\ flushing # NoFile => imm_' = None
      /\ flushing = NoFile => imm_' = imm_
  BY DEF Install, bgUnchanged, backgroundVars, queueVars, headVars, openVars
<1>2. PICK v \in Version : v = current
  BY DEF WritePathInv, FilesInv, FilesPart, FileTypes
<1>3. mode = "open" /\ bgpc \in Busy
  BY <1>1 DEF WritePathInv, FilesInv, ClosedInv, Busy
<1>4. /\ Files(v) \subseteq DOMAIN tables
      /\ log_number_ \in Nat /\ logfile_number_ \in Nat /\ DOMAIN logs \subseteq Nat
      /\ \/ flushing # NoFile /\ edit.log_number = logfile_number_
         \/ flushing = NoFile /\ edit.log_number = log_number_
  BY <1>2, <1>3 DEF WritePathInv, FilesInv, FilesPart, FileTypes, OpenInv, BackgroundInv
<1>5. /\ InTables(v) \subseteq InTables(Apply(v, edit))
      /\ flushing # NoFile => InTables(Apply(v, edit)) = InTables(v) \cup Imm
  BY <1>3, <1>4, EditKeepsTables
<1>6. InTables(current)' = InTables(Apply(v, edit)) /\ InTables(current) = InTables(v)
  BY <1>1, <1>2 DEF InTables
<1>7. /\ flushing # NoFile => Imm' = {}
      /\ flushing = NoFile => Imm' = Imm
  BY <1>1, ImmNoneNext DEF Imm
<1>8. /\ \A n : LogSet(n)' = LogSet(n) /\ SyncedSet(n)' = SyncedSet(n)
      /\ InTables(manifest.version)' = InTables(manifest.version)
      /\ OnDisk' = OnDisk /\ OnDiskSynced' = OnDiskSynced
  BY <1>1, SameDisk
<1>9. /\ ContentInv' /\ OwnInv' /\ BatchInv' /\ SeqInv' /\ DiskInv' /\ RecLogInv'
  <2>1. ASSUME NEW n \in DOMAIN tables'
        PROVE  /\ tables'[n] \subseteq Imm \cup TableSet(DOMAIN tables)
               /\ WholeIn(tables'[n], Entries)
    <3>1. tables'[n] = tables[n] /\ n \in DOMAIN tables
      BY <1>1
    <3>2. tables[n] \in Units /\ tables[n] \subseteq TableSet(DOMAIN tables)
      BY <3>1, UnitsIs DEF TableSet
    <3> QED
      BY <3>1, <3>2 DEF DataInv, ContentInv
  <2>2. /\ manifest'.last_sequence \in Nat /\ manifest'.last_sequence <= last_sequence_
        /\ \A e \in InTables(manifest.version)' : e.seq <= manifest'.last_sequence
    BY <1>1, <1>3, <1>8 DEF DataInv, SeqInv
  <2>3. Imm' \in {Imm, {}} /\ logs' = logs /\ UNCHANGED backgroundVars
    BY <1>1, <1>7
  <2> QED
    BY <1>3, <2>1, <2>2, <2>3, BackgroundKept
<1>10. FlushInv'
  BY <1>1 DEF FlushInv, Busy
<1>11. LogInv'
  <2>1. /\ \A n \in DOMAIN logs : n <= logfile_number_
        /\ \A n \in DOMAIN logs : log_number_ <= n /\ n < logfile_number_ =>
             \A e \in LogSet(n) : Answered(e.id) => e \in Imm \cup InTables(manifest.version)
        /\ \A e \in LogSet(logfile_number_) : Answered(e.id) => e \in mem_
    BY <1>3 DEF DataInv, LogInv
  <2>2. \A i : Answered(i)' <=> Answered(i)
    BY <1>1 DEF Answered, backgroundVars
  <2>3. \A n \in DOMAIN logs : log_number_' <= n /\ n < logfile_number_ =>
             \A e \in LogSet(n) : Answered(e.id) => e \in Imm' \cup InTables(manifest.version)
    <3>1. CASE flushing # NoFile
      <4>1. \A n \in DOMAIN logs : ~(log_number_' <= n /\ n < logfile_number_)
        BY <1>1, <1>4, <3>1
      <4> QED
        BY <4>1
    <3>2. CASE flushing = NoFile
      BY <1>1, <1>4, <1>7, <2>1, <3>2
    <3> QED
      BY <3>1, <3>2
  <2> QED
    BY <1>1, <1>8, <2>1, <2>2, <2>3 DEF LogInv, backgroundVars
<1>12. AnswerInv'
  <2>1. Served \subseteq Served'
    BY <1>1, <1>5, <1>6, <1>7 DEF Served, backgroundVars
  <2>2. ThreadInv /\ calls' = calls /\ mode' = mode
    BY <1>1 DEF WritePathInv, backgroundVars
  <2> QED
    BY <1>8, <2>1, <2>2, AnswersGrow DEF DataInv
<1> QED
  BY <1>9, <1>10, <1>11, <1>12 DEF DataInv

\* RemoveFile: nothing recovery or a reader needs is deleted.
LEMMA RemoveFileData ==
    ASSUME DataInv, WholeInv, WholeRecords, WritePathInv, WritePathInv', RemoveFile
    PROVE  DataInv'
<1>1. PICK f \in garbage :
         IF f[1] = "table"
         THEN tables' = [k \in DOMAIN tables \ {f[2]} |-> tables[k]] /\ UNCHANGED logs
         ELSE logs' = [k \in DOMAIN logs \ {f[2]} |-> logs[k]] /\ UNCHANGED tables
  BY DEF RemoveFile
<1>2. /\ UNCHANGED backgroundVars /\ UNCHANGED <<imm_, manifest, current, log_number_>>
      /\ bgpc' = "remove" /\ bgpc = "remove" /\ garbage # {}
  BY DEF RemoveFile, backgroundVars, queueVars, headVars, memVars, openVars, versionVars
<1>3. /\ mode = "open" /\ manifest.version = current /\ log_number_ <= manifest.log_number
      /\ log_number_ \in Nat /\ manifest.log_number \in Nat /\ DOMAIN logs \subseteq Nat
      /\ Files(current) \subseteq DOMAIN tables
  <2>1. mode = "open" /\ manifest.version = current /\ manifest.torn = "no"
    <3>1. NewManifests
      BY DEF WholeRecords, NewManifests
    <3> QED
      BY <1>2, <3>1 DEF WritePathInv, FilesInv, FilesPart, GarbageInv, WholeInv
  <2> QED
    BY <2>1 DEF WritePathInv, FilesInv, FilesPart, OpenInv, FileTypes
<1>4. /\ f[1] \in {"table", "log"} /\ f[2] \in Nat /\ f = <<f[1], f[2]>>
      /\ f[1] = "table" => f[2] \notin Files(current)
      /\ f[1] = "log" => f[2] < log_number_
  BY DEF WritePathInv, FilesInv, FilesPart, GarbageInv
<1>5. /\ DOMAIN logs' \subseteq DOMAIN logs /\ \A n \in DOMAIN logs' : logs'[n] = logs[n]
      /\ \A n \in DOMAIN logs : n \in DOMAIN logs' \/ n < log_number_
      /\ DOMAIN tables' \subseteq DOMAIN tables /\ \A n \in DOMAIN tables' : tables'[n] = tables[n]
      /\ \A n \in Files(current) : n \in DOMAIN tables'
  BY <1>1, <1>3, <1>4
<1>6. /\ InTables(current)' = InTables(current)
      /\ InTables(manifest.version)' = InTables(manifest.version) /\ Imm' = Imm
  BY <1>2, <1>3, <1>5 DEF InTables, Files, Imm
<1>7. \A n \in DOMAIN logs' : LogSet(n)' = LogSet(n) /\ SyncedSet(n)' = SyncedSet(n)
  BY <1>5 DEF LogSet, SyncedSet
<1>8. /\ ContentInv' /\ OwnInv' /\ BatchInv' /\ SeqInv' /\ DiskInv' /\ RecLogInv'
  <2>1. ASSUME NEW n \in DOMAIN tables'
        PROVE  /\ tables'[n] \subseteq Imm \cup TableSet(DOMAIN tables)
               /\ WholeIn(tables'[n], Entries)
    <3>1. tables'[n] = tables[n] /\ n \in DOMAIN tables
      BY <1>5
    <3>2. tables[n] \in Units /\ tables[n] \subseteq TableSet(DOMAIN tables)
      BY <3>1, UnitsIs DEF TableSet
    <3> QED
      BY <3>1, <3>2 DEF DataInv, ContentInv
  <2>2. /\ manifest'.last_sequence \in Nat /\ manifest'.last_sequence <= last_sequence_
        /\ \A e \in InTables(manifest.version)' : e.seq <= manifest'.last_sequence
    BY <1>2, <1>3, <1>6 DEF DataInv, SeqInv
  <2> QED
    BY <1>2, <1>3, <1>5, <1>6, <2>1, <2>2, BackgroundKept
<1>9. FlushInv'
  BY <1>2 DEF FlushInv, Busy
<1>10. LogInv'
  <2>1. \A i : Answered(i)' <=> Answered(i)
    BY <1>2 DEF Answered, backgroundVars
  <2>2. logfile_number_ \in DOMAIN logs'
    BY <1>2, <1>3 DEF WritePathInv, FilesInv, FilesPart, OpenInv, backgroundVars
  <2> QED
    BY <1>2, <1>3, <1>5, <1>6, <1>7, <2>1, <2>2 DEF DataInv, LogInv, backgroundVars
<1>11. AnswerInv'
  <2>1. \A n \in DOMAIN logs : n >= manifest.log_number => n \in DOMAIN logs'
    BY <1>3, <1>5
  <2>2. OnDisk \subseteq OnDisk' /\ OnDiskSynced \subseteq OnDiskSynced'
    BY <1>2, <1>6, <1>7, <2>1, RecoverableIs, RecoverableIsNext, SyncedIs, SyncedIsNext
  <2>3. Served' = Served
    BY <1>2, <1>6 DEF Served, backgroundVars
  <2>4. ThreadInv /\ calls' = calls /\ mode' = mode
    BY <1>2 DEF WritePathInv, backgroundVars
  <2> QED
    BY <2>2, <2>3, <2>4, AnswersGrow DEF DataInv
<1> QED
  BY <1>8, <1>9, <1>10, <1>11 DEF DataInv

(* The database goes down: only the disk is left, and of the logs a prefix each, a torn
   record behind it perhaps. *)
LEMMA DownKept ==
    ASSUME DataInv, WritePathInv, WritePathInv', SameCalls,
           tables' = tables, manifest'.last_sequence \in Nat,
           \A e \in InTables(manifest.version)' : e.seq <= manifest'.last_sequence,
           \A t \in Threads : pc'[t] \notin Writing,
           group' = << >>, write_batch' = {}, status' = "ok", mem_' = {}, Imm' = {},
           writers_' = << >>, last_sequence_' = 0, mode' = "down", bgpc' = "idle",
           \A n \in DOMAIN logs' :
              n \in DOMAIN logs /\ \A i \in 1..Len(logs'[n].recs) :
                 \/ logs'[n].recs[i] = {}
                 \/ i \in 1..Len(logs[n].recs) /\ logs'[n].recs[i] = logs[n].recs[i]
    PROVE  /\ ContentInv' /\ OwnInv' /\ BatchInv' /\ SeqInv' /\ FlushInv' /\ LogInv' /\ RecLogInv'
<1>1. ThreadInv /\ ThreadInv'
  BY DEF WritePathInv
<1>2. \A U \in Units : U \subseteq Entries /\ WholeIn(U, Entries)
  BY DEF DataInv, ContentInv, Entries
<1>3. ASSUME NEW U \in Units' PROVE U \in Units \/ U = {}
  BY UnitsIs, UnitsIsNext
<1>4. \A U \in Units' : U \subseteq Entries /\ WholeIn(U, Entries)
  BY <1>2, <1>3, WholeEmpty
<1>5. ContentInv'
  BY <1>1, <1>4, WholeEmpty, ContentKept DEF DataInv
<1>6. OwnInv'
  BY DEF OwnInv
<1>7. BatchInv'
  BY FS_EmptySet DEF BatchInv, Writing
<1>8. SeqInv'
  BY DEF SeqInv
<1>9. FlushInv' /\ LogInv' /\ RecLogInv'
  BY DEF FlushInv, LogInv, RecLogInv, Busy
<1> QED
  BY <1>5, <1>6, <1>7, <1>8, <1>9

\* Closing the DB.
LEMMA FinishCloseData ==
    ASSUME DataInv, WritePathInv, WritePathInv', FinishClose
    PROVE  DataInv'
<1>1. /\ UNCHANGED <<calls, logs, tables, manifest>> /\ pc' = [t \in Threads |-> "idle"]
      /\ group' = << >> /\ write_batch' = {} /\ status' = "ok" /\ mem_' = {} /\ imm_' = None
      /\ writers_' = << >> /\ last_sequence_' = 0 /\ mode' = "down" /\ bgpc' = "idle"
  BY DEF FinishClose, Down
<1>2. SameCalls
  BY <1>1 DEF SameCalls, WritePathInv, ThreadInv, ThreadTypes
<1>3. Imm' = {} /\ \A t \in Threads : pc'[t] \notin Writing
  BY <1>1, ImmNoneNext DEF Writing
<1>4. /\ ContentInv' /\ OwnInv' /\ BatchInv' /\ SeqInv' /\ FlushInv' /\ LogInv' /\ RecLogInv'
  <2>1. /\ manifest'.last_sequence \in Nat
        /\ \A e \in InTables(manifest.version)' : e.seq <= manifest'.last_sequence
    BY <1>1, SameDisk DEF DataInv, SeqInv
  <2> QED
    BY <1>1, <1>2, <1>3, <2>1, DownKept
<1>5. OnDisk' = OnDisk /\ OnDiskSynced' = OnDiskSynced /\ DiskInv'
  BY <1>1, SameDisk DEF DataInv
<1>6. AnswerInv'
  BY <1>1, <1>5, AnswersGrow DEF DataInv, WritePathInv
<1> QED
  BY <1>4, <1>5, <1>6 DEF DataInv

\* A DB that is not open is quiet.
LEMMA ClosedFacts ==
    ASSUME WritePathInv, mode # "open"
    PROVE  /\ ThreadInv /\ group = << >> /\ write_batch = {} /\ status = "ok"
           /\ writers_ = << >> /\ imm_ = None /\ Imm = {} /\ bgpc = "idle" /\ ~Inserting
           /\ \A t \in Threads : pc[t] = "idle" /\ pc[t] \notin Writing
<1>1. /\ ThreadInv /\ writers_ = << >> /\ imm_ = None /\ bgpc = "idle"
      /\ \A t \in Threads : pc[t] = "idle"
  BY DEF WritePathInv, FilesInv, ClosedInv
<1>2. \A t \in Threads : pc[t] \notin Writing
  BY <1>1 DEF Writing
<1>3. group = << >> /\ write_batch = {} /\ status = "ok"
  BY <1>1, <1>2 DEF ThreadInv, GroupInv
<1> QED
  BY <1>1, <1>2, <1>3, ImmNone DEF Inserting

\* The end of DB::Open, in what it finds on the disk: the logs read are in the
\* tables of its edit, but for the one it goes on with.
LEMMA OpeningData ==
    ASSUME WholeRecords, DataInv, WritePathInv, Opening,
           NEW T, T = InTables(manifest.version) \cup TableSet(edit.add)
    PROVE  /\ InTables(Apply(manifest.version, OpenEdit)) = T
           /\ last_sequence_ \in Nat /\ \A e \in T : e.seq <= last_sequence_
           /\ \A e \in OnDisk : e \in T \/ e \in LogSet(logfile_number_)
           /\ \A e \in OnDiskSynced : e \in T \/ e \in SyncedSet(logfile_number_)
<1>1. mode = "recover" /\ rlogs = {} /\ logfile_number_ # NoFile /\ FilesInv
  BY DEF Opening, WritePathInv
<1>2. InTables(Apply(manifest.version, OpenEdit)) = T
  <2>1. Files(Apply(manifest.version, OpenEdit)) = Files(manifest.version) \cup edit.add
    BY <1>1, OpeningFacts
  <2>2. \A e : e \in T <=> \E k \in Files(manifest.version) \cup edit.add : e \in tables[k]
    BY DEF InTables, TableSet
  <2>3. \A e : e \in InTables(Apply(manifest.version, OpenEdit)) <=> e \in T
    BY <2>1, <2>2 DEF InTables
  <2> QED
    BY <2>3
<1>3. /\ last_sequence_ \in Nat /\ manifest.last_sequence \in Nat
      /\ manifest.last_sequence <= last_sequence_
      /\ \A e \in InTables(manifest.version) : e.seq <= manifest.last_sequence
      /\ \A e \in TableSet(edit.add) \cup mem_ : e.seq <= last_sequence_
  BY <1>1 DEF DataInv, SeqInv
<1>4. \A e \in T : e.seq <= last_sequence_
  <2>1. InTables(manifest.version) \subseteq Entries
    BY ManifestTables, EntriesIs DEF InTables
  <2>2. \A e \in InTables(manifest.version) : e.seq \in Nat
    BY <2>1 DEF DataInv, ContentInv, Entry
  <2> QED
    BY <1>3, <2>2
<1>5. \A m \in LogsFrom(manifest.log_number) :
         m # logfile_number_ => LogSet(m) \subseteq TableSet(edit.add)
  BY <1>1 DEF DataInv, RecLogInv
<1>6. \A e \in OnDisk : e \in T \/ e \in LogSet(logfile_number_)
  BY <1>5, RecoverableIs DEF LogsFrom
<1>7. \A e \in OnDiskSynced : e \in T \/ e \in SyncedSet(logfile_number_)
  <2>1. ASSUME NEW n \in DOMAIN logs PROVE SyncedSet(n) \subseteq LogSet(n)
    <3>1. logs[n] \in [recs: Seq(SUBSET Entry), synced: Nat] /\ logs[n].synced <= Len(logs[n].recs)
      BY DEF DataInv, DiskInv
    <3>2. 1..logs[n].synced \subseteq 1..Len(logs[n].recs)
      BY <3>1
    <3> QED
      BY <3>2 DEF LogSet, SyncedSet
  <2> QED
    BY <1>5, <2>1, SyncedIs DEF LogsFrom
<1> QED
  BY <1>2, <1>3, <1>4, <1>6, <1>7

\* A manifest that is appended to again has no torn record.
LEMMA AppendsWhole ==
    ASSUME WholeRecords, WholeInv, WritePathInv, Opening, reuse_logs
    PROVE  Appended(OpenEdit) = Logged(OpenEdit) /\ manifest.torn = "no"
<1>1. reuse_logs \in ReuseChoices
  BY OpeningFacts DEF WritePathInv
<1>2. TRUE \in ReuseChoices
  BY <1>1, WritePathConstants, Zenon
<1>3. manifest.torn = "no"
  BY <1>2 DEF WholeRecords, WholeInv
<1> QED
  BY <1>3 DEF Appended

\* A failed open leaves the disk as recovery needs it.
LEMMA OpenFailsData ==
    ASSUME WholeRecords, WholeInv, DataInv, WritePathInv, WritePathInv', OpenFails
    PROVE  DataInv'
<1>1. /\ UNCHANGED <<calls, logs, tables, pc, call, writers_, group, write_batch, status,
                     imm_, bgpc>>
      /\ mem_' = {} /\ last_sequence_' = 0 /\ mode' = "down" /\ mode # "open"
  BY DEF OpenFails, callVars, queueVars, headVars
<1>2. /\ ThreadInv /\ group = << >> /\ write_batch = {} /\ status = "ok"
      /\ writers_ = << >> /\ imm_ = None /\ bgpc = "idle"
      /\ \A t \in Threads : pc[t] \notin Writing
  BY <1>1, ClosedFacts
<1>3. manifest' = manifest \/ (Opening /\ manifest' = Logged(OpenEdit))
  <2>1. ~MayFail("descriptor")
    BY DEF MayFail, WholeRecords
  <2>2. \A m \in FailedAppend(OpenEdit) : m = manifest \/ m = Appended(OpenEdit)
    BY <2>1 DEF FailedAppend
  <2> QED
    BY <2>2, AppendsWhole DEF OpenFails
<1>4. /\ OnDisk \subseteq OnDisk' /\ OnDiskSynced \subseteq OnDiskSynced' /\ DiskInv'
      /\ manifest'.last_sequence \in Nat
      /\ \A e \in InTables(manifest.version)' : e.seq <= manifest'.last_sequence
  <2>1. CASE manifest' = manifest
    BY <1>1, <2>1, SameDisk DEF DataInv, SeqInv
  <2>2. CASE Opening /\ manifest' = Logged(OpenEdit)
    <3>1. PICK T : T = InTables(manifest.version) \cup TableSet(edit.add)
      OBVIOUS
    <3>2. /\ InTables(Apply(manifest.version, OpenEdit)) = T
          /\ last_sequence_ \in Nat /\ \A e \in T : e.seq <= last_sequence_
          /\ \A e \in OnDisk : e \in T \/ e \in LogSet(logfile_number_)
          /\ \A e \in OnDiskSynced : e \in T \/ e \in SyncedSet(logfile_number_)
      BY <2>2, <3>1, OpeningData
    <3>3. /\ manifest'.version = Apply(manifest.version, OpenEdit)
          /\ manifest'.log_number = logfile_number_ /\ manifest'.last_sequence = last_sequence_
          /\ logfile_number_ \in DOMAIN logs
      BY <2>2, OpeningFacts DEF Logged, WritePathInv
    <3>4. InTables(manifest.version)' = T
      BY <1>1, <3>2, <3>3 DEF InTables
    <3>5. PICK n : n = logfile_number_
      OBVIOUS
    <3>6. LogSet(n)' = LogSet(n) /\ SyncedSet(n)' = SyncedSet(n) /\ n \in DOMAIN logs' /\ n >= n
      <4>1. n \in Nat /\ n \in DOMAIN logs
        BY <3>3, <3>5 DEF WritePathInv, FilesInv, FilesPart, FileTypes
      <4> QED
        BY <1>1, <4>1 DEF LogSet, SyncedSet
    <3>7. OnDisk \subseteq OnDisk' /\ OnDiskSynced \subseteq OnDiskSynced'
      BY <3>2, <3>3, <3>4, <3>5, <3>6, RecoverableIsNext, SyncedIsNext
    <3>8. DiskInv'
      BY <1>1 DEF DataInv, DiskInv
    <3> QED
      BY <3>2, <3>3, <3>4, <3>7, <3>8
  <2> QED
    BY <1>3, <2>1, <2>2
<1>5. SameCalls
  BY <1>1, <1>2 DEF SameCalls, ThreadInv, ThreadTypes
<1>6. Imm' = {}
  BY <1>1, <1>2, ImmNoneNext
<1>7. /\ ContentInv' /\ OwnInv' /\ BatchInv' /\ SeqInv' /\ FlushInv' /\ LogInv' /\ RecLogInv'
  BY <1>1, <1>2, <1>4, <1>5, <1>6, DownKept
<1>8. AnswerInv'
  BY <1>1, <1>2, <1>4, AnswersGrow DEF DataInv
<1> QED
  BY <1>4, <1>7, <1>8 DEF DataInv

\* VersionSet::Recover.
LEMMA StartRecoverData ==
    ASSUME DataInv, WritePathInv, WritePathInv', StartRecover
    PROVE  DataInv'
<1>1. /\ UNCHANGED <<calls, logs, tables, manifest, pc, call, writers_, group, write_batch, status,
                     imm_, bgpc, mem_, logfile_number_, edit, flushing, compacting>>
      /\ last_sequence_' = manifest.last_sequence /\ mode = "down" /\ mode' = "recover"
      /\ rlogs' = LogsFrom(manifest.log_number)
  BY DEF StartRecover, callVars, queueVars, headVars, bgVars, diskVars
<1>2. /\ ThreadInv /\ group = << >> /\ write_batch = {} /\ status = "ok"
      /\ writers_ = << >> /\ imm_ = None /\ bgpc = "idle" /\ ~Inserting
      /\ \A t \in Threads : pc[t] \notin Writing
  BY <1>1, ClosedFacts
<1>3. /\ logfile_number_ = NoFile /\ edit.add = {} /\ mem_ = {} /\ ThreadInv'
  BY <1>1 DEF WritePathInv, FilesInv, FilesPart, DownInv, NoEdit, DataInv, RecLogInv
<1>4. SameCalls
  BY <1>1, <1>2 DEF SameCalls, ThreadInv, ThreadTypes
<1>5. ContentInv' /\ Entries' = Entries
  BY <1>1, <1>2, <1>3, <1>4, ContentFrame DEF DataInv
<1>6. OwnInv'
  BY <1>1, <1>2 DEF OwnInv
<1>7. BatchInv'
  BY <1>1, <1>2, FS_EmptySet DEF BatchInv, Writing
<1>8. /\ \A n : LogSet(n)' = LogSet(n)
      /\ InTables(manifest.version)' = InTables(manifest.version)
      /\ LogsFrom(manifest.log_number)' = LogsFrom(manifest.log_number)
      /\ OnDisk' = OnDisk /\ OnDiskSynced' = OnDiskSynced /\ DiskInv'
  BY <1>1, SameDisk DEF DataInv
<1>9. SeqInv'
  <2>1. TableSet(edit.add)' = {}
    BY <1>1, <1>3 DEF TableSet
  <2> QED
    BY <1>1, <1>3, <1>8, <2>1 DEF DataInv, SeqInv
<1>10. FlushInv' /\ LogInv'
  BY <1>1, <1>2 DEF FlushInv, LogInv, Busy
<1>11. RecLogInv'
  BY <1>1, <1>3, <1>8 DEF RecLogInv
<1>12. AnswerInv'
  BY <1>1, <1>2, <1>8, AnswersGrow DEF DataInv
<1> QED
  BY <1>5, <1>6, <1>7, <1>8, <1>9, <1>10, <1>11, <1>12 DEF DataInv

\* DB::Open creates the new log.
LEMMA NewLogData ==
    ASSUME DataInv, WritePathInv, WritePathInv', NewLog
    PROVE  DataInv'
<1>1. PICK n : n = next_file_number_
  OBVIOUS
<1>2. /\ UNCHANGED <<calls, tables, manifest, pc, call, writers_, group, write_batch, status,
                     imm_, bgpc, mem_, edit, flushing, compacting, last_sequence_, mode, rlogs>>
      /\ mode = "recover" /\ rlogs = {} /\ logfile_number_ = NoFile
      /\ logs' = Created(logs, n, EmptyLog) /\ logfile_number_' = n
  BY <1>1 DEF NewLog, callVars, queueVars, headVars, bgVars, openVars
<1>3. /\ ThreadInv /\ group = << >> /\ write_batch = {} /\ status = "ok"
      /\ writers_ = << >> /\ imm_ = None /\ bgpc = "idle" /\ ~Inserting
      /\ \A t \in Threads : pc[t] \notin Writing
  BY <1>2, ClosedFacts
<1>4. /\ n \in Nat /\ DOMAIN logs \subseteq Nat /\ n > manifest.next_file
      /\ manifest.next_file \in Nat /\ manifest.log_number \in Nat
      /\ 0 < manifest.log_number /\ manifest.log_number < manifest.next_file
      /\ \A k \in LogsFrom(manifest.log_number) : k < n
  BY <1>1, <1>2 DEF WritePathInv, FilesInv, FilesPart, FileTypes, RecoverInv, ManifestInv
<1>5. \A k \in DOMAIN logs : k < n
  <2>1. TAKE k \in DOMAIN logs
  <2>2. k >= manifest.log_number \/ k < manifest.log_number
    BY <1>4
  <2> QED
    BY <1>4, <2>2 DEF LogsFrom
<1>6. n \notin DOMAIN logs
  BY <1>4, <1>5
<1>7. /\ DOMAIN logs' = DOMAIN logs \cup {n}
      /\ LogSet(n)' = {} /\ Len(logs'[n].recs) = 0
      /\ \A k \in DOMAIN logs : /\ logs'[k] = logs[k] /\ LogSet(k)' = LogSet(k)
                                /\ SyncedSet(k)' = SyncedSet(k)
      /\ DiskInv'
  BY <1>2, <1>6, NewLogFile DEF DataInv
<1>8. mem_ = {} /\ ThreadInv'
  BY <1>2 DEF DataInv, RecLogInv, WritePathInv
<1>9. SameCalls
  BY <1>2, <1>3 DEF SameCalls, ThreadInv, ThreadTypes
<1>10. Imm' = Imm
  BY <1>2 DEF Imm
<1>11. ASSUME NEW U \in Units' PROVE U \in Units
  <2>1. ASSUME NEW k \in DOMAIN logs', NEW i \in 1..Len(logs'[k].recs), U = logs'[k].recs[i]
        PROVE  U \in Units
    <3>1. k # n
      BY <1>7, <2>1
    <3> QED
      BY <1>7, <2>1, <3>1, UnitsIs
  <2> QED
    BY <1>2, <1>10, <2>1, UnitsIs, UnitsIsNext
<1>12. ContentInv' /\ Entries' \subseteq Entries
  <2>1. \A U \in Units' : U \subseteq Entries /\ WholeIn(U, Entries)
    BY <1>11 DEF DataInv, ContentInv, Entries
  <2> QED
    BY <1>2, <1>3, <1>8, <1>9, <2>1, WholeEmpty, ContentKept DEF DataInv
<1>13. OwnInv'
  BY <1>2, <1>3 DEF OwnInv
<1>14. BatchInv'
  BY <1>2, <1>3, FS_EmptySet DEF BatchInv, Writing
<1>15. /\ InTables(manifest.version)' = InTables(manifest.version)
       /\ TableSet(edit.add)' = TableSet(edit.add)
       /\ LogsFrom(manifest.log_number)' = LogsFrom(manifest.log_number) \cup {n}
  <2>1. n >= manifest.log_number
    BY <1>4
  <2> QED
    BY <1>2, <1>7, <2>1 DEF InTables, Files, TableSet, LogsFrom
<1>16. LogsFrom(manifest.log_number) \subseteq DOMAIN logs
  BY DEF LogsFrom
<1>17. SeqInv'
  BY <1>2, <1>7, <1>15, <1>16 DEF DataInv, SeqInv
<1>18. FlushInv' /\ LogInv'
  BY <1>2, <1>3 DEF FlushInv, LogInv, Busy
<1>19. RecLogInv'
  <2>1. \A m \in LogsFrom(manifest.log_number) : m # NoFile
    BY <1>4 DEF LogsFrom, NoFile
  <2>2. \A m \in LogsFrom(manifest.log_number) : LogSet(m) \subseteq TableSet(edit.add)
    BY <1>2, <2>1 DEF DataInv, RecLogInv
  <2>3. n # NoFile /\ n <= n /\ \A m \in LogsFrom(manifest.log_number) : m <= n
    BY <1>4, <1>5, <1>16 DEF NoFile
  <2> QED
    BY <1>2, <1>7, <1>8, <1>15, <1>16, <2>2, <2>3 DEF RecLogInv
<1>20. AnswerInv'
  <2>1. OnDisk \subseteq OnDisk' /\ OnDiskSynced \subseteq OnDiskSynced'
    BY <1>2, <1>7, <1>15, RecoverableIs, RecoverableIsNext, SyncedIs, SyncedIsNext
  <2> QED
    BY <1>2, <1>3, <2>1, AnswersGrow DEF DataInv
<1> QED
  BY <1>7, <1>12, <1>13, <1>14, <1>17, <1>18, <1>19, <1>20 DEF DataInv

\* What a crash keeps of a log: a prefix with all its synced records, and
\* perhaps part of the next one.
LEMMA KeptIs ==
    ASSUME DataInv, NEW machine \in BOOLEAN, NEW k \in Kept(machine), NEW n \in DOMAIN logs
    PROVE  \E j \in Nat :
             /\ logs[n].synced \in Nat /\ Len(logs[n].recs) \in Nat
             /\ logs[n].synced <= j /\ j <= Len(logs[n].recs)
             /\ ~machine => j = Len(logs[n].recs)
             /\ k[n] \in Seq(SUBSET Entry) /\ Len(k[n]) \in Nat
             /\ \A i \in 1..j : i \in 1..Len(logs[n].recs) /\ k[n][i] = logs[n].recs[i]
             /\ \/ Len(k[n]) = j
                \/ /\ Len(k[n]) = j + 1 /\ k[n][j + 1] = {}
                   /\ "tear" \in Faults /\ (j < Len(logs[n].recs) \/ AppendingTo(n))
<1>0. \E j \in logs[n].synced..Len(logs[n].recs) :
         /\ ~machine => j = Len(logs[n].recs)
         /\ \/ k[n] = SubSeq(logs[n].recs, 1, j)
            \/ /\ k[n] = Append(SubSeq(logs[n].recs, 1, j), {})
               /\ "tear" \in Faults /\ (j < Len(logs[n].recs) \/ AppendingTo(n))
  <2>1. k[n] \in Left(n, machine)
    BY DEF Kept
  <2>2. logs[n].synced \in Nat /\ Len(logs[n].recs) \in Nat /\ logs[n].synced <= Len(logs[n].recs)
    BY DEF DataInv, DiskInv
  <2>3. PICK j \in (IF machine THEN logs[n].synced ELSE Len(logs[n].recs))..Len(logs[n].recs) :
          \/ k[n] = SubSeq(logs[n].recs, 1, j)
          \/ /\ k[n] = Append(SubSeq(logs[n].recs, 1, j), {})
             /\ "tear" \in Faults /\ (j < Len(logs[n].recs) \/ AppendingTo(n))
    BY <2>1 DEF Left
  <2>4. j \in logs[n].synced..Len(logs[n].recs) /\ (~machine => j = Len(logs[n].recs))
    BY <2>2, <2>3
  <2> QED
    BY <2>3, <2>4
<1>1. logs[n] \in [recs: Seq(SUBSET Entry), synced: Nat]
  BY DEF DataInv, DiskInv
<1>2. logs[n].recs \in Seq(SUBSET Entry) /\ logs[n].synced \in Nat /\ Len(logs[n].recs) \in Nat
  BY <1>1
<1>3. PICK r \in Seq(SUBSET Entry) : r = logs[n].recs
  BY <1>2
<1>4. PICK j \in logs[n].synced..Len(r) :
             /\ ~machine => j = Len(r)
             /\ \/ k[n] = SubSeq(r, 1, j)
                \/ /\ k[n] = Append(SubSeq(r, 1, j), {})
                   /\ "tear" \in Faults /\ (j < Len(r) \/ AppendingTo(n))
  BY <1>0, <1>3
<1>5. j \in Nat /\ j <= Len(r) /\ logs[n].synced <= j /\ Len(r) \in Nat
  BY <1>2, <1>3, <1>4
<1>6. 1 \in 1..Len(r) + 1 /\ j \in 0..Len(r) /\ j - 1 + 1 = j
  BY <1>5
<1>7. /\ SubSeq(r, 1, j) \in Seq(SUBSET Entry) /\ Len(SubSeq(r, 1, j)) = j
      /\ \A i \in 1..j : SubSeq(r, 1, j)[i] = r[i]
  BY <1>6, SubSeqProperties
<1>9. \A i \in 1..j : i \in 1..Len(r)
  BY <1>5
<1>10. PICK q \in Seq(SUBSET Entry) : q = SubSeq(r, 1, j)
  BY <1>7
<1>11. /\ Append(q, {}) \in Seq(SUBSET Entry) /\ Len(Append(q, {})) = Len(q) + 1
       /\ \A i \in 1..Len(q) : Append(q, {})[i] = q[i]
       /\ Append(q, {})[Len(q) + 1] = {}
  BY <1>10, AppendProperties
<1>12. CASE k[n] = q
  BY <1>2, <1>3, <1>4, <1>5, <1>7, <1>9, <1>10, <1>12
<1>13. CASE k[n] = Append(q, {}) /\ "tear" \in Faults /\ (j < Len(r) \/ AppendingTo(n))
  <2>1. Len(k[n]) = j + 1 /\ k[n][j + 1] = {} /\ k[n] \in Seq(SUBSET Entry)
        /\ \A i \in 1..j : k[n][i] = r[i]
    BY <1>7, <1>10, <1>11, <1>13
  <2> QED
    BY <1>2, <1>3, <1>4, <1>5, <1>9, <1>13, <2>1
<1> QED
  BY <1>4, <1>10, <1>12, <1>13

\* A crash of the process or of the machine, between any two steps.
LEMMA CrashData ==
    ASSUME DataInv, WholeInv, WritePathInv, WritePathInv', NEW machine \in BOOLEAN, Crash(machine)
    PROVE  DataInv'
<1>1. PICK k \in Kept(machine) :
         /\ logs' = [n \in DOMAIN logs |-> [recs |-> k[n], synced |-> logs[n].synced]]
         /\ calls' = [i \in DOMAIN calls |->
                 [calls[i] EXCEPT !.res =
                     IF @ = "pending" THEN "cut"
                     ELSE IF @ = "ok" /\ calls[i].count # 0
                             /\ ~Holds(FromDisk(manifest', LAMBDA n : k[n]), i)
                             /\ machine /\ ~calls[i].sync
                          THEN "lost" ELSE @]]
  BY DEF Crash
<1>2. /\ Down /\ Len(calls') = Len(calls)
      /\ \A i \in 1..Len(calls) :
           calls'[i].count = calls[i].count /\ calls'[i].sync = calls[i].sync
  BY CrashCalls DEF WritePathInv
<1>3. /\ tables' = tables /\ pc' = [t \in Threads |-> "idle"]
      /\ group' = << >> /\ write_batch' = {} /\ status' = "ok" /\ mem_' = {} /\ imm_' = None
      /\ writers_' = << >> /\ last_sequence_' = 0 /\ mode' = "down" /\ bgpc' = "idle"
      /\ manifest'.version = manifest.version /\ manifest'.log_number = manifest.log_number
      /\ manifest'.last_sequence = manifest.last_sequence
  <2>1. manifest' = manifest \/ manifest' = TornManifest
    BY DEF Crash, ManifestKept
  <2> QED
    BY <1>2, <2>1, TornFields DEF Down, WritePathInv, FilesInv, FilesPart
<1>4. Len(calls) \in Nat /\ DOMAIN calls = 1..Len(calls) /\ \A i \in 1..Len(calls) : calls[i] \in CallT
  BY DEF WritePathInv, ThreadInv, ThreadTypes
<1>5. SameCalls
  BY <1>2, <1>4 DEF SameCalls
<1>6. Imm' = {} /\ \A t \in Threads : pc'[t] \notin Writing
  BY <1>3, ImmNoneNext DEF Writing
<1>8. ASSUME NEW n \in DOMAIN logs
      PROVE  \E j \in Nat :
               /\ logs[n].synced \in Nat /\ Len(logs[n].recs) \in Nat
               /\ logs[n].synced <= j /\ j <= Len(logs[n].recs)
               /\ ~machine => j = Len(logs[n].recs)
               /\ logs'[n].synced = logs[n].synced /\ logs'[n].recs = k[n]
               /\ k[n] \in Seq(SUBSET Entry) /\ Len(k[n]) \in Nat
               /\ \A i \in 1..j : i \in 1..Len(logs[n].recs) /\ k[n][i] = logs[n].recs[i]
               /\ \/ Len(k[n]) = j
                  \/ /\ Len(k[n]) = j + 1 /\ k[n][j + 1] = {}
                     /\ "tear" \in Faults /\ (j < Len(logs[n].recs) \/ AppendingTo(n))
  BY <1>1, KeptIs
<1>9. DOMAIN logs' = DOMAIN logs
  BY <1>1
<1>10. /\ ContentInv' /\ OwnInv' /\ BatchInv' /\ SeqInv' /\ FlushInv' /\ LogInv' /\ RecLogInv'
  <2>1. ASSUME NEW n \in DOMAIN logs', NEW i \in 1..Len(logs'[n].recs)
        PROVE  \/ logs'[n].recs[i] = {}
               \/ i \in 1..Len(logs[n].recs) /\ logs'[n].recs[i] = logs[n].recs[i]
    <3>1. n \in DOMAIN logs
      BY <1>9
    <3>2. PICK j \in Nat :
               /\ logs'[n].recs = k[n]
               /\ k[n] \in Seq(SUBSET Entry) /\ Len(k[n]) \in Nat
               /\ \A x \in 1..j : x \in 1..Len(logs[n].recs) /\ k[n][x] = logs[n].recs[x]
               /\ \/ Len(k[n]) = j
                  \/ /\ Len(k[n]) = j + 1 /\ k[n][j + 1] = {}
                     /\ "tear" \in Faults /\ (j < Len(logs[n].recs) \/ AppendingTo(n))
      BY <1>8, <3>1
    <3>3. i \in 1..j \/ (i = j + 1 /\ k[n][j + 1] = {})
      BY <3>2
    <3> QED
      BY <3>2, <3>3
  <2>2. /\ manifest'.last_sequence \in Nat
        /\ \A e \in InTables(manifest.version)' : e.seq <= manifest'.last_sequence
    BY <1>3 DEF DataInv, SeqInv, InTables
  <2> QED
    BY <1>3, <1>5, <1>6, <1>9, <2>1, <2>2, DownKept
<1>11. DiskInv'
  <2>1. ASSUME NEW n \in DOMAIN logs'
        PROVE  /\ logs'[n] \in [recs: Seq(SUBSET Entry), synced: Nat]
               /\ logs'[n].synced <= Len(logs'[n].recs)
               /\ \A i \in 1..Len(logs'[n].recs) : logs'[n].recs[i] = {} =>
                    i = Len(logs'[n].recs) /\ logs'[n].synced < i /\ "tear" \in Faults
    <3>1. n \in DOMAIN logs
      BY <1>9
    <3>2. PICK j \in Nat :
               /\ logs[n].synced \in Nat /\ Len(logs[n].recs) \in Nat
               /\ logs[n].synced <= j /\ j <= Len(logs[n].recs)
               /\ logs'[n].synced = logs[n].synced /\ logs'[n].recs = k[n]
               /\ k[n] \in Seq(SUBSET Entry) /\ Len(k[n]) \in Nat
               /\ \A i \in 1..j : i \in 1..Len(logs[n].recs) /\ k[n][i] = logs[n].recs[i]
               /\ \/ Len(k[n]) = j
                  \/ /\ Len(k[n]) = j + 1 /\ k[n][j + 1] = {}
                     /\ "tear" \in Faults /\ (j < Len(logs[n].recs) \/ AppendingTo(n))
      BY <1>8, <3>1
    <3>3. logs'[n] = [recs |-> logs'[n].recs, synced |-> logs'[n].synced]
      BY <1>1, <3>1
    <3>4. \A i \in 1..Len(logs[n].recs) : logs[n].recs[i] = {} =>
             i = Len(logs[n].recs) /\ logs[n].synced < i /\ "tear" \in Faults
      BY <3>1 DEF DataInv, DiskInv
    <3>5. logs'[n] \in [recs: Seq(SUBSET Entry), synced: Nat]
      BY <3>2, <3>3
    <3>6. AppendingTo(n) => \A i \in 1..Len(logs[n].recs) : logs[n].recs[i] # {}
      <4>1. AppendingTo(n) => mode = "open" /\ n = logfile_number_
        BY DEF AppendingTo, WritePathInv, FilesInv, ClosedInv
      <4> QED
        BY <4>1, InUse
    <3>7. ASSUME NEW i \in 1..Len(k[n]), k[n][i] = {}
          PROVE  i = Len(k[n]) /\ logs[n].synced < i /\ "tear" \in Faults
      <4>1. CASE i \in 1..j
        <5>1. i = Len(logs[n].recs) /\ logs[n].synced < i /\ "tear" \in Faults /\ i = j
          BY <3>2, <3>4, <3>7, <4>1
        <5>2. ~AppendingTo(n) /\ ~(j < Len(logs[n].recs))
          BY <3>2, <3>6, <3>7, <4>1, <5>1
        <5> QED
          BY <3>2, <5>1, <5>2
      <4>2. CASE i \notin 1..j
        BY <3>2, <4>2
      <4> QED
        BY <4>1, <4>2
    <3>8. logs'[n].synced <= Len(logs'[n].recs)
      BY <3>2
    <3> QED
      BY <3>2, <3>5, <3>7, <3>8
  <2> QED
    BY <2>1 DEF DiskInv
<1>12. InTables(manifest.version)' = InTables(manifest.version)
  BY <1>3 DEF InTables
<1>13. OnDiskSynced' = OnDiskSynced
  <2>1. ASSUME NEW n \in DOMAIN logs PROVE SyncedSet(n)' = SyncedSet(n)
    <3>1. PICK j \in Nat :
            /\ logs[n].synced \in Nat /\ logs[n].synced <= j
            /\ logs'[n].synced = logs[n].synced /\ logs'[n].recs = k[n]
            /\ \A i \in 1..j : k[n][i] = logs[n].recs[i]
      BY <1>8
    <3>2. logs'[n].synced = logs[n].synced /\ \A i \in 1..logs[n].synced : logs'[n].recs[i] = logs[n].recs[i]
      BY <3>1
    <3> QED
      BY <3>2 DEF SyncedSet
  <2>2. manifest'.log_number = manifest.log_number /\ DOMAIN logs' = DOMAIN logs
    BY <1>3, <1>9
  <2>3. \A e : e \in OnDiskSynced' <=> e \in OnDiskSynced
    BY <1>12, <2>1, <2>2, SyncedIs, SyncedIsNext, SMTT(30)
  <2> QED
    BY <2>3
<1>14. PICK left : left = FromDisk(manifest', LAMBDA n : k[n])
  OBVIOUS
<1>15. left \subseteq OnDisk'
  <2>1. ASSUME NEW n \in DOMAIN logs, n >= manifest.log_number, NEW e \in BeforeTorn(k[n])
        PROVE  e \in OnDisk'
    <3>1. logs'[n].recs = k[n] /\ DOMAIN k[n] = 1..Len(k[n])
      BY <1>8
    <3>2. e \in LogSet(n)'
      BY <3>1 DEF LogSet, BeforeTorn
    <3> QED
      BY <1>3, <1>9, <2>1, <3>2, RecoverableIsNext
  <2>2. \A e \in left : \/ e \in InTables(manifest'.version)
                        \/ \E n \in DOMAIN logs : n >= manifest.log_number /\ e \in BeforeTorn(k[n])
    BY <1>14 DEF FromDisk, InLogs
  <2>3. InTables(manifest'.version) = InTables(manifest.version)'
    BY <1>3 DEF InTables
  <2> QED
    BY <2>1, <2>2, <2>3, RecoverableIsNext
<1>16. OnDiskSynced' \subseteq OnDisk'
  <2>1. ASSUME NEW n \in DOMAIN logs PROVE SyncedSet(n)' \subseteq LogSet(n)'
    <3>1. 1..logs'[n].synced \subseteq 1..Len(logs'[n].recs)
      <4>1. logs'[n].synced <= Len(logs'[n].recs) /\ logs'[n] \in [recs: Seq(SUBSET Entry), synced: Nat]
        BY <1>9, <1>11 DEF DiskInv
      <4> QED
        BY <4>1
    <3> QED
      BY <3>1 DEF SyncedSet, LogSet
  <2> QED
    BY <1>9, <2>1, SyncedIsNext, RecoverableIsNext
<1>17. ~machine => OnDisk \subseteq OnDisk'
  <2> SUFFICES ASSUME ~machine PROVE OnDisk \subseteq OnDisk'
    OBVIOUS
  <2>1. ASSUME NEW n \in DOMAIN logs PROVE LogSet(n) \subseteq LogSet(n)'
    <3>1. /\ Len(k[n]) \in Nat /\ Len(k[n]) >= Len(logs[n].recs) /\ Len(logs[n].recs) \in Nat
          /\ logs'[n].recs = k[n] /\ \A i \in 1..Len(logs[n].recs) : k[n][i] = logs[n].recs[i]
      BY <1>8
    <3>2. \A i \in 1..Len(logs[n].recs) : i \in 1..Len(logs'[n].recs) /\ logs'[n].recs[i] = logs[n].recs[i]
      BY <3>1
    <3> QED
      BY <3>2 DEF LogSet
  <2> QED
    BY <1>3, <1>9, <1>12, <2>1, RecoverableIs, RecoverableIsNext
<1>18. ASSUME NEW i \in 1..Len(calls), calls'[i].res = "ok"
       PROVE  /\ calls[i].res = "ok"
              /\ calls[i].count = 0 \/ Holds(left, i) \/ ~machine \/ calls[i].sync
  <2> DEFINE r == IF calls[i].res = "pending" THEN "cut"
                     ELSE IF calls[i].res = "ok" /\ calls[i].count # 0
                             /\ ~Holds(left, i)
                             /\ machine /\ ~calls[i].sync
                          THEN "lost" ELSE calls[i].res
  <2>1. calls'[i] = [calls[i] EXCEPT !.res = r]
    BY <1>1, <1>4, <1>14
  <2>2. calls[i] \in CallT
    BY <1>4
  <2> HIDE DEF r
  <2>3. calls'[i].res = r
    BY <2>1, <2>2 DEF CallT
  <2>4. r = "ok"
    BY <1>18, <2>3
  <2> QED
    BY <2>4 DEF r
<1>19. AnswerInv'
  <2>1. ASSUME NEW i \in 1..Len(calls), Answered(i)'
        PROVE  /\ \E e \in OnDisk' : e.id = i
               /\ calls'[i].sync => \E e \in OnDiskSynced' : e.id = i
    <3>1. /\ Answered(i) /\ calls'[i].sync = calls[i].sync
          /\ Holds(left, i) \/ ~machine \/ calls[i].sync
      BY <1>2, <1>18, <2>1 DEF Answered
    <3>2. /\ \E e \in OnDisk : e.id = i
          /\ calls[i].sync => \E e \in OnDiskSynced : e.id = i
      BY <3>1 DEF DataInv, AnswerInv
    <3>3. CASE Holds(left, i)
      <4>1. Cardinality({e \in left : e.id = i}) # 0
        BY <3>3 DEF Holds
      <4>2. {e \in left : e.id = i} # {}
        BY <4>1, FS_EmptySet
      <4> QED
        BY <1>13, <1>15, <3>1, <3>2, <4>2
    <3>4. CASE ~machine
      BY <1>13, <1>17, <3>1, <3>2, <3>4
    <3>5. CASE calls[i].sync
      BY <1>13, <1>16, <3>1, <3>2, <3>5
    <3> QED
      BY <3>1, <3>3, <3>4, <3>5
  <2>2. \A i \in 1..Len(calls) : calls'[i].sync => calls'[i].count # 0
    BY <1>2 DEF DataInv, AnswerInv
  <2> QED
    BY <1>2, <1>3, <2>1, <2>2 DEF AnswerInv
<1> QED
  BY <1>10, <1>11, <1>19 DEF DataInv

\* Of a log with no torn record but its last log::Reader returns everything.
LEMMA ReadRecordsIs ==
    ASSUME DiskInv, NEW n \in DOMAIN logs, NEW es \in ReadRecords(n)
    PROVE  es = LogSet(n)
<1>1. PICK r \in Seq(SUBSET Entry) : r = logs[n].recs
  BY DEF DiskInv
<1>2. DOMAIN r = 1..Len(r) /\ Len(r) \in Nat
  BY <1>1
<1>3. \A i \in 1..Len(r) : r[i] = {} => i = Len(r)
  BY <1>1 DEF DiskInv
<1>4. PICK D \in SUBSET DOMAIN r :
         /\ \A i \in D : r[i] = {} \/ i - 1 \in D
         /\ es = UNION {r[i] : i \in DOMAIN r \ D}
  BY <1>1 DEF ReadRecords
<1>5. \A i \in D : r[i] = {}
  <2> SUFFICES ASSUME NEW j \in D, r[j] # {} PROVE FALSE
    OBVIOUS
  <2> DEFINE S == {i \in D : r[i] # {}}
  <2>1. S \in SUBSET Nat /\ S # {}
    BY <1>2, <1>4
  <2>2. PICK m \in S : \A i \in S : m <= i
    BY <2>1, LeastElement
  <2>3. m - 1 \in D /\ m \in 1..Len(r)
    BY <1>2, <1>4, <2>2
  <2>4. m - 1 \in 1..Len(r) /\ m - 1 # Len(r)
    BY <1>2, <1>4, <2>3
  <2>5. m - 1 \in S
    BY <1>3, <2>3, <2>4
  <2> QED
    BY <2>2, <2>3, <2>5
<1>6. \A e : e \in es <=> \E i \in DOMAIN r \ D : e \in r[i]
  BY <1>4
<1>7. \A e : e \in LogSet(n) <=> \E i \in 1..Len(r) : e \in r[i]
  BY <1>1 DEF LogSet
<1> QED
  BY <1>2, <1>5, <1>6, <1>7

\* max_sequence in RecoverLogFile.
LEMMA MaxSequenceIs ==
    ASSUME last_sequence_ \in Nat, NEW es, es \subseteq Entry, Bounded(es)
    PROVE  /\ MaxSequence(es) \in Nat /\ last_sequence_ <= MaxSequence(es)
           /\ \A e \in es : e.seq <= MaxSequence(es)
<1> DEFINE S == {last_sequence_} \cup {e.seq : e \in es}
<1>1. S \in SUBSET Nat /\ S # {}
  BY DEF Entry
<1>2. PICK b \in Nat : \A e \in es : e.seq <= b
  BY DEF Bounded
<1>3. PICK c \in Nat : b <= c /\ last_sequence_ <= c
  <2>1. b + last_sequence_ \in Nat /\ b <= b + last_sequence_ /\ last_sequence_ <= b + last_sequence_
    OBVIOUS
  <2> QED
    BY <2>1
<1>4. \A x \in S : x <= c
  <2>1. \A e \in es : e.seq \in Nat
    BY DEF Entry
  <2> QED
    BY <1>2, <1>3, <2>1
<1>5. \A e \in es : e.seq \in S
  OBVIOUS
<1>6. last_sequence_ \in S
  OBVIOUS
<1>7. MaxSequence(es) = Max(S)
  BY DEF MaxSequence
<1> HIDE DEF S
<1>8. Max(S) \in S /\ \A x \in S : x <= Max(S)
  BY <1>1, <1>4, MaxIsGreatest
<1> QED
  BY <1>1, <1>5, <1>6, <1>7, <1>8

\* RecoverLogFile: a log, oldest first, into a table or the memtable.
LEMMA RecoverLogFileData ==
    ASSUME DataInv, WritePathInv, WritePathInv', RecoverLogFile
    PROVE  DataInv'
<1>1. PICK n : n = Min(rlogs)
  OBVIOUS
<1>2. PICK f : f = next_file_number_
  OBVIOUS
<1>3. PICK es \in ReadRecords(n) :
          /\ last_sequence_' = MaxSequence(es)
          /\ \/ /\ rlogs' = {} /\ mem_' = es /\ logfile_number_' = n /\ UNCHANGED <<tables, edit>>
             \/ /\ es = {} /\ UNCHANGED <<mem_, logfile_number_, tables, edit>>
             \/ /\ tables' = Created(tables, f, es) /\ edit' = [edit EXCEPT !.add = @ \cup {f}]
                /\ UNCHANGED <<mem_, logfile_number_>>
  BY <1>1, <1>2 DEF RecoverLogFile, ReuseLog
<1>4. /\ UNCHANGED <<calls, pc, call, writers_, group, write_batch, status, imm_, bgpc, flushing,
                     compacting, mode, logs, manifest>>
      /\ mode = "recover" /\ rlogs # {} /\ rlogs' = rlogs \ {n}
  BY <1>1 DEF RecoverLogFile, callVars, queueVars, headVars
<1>5. /\ ThreadInv /\ group = << >> /\ write_batch = {} /\ status = "ok"
      /\ writers_ = << >> /\ imm_ = None /\ Imm = {} /\ bgpc = "idle" /\ ~Inserting
      /\ \A t \in Threads : pc[t] \notin Writing
  BY <1>4, ClosedFacts
<1>6. /\ rlogs \subseteq LogsFrom(manifest.log_number) /\ logfile_number_ = NoFile
      /\ f \in Nat /\ edit \in EditT /\ manifest.log_number \in Nat /\ 0 < manifest.log_number
      /\ DOMAIN logs \subseteq Nat /\ DOMAIN tables \subseteq Nat
      /\ manifest.next_file \in Nat /\ f > manifest.next_file
      /\ \A k \in Files(manifest.version) : k < manifest.next_file
      /\ Files(manifest.version) \subseteq DOMAIN tables
      /\ edit.add \subseteq DOMAIN tables /\ \A k \in edit.add : k < f
  BY <1>2, <1>4 DEF WritePathInv, FilesInv, FilesPart, FileTypes, ManifestInv, RecoverInv
<1>7. LogsFrom(manifest.log_number) \subseteq DOMAIN logs
  BY DEF LogsFrom
<1>8. n \in rlogs /\ n \in DOMAIN logs /\ \A k \in rlogs : n <= k
  <2>1. rlogs \in SUBSET Nat
    BY <1>6, <1>7
  <2>2. n \in rlogs /\ \A k \in rlogs : n <= k
    BY <1>1, <1>4, <2>1, MinIsLeast
  <2> QED
    BY <1>6, <1>7, <2>2
<1>9. es = LogSet(n)
  BY <1>8, ReadRecordsIs DEF DataInv
<1>10. LogSet(n) \subseteq Entries /\ Entries \subseteq Entry /\ Bounded(Entries)
  BY <1>8, EntriesIs DEF DataInv, ContentInv
<1>11. es \subseteq Entry /\ Bounded(es)
  BY <1>9, <1>10 DEF Bounded
<1>12. PICK l \in Nat : l = last_sequence_
  BY DEF DataInv, SeqInv
<1>13. /\ last_sequence_' \in Nat /\ l <= last_sequence_'
       /\ \A e \in es : e.seq <= last_sequence_'
  BY <1>3, <1>11, <1>12, MaxSequenceIs
<1>14. mem_ = {}
  BY <1>4, <1>6 DEF DataInv, RecLogInv
<1>15. \A U \in Units : U \subseteq Entries /\ WholeIn(U, Entries)
  BY DEF DataInv, ContentInv, Entries
<1>16. es \subseteq Entries /\ WholeIn(es, Entries)
  <2>1. \A U \in {logs[n].recs[i] : i \in 1..Len(logs[n].recs)} : WholeIn(U, Entries)
    BY <1>8, <1>15, UnitsIs
  <2>2. WholeIn(LogSet(n), Entries)
    BY <2>1, WholeUnion DEF LogSet
  <2> QED
    BY <1>9, <1>10, <2>2
<1>17. mem_' \in {{}, es} /\ Imm' = Imm
  BY <1>3, <1>4, <1>14 DEF Imm
<1>18. \A k \in DOMAIN tables' : (k \in DOMAIN tables /\ tables'[k] = tables[k]) \/ tables'[k] = es
  BY <1>3 DEF Created
<1>19. ASSUME NEW U \in Units' PROVE U \in Units \/ U = {} \/ U = es
  BY <1>4, <1>5, <1>17, <1>18, UnitsIs, UnitsIsNext
<1>20. SameCalls /\ ThreadInv'
  BY <1>4, <1>5 DEF SameCalls, ThreadInv, ThreadTypes, WritePathInv
<1>21. ContentInv'
  <2>1. \A U \in Units' : U \subseteq Entries /\ WholeIn(U, Entries)
    BY <1>15, <1>16, <1>19, WholeEmpty
  <2>2. WholeIn(mem_', Entries)
    BY <1>16, <1>17, WholeEmpty
  <2> QED
    BY <1>5, <1>20, <2>1, <2>2, ContentKept DEF DataInv
<1>22. OwnInv'
  BY <1>4, <1>5 DEF OwnInv
<1>23. BatchInv'
  BY <1>4, <1>5, FS_EmptySet DEF BatchInv, Writing
<1>24. /\ \A k : LogSet(k)' = LogSet(k) /\ SyncedSet(k)' = SyncedSet(k)
       /\ LogsFrom(manifest.log_number)' = LogsFrom(manifest.log_number)
  BY <1>4 DEF LogSet, SyncedSet, LogsFrom
<1>25. f \notin Files(manifest.version) /\ f \notin edit.add
  BY <1>6 DEF WritePathInv, FilesInv, FilesPart, FileTypes, Files, Version
<1>26. InTables(manifest.version)' = InTables(manifest.version)
  <2>1. \A k \in Files(manifest.version) : tables'[k] = tables[k]
    BY <1>3, <1>6, <1>25 DEF Created
  <2> QED
    BY <1>4, <2>1 DEF InTables, Files
<1>27. \/ TableSet(edit.add)' = TableSet(edit.add)
       \/ TableSet(edit.add)' = TableSet(edit.add) \cup es
  <2>1. CASE UNCHANGED <<tables, edit>>
    BY <2>1 DEF TableSet
  <2>2. CASE tables' = Created(tables, f, es) /\ edit' = [edit EXCEPT !.add = @ \cup {f}]
    <3>1. edit'.add = edit.add \cup {f}
      BY <1>6, <2>2 DEF EditT
    <3>2. tables'[f] = es /\ \A k \in edit.add : tables'[k] = tables[k]
      BY <1>6, <1>25, <2>2 DEF Created
    <3>3. \A e : e \in TableSet(edit.add)' <=> \E k \in edit.add \cup {f} : e \in tables'[k]
      BY <3>1 DEF TableSet
    <3>4. \A e : e \in TableSet(edit.add) <=> \E k \in edit.add : e \in tables[k]
      BY DEF TableSet
    <3> QED
      BY <3>2, <3>3, <3>4
  <2> QED
    BY <1>3, <2>1, <2>2
<1>28. \/ /\ mem_' = es /\ logfile_number_' = n /\ rlogs' = {}
          /\ TableSet(edit.add)' = TableSet(edit.add)
       \/ /\ mem_' = {} /\ logfile_number_' = NoFile
          /\ es \subseteq TableSet(edit.add)' /\ TableSet(edit.add) \subseteq TableSet(edit.add)'
  <2>1. CASE /\ rlogs' = {} /\ mem_' = es /\ logfile_number_' = n /\ UNCHANGED <<tables, edit>>
    BY <2>1 DEF TableSet
  <2>2. CASE es = {} /\ UNCHANGED <<mem_, logfile_number_, tables, edit>>
    BY <1>6, <1>14, <2>2 DEF TableSet
  <2>3. CASE /\ tables' = Created(tables, f, es) /\ edit' = [edit EXCEPT !.add = @ \cup {f}]
             /\ UNCHANGED <<mem_, logfile_number_>>
    <3>1. f \in edit'.add /\ tables'[f] = es
      BY <1>6, <2>3 DEF Created, EditT
    <3>2. es \subseteq TableSet(edit.add)'
      BY <3>1 DEF TableSet
    <3> QED
      BY <1>6, <1>14, <1>27, <2>3, <3>2
  <2> QED
    BY <1>3, <2>1, <2>2, <2>3
<1>29. SeqInv'
  <2>1. /\ manifest.last_sequence \in Nat /\ manifest.last_sequence <= l
        /\ \A e \in InTables(manifest.version) : e.seq <= manifest.last_sequence
        /\ \A m \in LogsFrom(manifest.log_number) \ rlogs : \A e \in LogSet(m) : e.seq <= l
        /\ \A e \in TableSet(edit.add) : e.seq <= l
    BY <1>4, <1>12 DEF DataInv, SeqInv
  <2>2. TableSet(edit.add) \subseteq Entries /\ \A m \in DOMAIN logs : LogSet(m) \subseteq Entries
    BY <1>6, EntriesIs DEF TableSet
  <2>3. \A e \in Entries : e.seq \in Nat
    BY <1>10 DEF Entry
  <2>4. \A e \in TableSet(edit.add)' \cup mem_' : e.seq <= last_sequence_'
    BY <1>12, <1>13, <1>17, <1>27, <2>1, <2>2, <2>3
  <2>5. ASSUME NEW m \in LogsFrom(manifest.log_number) \ rlogs', NEW e \in LogSet(m)
        PROVE  e.seq <= last_sequence_'
    <3>1. m = n \/ m \in LogsFrom(manifest.log_number) \ rlogs
      BY <1>4
    <3>2. e.seq \in Nat
      BY <1>7, <2>2, <2>3
    <3> QED
      BY <1>9, <1>12, <1>13, <2>1, <3>1, <3>2
  <2>6. manifest.last_sequence <= last_sequence_'
    BY <1>12, <1>13, <2>1
  <2> QED
    BY <1>4, <1>13, <1>24, <1>26, <2>1, <2>4, <2>5, <2>6 DEF SeqInv
<1>30. FlushInv' /\ LogInv'
  BY <1>4, <1>5 DEF FlushInv, LogInv, Busy
<1>31. DiskInv'
  BY <1>4 DEF DataInv, DiskInv
<1>32. RecLogInv'
  <2>1. \A m \in LogsFrom(manifest.log_number) \ rlogs :
                  /\ \A k \in rlogs : m < k
                  /\ m # logfile_number_ => LogSet(m) \subseteq TableSet(edit.add)
    BY <1>4 DEF DataInv, RecLogInv
  <2>2. \A m \in LogsFrom(manifest.log_number) : m # NoFile /\ m \in Nat
    BY <1>6 DEF LogsFrom, NoFile
  <2>3. \A m \in LogsFrom(manifest.log_number) \ rlogs : LogSet(m) \subseteq TableSet(edit.add)
    BY <1>6, <2>1, <2>2
  <2>4. \A m \in LogsFrom(manifest.log_number) \ rlogs' :
           m = n \/ m \in LogsFrom(manifest.log_number) \ rlogs
    BY <1>4
  <2>5. \A k \in rlogs' : k \in rlogs /\ n < k
    BY <1>4, <1>6, <1>8, <2>2
  <2>6. \A m \in LogsFrom(manifest.log_number) \ rlogs' : \A k \in rlogs' : m < k
    BY <2>1, <2>4, <2>5
  <2>7. \A m \in LogsFrom(manifest.log_number) \ rlogs' :
           m # logfile_number_' => LogSet(m) \subseteq TableSet(edit.add)'
    BY <1>9, <1>28, <2>3, <2>4
  <2>8. logfile_number_' # NoFile =>
           /\ logfile_number_' = n /\ LogSet(n) = mem_'
           /\ \A m \in LogsFrom(manifest.log_number) : m <= n
    <3>1. SUFFICES ASSUME logfile_number_' # NoFile
                   PROVE  /\ logfile_number_' = n /\ LogSet(n) = mem_'
                          /\ \A m \in LogsFrom(manifest.log_number) : m <= n
      OBVIOUS
    <3>2. mem_' = es /\ logfile_number_' = n /\ rlogs' = {}
      BY <1>28, <3>1
    <3>3. ASSUME NEW m \in LogsFrom(manifest.log_number) PROVE m <= n
      <4>1. m = n \/ m \in LogsFrom(manifest.log_number) \ rlogs
        BY <2>4, <3>2
      <4>2. n \in Nat /\ m \in Nat
        BY <1>6, <1>8, <2>2
      <4> QED
        BY <1>8, <2>1, <4>1, <4>2
    <3> QED
      BY <1>9, <3>2, <3>3
  <2>9. logfile_number_' = NoFile => mem_' = {}
    <3>1. n # NoFile
      BY <1>6, <1>8, <2>2
    <3> QED
      BY <1>28, <3>1
  <2> QED
    BY <1>4, <1>24, <2>6, <2>7, <2>8, <2>9 DEF RecLogInv
<1>33. AnswerInv'
  <2>1. OnDisk' = OnDisk /\ OnDiskSynced' = OnDiskSynced
    BY <1>4, <1>24, <1>26, RecoverableIs, RecoverableIsNext, SyncedIs, SyncedIsNext
  <2> QED
    BY <1>4, <1>5, <2>1, AnswersGrow DEF DataInv
<1> QED
  BY <1>21, <1>22, <1>23, <1>29, <1>30, <1>31, <1>32, <1>33 DEF DataInv

\* The end of DB::Open: the new manifest rules out logs that are in tables.
LEMMA FinishOpenData ==
    ASSUME WholeRecords, WholeInv, DataInv, WritePathInv, WritePathInv', FinishOpen
    PROVE  DataInv'
<1>1. /\ UNCHANGED <<calls, pc, call, writers_, group, write_batch, status, imm_, bgpc, flushing,
                     compacting, mem_, logfile_number_, last_sequence_>>
      /\ mode = "recover" /\ mode' = "open" /\ rlogs = {} /\ logfile_number_ # NoFile
      /\ tables' = [k \in DOMAIN tables \cap Files(current') |-> tables[k]]
      /\ logs' = [k \in {m \in DOMAIN logs : m >= log_number_'} |-> logs[k]]
  BY DEF FinishOpen, Opening, callVars, queueVars, headVars, memVars
<1>2. /\ ThreadInv /\ group = << >> /\ write_batch = {} /\ status = "ok"
      /\ writers_ = << >> /\ imm_ = None /\ Imm = {} /\ bgpc = "idle" /\ ~Inserting
      /\ \A t \in Threads : pc[t] \notin Writing
  BY <1>1, ClosedFacts
<1>3. PICK v \in Version : v = manifest.version
  BY DEF WritePathInv, FilesInv, FilesPart, FileTypes
<1>4. /\ current = v /\ edit \in EditT /\ edit.del = {} /\ edit.add \subseteq DOMAIN tables
      /\ Files(v) \subseteq DOMAIN tables /\ log_number_ = manifest.log_number
      /\ manifest.log_number \in Nat /\ logfile_number_ \in Nat /\ DOMAIN logs \subseteq Nat
      /\ logfile_number_ \in LogsFrom(manifest.log_number)
  BY <1>1, <1>3 DEF WritePathInv, FilesInv, FilesPart, FileTypes, RecoverInv
<1>5. logfile_number_ \in DOMAIN logs /\ manifest.log_number <= logfile_number_
  BY <1>4 DEF LogsFrom
<1>6. PICK F : F = Files(v) \cup edit.add
  OBVIOUS
<1>7. \/ /\ Files(current') = F /\ Files(manifest'.version) = F
         /\ log_number_' = logfile_number_ /\ manifest'.log_number = logfile_number_
         /\ manifest'.last_sequence = last_sequence_
      \/ /\ Files(current') = F /\ Files(manifest'.version) = F /\ edit.add = {}
         /\ log_number_' = manifest.log_number /\ manifest' = manifest
  <2>1. Opening /\ FilesInv
    BY DEF FinishOpen, WritePathInv
  <2>2. CASE SavesManifest
    <3>1. manifest' = Logged(OpenEdit) /\ current' = Apply(current, OpenEdit) /\ log_number_' = logfile_number_
      BY <2>1, <2>2, AppendsWhole DEF FinishOpen
    <3>2. Files(Apply(current, OpenEdit)) = Files(current) \cup edit.add
      BY <2>1, OpeningFacts
    <3>3. /\ manifest'.version = Apply(v, OpenEdit) /\ manifest'.log_number = logfile_number_
          /\ manifest'.last_sequence = last_sequence_
      BY <1>3, <2>1, <3>1, OpeningFacts DEF Logged
    <3> QED
      BY <1>4, <1>6, <3>1, <3>2, <3>3
  <2>3. CASE ~SavesManifest
    <3>1. UNCHANGED <<manifest, current, log_number_>> /\ edit.add = {}
      BY <2>3 DEF FinishOpen, SavesManifest
    <3> QED
      BY <1>3, <1>4, <1>6, <3>1
  <2> QED
    BY <2>2, <2>3
<1>8. /\ F \subseteq DOMAIN tables /\ DOMAIN tables' = F /\ \A k \in F : tables'[k] = tables[k]
      /\ Files(current') = F /\ Files(manifest'.version) = F
  BY <1>1, <1>4, <1>6, <1>7
<1>9. /\ manifest'.log_number = log_number_' /\ manifest.log_number <= log_number_'
      /\ log_number_' <= logfile_number_ /\ log_number_' \in Nat
  BY <1>4, <1>5, <1>7
<1>10. /\ DOMAIN logs' = {m \in DOMAIN logs : m >= log_number_'}
       /\ \A k \in DOMAIN logs' : /\ logs'[k] = logs[k] /\ LogSet(k)' = LogSet(k)
                                  /\ SyncedSet(k)' = SyncedSet(k)
       /\ DOMAIN logs' \subseteq LogsFrom(manifest.log_number)
       /\ logfile_number_ \in DOMAIN logs'
  <2>1. /\ DOMAIN logs' = {m \in DOMAIN logs : m >= log_number_'}
        /\ \A k \in DOMAIN logs' : logs'[k] = logs[k]
    BY <1>1
  <2>2. \A k \in DOMAIN logs' : LogSet(k)' = LogSet(k) /\ SyncedSet(k)' = SyncedSet(k)
    BY <2>1 DEF LogSet, SyncedSet
  <2>3. DOMAIN logs' \subseteq LogsFrom(manifest.log_number)
    BY <1>4, <1>9, <2>1 DEF LogsFrom
  <2>4. logfile_number_ \in DOMAIN logs'
    BY <1>4, <1>5, <1>9, <2>1
  <2> QED
    BY <2>1, <2>2, <2>3, <2>4
<1>11. PICK T : T = InTables(manifest.version) \cup TableSet(edit.add)
  OBVIOUS
<1>12. /\ InTables(current)' = T /\ InTables(manifest.version)' = T
       /\ TableSet(DOMAIN tables)' = T /\ Imm' = {}
  <2>1. \A e : e \in T <=> \E k \in F : e \in tables[k]
    BY <1>3, <1>6, <1>11 DEF InTables, TableSet
  <2>2. \A e : e \in InTables(current)' <=> \E k \in Files(current') : e \in tables'[k]
    BY DEF InTables, Files
  <2>3. \A e : e \in InTables(manifest.version)' <=> \E k \in Files(manifest'.version) : e \in tables'[k]
    BY DEF InTables, Files
  <2>4. \A e : e \in TableSet(DOMAIN tables)' <=> \E k \in DOMAIN tables' : e \in tables'[k]
    BY DEF TableSet
  <2>5. Imm' = {}
    BY <1>1, <1>2, ImmNoneNext
  <2>6. \A e : e \in T <=> \E k \in F : e \in tables'[k]
    BY <1>8, <2>1
  <2>7. \A e : e \in InTables(current)' <=> e \in T
    BY <1>8, <2>2, <2>6
  <2>8. \A e : e \in InTables(manifest.version)' <=> e \in T
    BY <1>8, <2>3, <2>6
  <2>9. \A e : e \in TableSet(DOMAIN tables)' <=> e \in T
    BY <1>8, <2>4, <2>6
  <2>10. InTables(current)' = T
    BY <2>7
  <2>11. InTables(manifest.version)' = T
    BY <2>8
  <2>12. TableSet(DOMAIN tables)' = T
    BY <2>9
  <2> QED
    BY <2>5, <2>10, <2>11, <2>12
<1>13. ASSUME NEW U \in Units' PROVE U \in Units
  BY <1>1, <1>2, <1>8, <1>10, <1>12, UnitsIs, UnitsIsNext
<1>14. SameCalls /\ ThreadInv'
  BY <1>1, <1>2 DEF SameCalls, ThreadInv, ThreadTypes, WritePathInv
<1>15. ContentInv' /\ Entries' \subseteq Entries
  <2>1. \A U \in Units' : U \subseteq Entries /\ WholeIn(U, Entries)
    BY <1>13 DEF DataInv, ContentInv, Entries
  <2>2. WholeIn(mem_', Entries)
    BY <1>1, <1>2 DEF DataInv, ContentInv
  <2> QED
    BY <1>2, <1>14, <2>1, <2>2, ContentKept DEF DataInv
<1>16. OwnInv'
  BY <1>1, <1>2 DEF OwnInv
<1>17. BatchInv'
  BY <1>1, <1>2, FS_EmptySet DEF BatchInv, Writing
<1>18. /\ last_sequence_ \in Nat /\ manifest.last_sequence \in Nat
       /\ manifest.last_sequence <= last_sequence_
       /\ \A e \in InTables(manifest.version) : e.seq <= manifest.last_sequence
       /\ \A m \in LogsFrom(manifest.log_number) : \A e \in LogSet(m) : e.seq <= last_sequence_
       /\ \A e \in TableSet(edit.add) \cup mem_ : e.seq <= last_sequence_
  BY <1>1 DEF DataInv, SeqInv
<1>19. /\ \A e \in T : e.seq <= last_sequence_
       /\ \A e \in OnDisk : e \in T \/ e \in LogSet(logfile_number_)
       /\ \A e \in OnDiskSynced : e \in T \/ e \in SyncedSet(logfile_number_)
  BY <1>11, OpeningData DEF FinishOpen
<1>20. \A m \in DOMAIN logs' : \A e \in LogSet(m)' : e.seq <= last_sequence_
  BY <1>10, <1>18
<1>21. SeqInv'
  <2>1. \A e \in Entries' : e.seq <= last_sequence_
    <3>1. \A e \in Entries' : \/ e \in mem_ \/ e \in T
                              \/ \E m \in DOMAIN logs' : e \in LogSet(m)'
      <4>1. \A k \in DOMAIN tables' : tables'[k] \subseteq T
        BY <1>12 DEF TableSet
      <4> QED
        BY <1>1, <1>2, <1>12, <4>1, EntriesIsNext
    <3> QED
      BY <1>18, <1>19, <1>20, <3>1
  <2>2. /\ manifest'.last_sequence \in Nat /\ manifest'.last_sequence <= last_sequence_
        /\ \A e \in T : e.seq <= manifest'.last_sequence
    <3>1. CASE manifest'.last_sequence = last_sequence_
      BY <1>18, <1>19, <3>1
    <3>2. CASE edit.add = {} /\ manifest' = manifest
      <4>1. T = InTables(manifest.version)
        BY <1>11, <3>2 DEF TableSet
      <4> QED
        BY <1>18, <3>2, <4>1
    <3> QED
      BY <1>7, <3>1, <3>2
  <2> QED
    BY <1>1, <1>12, <1>18, <1>19, <1>20, <2>1, <2>2 DEF SeqInv
<1>22. FlushInv'
  BY <1>1, <1>2 DEF FlushInv, Busy
<1>23. DiskInv'
  BY <1>10 DEF DataInv, DiskInv
<1>24. /\ \A m \in LogsFrom(manifest.log_number) :
            m # logfile_number_ => LogSet(m) \subseteq TableSet(edit.add)
       /\ LogSet(logfile_number_) = mem_
       /\ \A m \in LogsFrom(manifest.log_number) : m <= logfile_number_
  BY <1>1 DEF DataInv, RecLogInv
<1>25. LogInv'
  <2>1. \A m \in DOMAIN logs' : m <= logfile_number_
    BY <1>10, <1>24
  <2>2. \A e \in LogSet(logfile_number_)' : e \in mem_
    <3>1. PICK n : n = logfile_number_
      OBVIOUS
    <3>2. LogSet(logfile_number_)' = LogSet(n)'
      BY <1>1, <3>1 DEF LogSet
    <3>3. LogSet(n)' = LogSet(n) /\ LogSet(n) = mem_
      BY <1>10, <1>24, <3>1
    <3> QED
      BY <3>2, <3>3
  <2>3. ASSUME NEW m \in DOMAIN logs', log_number_' <= m, m < logfile_number_, NEW e \in LogSet(m)'
        PROVE  FALSE
    <3>1. m \in Nat /\ m # logfile_number_ /\ m \in LogsFrom(manifest.log_number)
      BY <1>4, <1>10, <2>3
    <3>2. edit.add = {}
      BY <1>4, <1>7, <2>3, <3>1
    <3>3. e \in TableSet(edit.add)
      BY <1>10, <1>24, <3>1
    <3> QED
      BY <3>2, <3>3 DEF TableSet
  <2> QED
    BY <1>1, <2>1, <2>2, <2>3 DEF LogInv
<1>26. RecLogInv'
  BY <1>1 DEF RecLogInv
<1>27. AnswerInv'
  <2>1. \A e \in OnDisk : e \in T \/ e \in LogSet(logfile_number_)
    BY <1>19
  <2>2. \A e \in OnDiskSynced : e \in T \/ e \in SyncedSet(logfile_number_)
    BY <1>19
  <2>3. logfile_number_ >= manifest'.log_number
    BY <1>4, <1>9
  <2>4. OnDisk \subseteq OnDisk'
    BY <1>10, <1>12, <2>1, <2>3, RecoverableIsNext
  <2>5. OnDiskSynced \subseteq OnDiskSynced'
    BY <1>10, <1>12, <2>2, <2>3, SyncedIsNext
  <2>6. OnDisk \subseteq Served'
    BY <1>1, <1>12, <1>24, <2>1 DEF Served
  <2>7. NoNewAnswers
    BY <1>1 DEF NoNewAnswers, Answered
  <2>8. SyncHasEntries'
    BY <1>1, <1>14, SyncKept DEF DataInv
  <2>9. ASSUME NEW i \in 1..Len(calls), Answered(i)
        PROVE  /\ \E e \in OnDisk' : e.id = i
               /\ (\E e \in OnDiskSynced : e.id = i) => \E e \in OnDiskSynced' : e.id = i
               /\ \E e \in Served' : e.id = i
    <3>1. \E e \in OnDisk : e.id = i
      BY <2>9 DEF DataInv, AnswerInv
    <3> QED
      BY <2>4, <2>5, <2>6, <3>1
  <2> QED
    BY <1>14, <2>7, <2>8, <2>9, AnswersKept DEF DataInv
<1> QED
  BY <1>15, <1>16, <1>17, <1>21, <1>22, <1>23, <1>25, <1>26, <1>27 DEF DataInv

\* A new DB.
LEMMA DataInit == Init => DataInv
<1> SUFFICES ASSUME Init PROVE DataInv
  OBVIOUS
<1>1. /\ calls = << >> /\ writers_ = << >> /\ group = << >> /\ write_batch = {} /\ status = "ok"
      /\ mem_ = {} /\ imm_ = None /\ last_sequence_ = 0 /\ log_number_ = 3 /\ logfile_number_ = 3
      /\ bgpc = "idle" /\ flushing = NoFile /\ mode = "open" /\ tables = << >>
      /\ current = EmptyVersion /\ manifest.version = EmptyVersion
      /\ manifest.last_sequence = 0 /\ manifest.log_number = 3
      /\ pc = [t \in Threads |-> "idle"] /\ logs = [n \in {3} |-> EmptyLog]
  BY DEF Init
<1>2. /\ DOMAIN logs = {3} /\ logs[3].recs = << >> /\ logs[3].synced = 0
      /\ logs[3] \in [recs: Seq(SUBSET Entry), synced: Nat]
  BY <1>1 DEF EmptyLog
<1>3. /\ Imm = {} /\ DOMAIN tables = {} /\ \A n \in DOMAIN logs : LogSet(n) = {}
  BY <1>1, <1>2, ImmNone DEF LogSet
<1>4. Entries = {} /\ TableSet(DOMAIN tables) = {} /\ InTables(manifest.version) = {}
  <2>1. Entries = {}
    BY <1>1, <1>2, <1>3, EntriesIs
  <2>2. InTables(manifest.version) = {}
    BY <1>1 DEF InTables, Files, EmptyVersion
  <2> QED
    BY <1>3, <2>1, <2>2 DEF TableSet
<1>5. ContentInv
  BY <1>1, <1>4 DEF ContentInv, WholeIn, CountIn, Ordered, Bounded
<1>6. OwnInv
  BY <1>4 DEF OwnInv
<1>7. BatchInv
  BY <1>1, FS_EmptySet DEF BatchInv
<1>8. SeqInv
  BY <1>1, <1>2, <1>3, <1>4 DEF SeqInv
<1>9. FlushInv
  BY <1>1 DEF FlushInv, Busy
<1>10. DiskInv
  BY <1>2 DEF DiskInv
<1>11. LogInv
  BY <1>1, <1>2, <1>3 DEF LogInv
<1>12. RecLogInv
  BY <1>1 DEF RecLogInv
<1>13. AnswerInv
  BY <1>1 DEF AnswerInv
<1> QED
  BY <1>5, <1>6, <1>7, <1>8, <1>9, <1>10, <1>11, <1>12, <1>13 DEF DataInv

\* A new DB has no torn record.
LEMMA WholeInit == Init => WholeInv
  BY DEF Init, WholeInv, EmptyLog

\* The threads and the background thread leave no torn record.
LEMMA WholeRunning ==
    ASSUME WholeRecords, WholeInv, DataInv, WritePathInv, mode = "open",
           \/ \E t \in Threads, n \in 0..MaxCount, s \in BOOLEAN : Enqueue(t, n, s)
           \/ \E t \in Threads : Write(t) \/ HeadSwitchFails(t)
           \/ Background \/ StartClose
    PROVE  WholeInv'
<1> DEFINE Whole(l) == \A i \in 1..Len(l.recs) : l.recs[i] # {}
<1>1. manifest.torn = "no" /\ logfile_number_ \in DOMAIN logs /\ Whole(logs[logfile_number_])
  BY InUse DEF WholeInv, WritePathInv, FilesInv, FilesPart, OpenInv
<1> SUFFICES manifest'.torn = "no" /\ (logfile_number_' # NoFile => Whole(logs'[logfile_number_']))
  BY DEF WholeInv
<1>2. CASE UNCHANGED <<manifest, logs, logfile_number_>>
  BY <1>1, <1>2
<1>3. CASE \E t \in Threads : HeadSwitch(t)
  <2>1. manifest' = manifest /\ logs' = Created(logs, logfile_number_', EmptyLog)
    BY <1>3 DEF HeadSwitch
  <2>2. logs'[logfile_number_'] = EmptyLog
    BY <2>1 DEF Created
  <2> QED
    BY <1>1, <2>1, <2>2 DEF EmptyLog
<1>4. ASSUME NEW t \in Threads, AddRecord(t)
      PROVE  manifest'.torn = "no" /\ Whole(logs'[logfile_number_'])
  <2>1. /\ manifest' = manifest /\ logfile_number_' = logfile_number_
        /\ logs' = [logs EXCEPT ![logfile_number_] =
                       [logs[logfile_number_] EXCEPT !.recs = Append(@, write_batch)]]
    <3>1. ~MayFail("append")
      BY DEF MayFail, WholeRecords
    <3> QED
      BY <1>4, <3>1 DEF AddRecord, writeUnchanged, memVars
  <2>2. PICK r \in Seq(SUBSET Entry) : r = logs[logfile_number_].recs
    BY <1>1 DEF DataInv, DiskInv
  <2>3. write_batch \in SUBSET Entry /\ write_batch # {}
    <3>1. write_batch \subseteq Entries
      BY EntriesIs
    <3>2. Entries \subseteq Entry /\ ~(write_batch \subseteq mem_)
      BY <1>4 DEF DataInv, ContentInv, BatchInv, AddRecord
    <3> QED
      BY <3>1, <3>2
  <2>4. logs'[logfile_number_'].recs = Append(r, write_batch)
    <3>1. logs[logfile_number_] \in [recs: Seq(SUBSET Entry), synced: Nat]
      BY <1>1 DEF DataInv, DiskInv
    <3> QED
      BY <1>1, <2>1, <2>2, <3>1
  <2>5. \A i \in 1..Len(Append(r, write_batch)) : Append(r, write_batch)[i] # {}
    BY <1>1, <2>2, <2>3
  <2> QED
    BY <1>1, <2>1, <2>4, <2>5
<1>5. ASSUME NEW t \in Threads, SyncLog(t)
      PROVE  manifest'.torn = "no" /\ Whole(logs'[logfile_number_'])
  <2>1. /\ manifest' = manifest /\ logfile_number_' = logfile_number_
        /\ \/ logs' = [logs EXCEPT ![logfile_number_].synced = Len(logs[logfile_number_].recs)]
           \/ logs' = logs
    BY <1>5 DEF SyncLog, writeUnchanged, memVars
  <2>2. logs[logfile_number_] \in [recs: Seq(SUBSET Entry), synced: Nat]
    BY <1>1 DEF DataInv, DiskInv
  <2>3. logs'[logfile_number_'].recs = logs[logfile_number_].recs
    BY <1>1, <2>1, <2>2
  <2> QED
    BY <1>1, <2>1, <2>3
<1>6. CASE WriteManifest
  <2>1. ~MayFail("descriptor") /\ Appended(edit) = Logged(edit)
    BY <1>1 DEF MayFail, WholeRecords, Appended
  <2>2. manifest' \in {manifest, Logged(edit)} /\ UNCHANGED <<logs, logfile_number_>>
    BY <1>6, <2>1 DEF WriteManifest, FailedAppend, bgUnchanged
  <2> QED
    BY <1>1, <2>2 DEF Logged
<1>7. CASE RemoveFile
  <2>1. manifest' = manifest /\ logfile_number_' = logfile_number_
        /\ DOMAIN logs' \subseteq DOMAIN logs /\ \A n \in DOMAIN logs' : logs'[n] = logs[n]
    BY <1>7 DEF RemoveFile, memVars
  <2>2. logfile_number_ \in DOMAIN logs'
    <3>1. PICK f \in garbage : logs' = logs \/ (f[1] # "table" /\ DOMAIN logs' = DOMAIN logs \ {f[2]})
      BY <1>7 DEF RemoveFile
    <3>2. f \in {"table", "log"} \X Nat
      BY DEF WritePathInv, FilesInv, FilesPart, GarbageInv
    <3>3. f[1] # "table" => f = <<"log", f[2]>> /\ f[2] \in Nat
      BY <3>2
    <3>4. f[1] # "table" => f[2] < log_number_
      BY <3>1, <3>3 DEF WritePathInv, FilesInv, FilesPart, GarbageInv
    <3>5. log_number_ <= logfile_number_ /\ log_number_ \in Nat /\ logfile_number_ \in Nat
      BY DEF WritePathInv, FilesInv, FilesPart, OpenInv, FileTypes
    <3> QED
      BY <1>1, <3>1, <3>3, <3>4, <3>5
  <2> QED
    BY <1>1, <2>1, <2>2
<1>8. ASSUME ~UNCHANGED <<manifest, logs, logfile_number_>>
      PROVE  \/ \E t \in Threads : HeadSwitch(t) \/ AddRecord(t) \/ SyncLog(t)
             \/ WriteManifest \/ RemoveFile
  <2>1. CASE \E t \in Threads, n \in 0..MaxCount, s \in BOOLEAN : Enqueue(t, n, s)
    BY <1>8, <2>1 DEF Enqueue, diskVars, memVars
  <2>2. ASSUME NEW t \in Threads, Write(t) \/ HeadSwitchFails(t)
        PROVE  HeadSwitch(t) \/ AddRecord(t) \/ SyncLog(t)
    BY <1>8, <2>2 DEF Write, HeadSwitchFails, Wake, HeadError, HeadDelay, HeadWait, HeadProceeds,
       InsertInto, FinishWrite, FlushWait, diskVars, memVars
  <2>3. CASE Background
    BY <1>8, <2>3 DEF Background, BackgroundSkip, CompactMemTable, BuildTable, FlushEdit, FlushFails,
       Install, InstallFails, RemoveDone, BackgroundEnd, StartCompaction, OpenCompactionOutputFile,
       FinishCompaction, AbandonCompaction, bgUnchanged
  <2>4. CASE StartClose
    BY <1>8, <2>4 DEF StartClose, diskVars, memVars
  <2> QED
    BY <2>1, <2>2, <2>3, <2>4
<1> QED
  BY <1>2, <1>3, <1>4, <1>5, <1>6, <1>7, <1>8

\* Nor do a crash, which may tear the last record, and DB::Open, which starts
\* new files behind it.
LEMMA WholeOpening ==
    ASSUME WholeRecords, WholeInv, DataInv, WritePathInv,
           \/ FinishClose \/ (\E machine \in BOOLEAN : Crash(machine)) \/ Open \/ OpenFails
    PROVE  WholeInv'
<1>1. CASE FinishClose
  BY <1>1 DEF FinishClose, Down, WholeInv
<1>2. CASE \E machine \in BOOLEAN : Crash(machine)
  <2>1. mode' = "down" /\ logfile_number_' = NoFile /\ manifest' \in ManifestKept
    BY <1>2 DEF Crash, Down
  <2>2. CASE manifest' = manifest
    BY <2>1, <2>2 DEF WholeInv
  <2>3. CASE manifest' = TornManifest /\ "tear" \in Faults /\ AppendingManifest
    <3>1. manifest.torn = "no"
      <4>1. CASE bgpc = "manifest"
        BY <4>1 DEF WholeInv, WritePathInv, FilesInv, ClosedInv
      <4>2. CASE Opening /\ reuse_logs
        BY <4>2, AppendsWhole
      <4> QED
        BY <2>3, <4>1, <4>2 DEF AppendingManifest
    <3>2. manifest'.torn = "tail"
      BY <2>3, <3>1, TornFields DEF WritePathInv, FilesInv, FilesPart
    <3> QED
      BY <2>1, <2>3, <3>2 DEF WholeInv
  <2> QED
    BY <2>1, <2>2, <2>3 DEF ManifestKept
<1>3. CASE StartRecover
  BY <1>3 DEF StartRecover, diskVars, WholeInv
<1>4. CASE RecoverLogFile
  <2>1. UNCHANGED <<logs, manifest, mode>>
    BY <1>4 DEF RecoverLogFile
  <2>2. CASE logfile_number_' = logfile_number_
    BY <2>1, <2>2 DEF WholeInv
  <2>3. CASE logfile_number_' # logfile_number_
    <3>1. logfile_number_' = Min(rlogs) /\ reuse_logs /\ rlogs # {} /\ mode = "recover"
      BY <1>4, <2>3 DEF RecoverLogFile, ReuseLog
    <3>2. /\ reuse_logs \in ReuseChoices /\ rlogs \subseteq LogsFrom(manifest.log_number)
          /\ rlogs \in SUBSET Nat
      BY <3>1 DEF WritePathInv, FilesInv, FilesPart, RecoverInv, FileTypes
    <3>3. TRUE \in ReuseChoices
      BY <3>1, <3>2, WritePathConstants, Zenon
    <3>4. Min(rlogs) \in rlogs
      BY <3>1, <3>2, MinIsLeast
    <3>5. logfile_number_' \in DOMAIN logs
      BY <3>1, <3>2, <3>4 DEF LogsFrom
    <3>6. \A i \in 1..Len(logs[logfile_number_'].recs) : logs[logfile_number_'].recs[i] # {}
      BY <3>3, <3>5 DEF WholeRecords, DataInv, DiskInv
    <3> QED
      BY <2>1, <3>6 DEF WholeInv
  <2> QED
    BY <2>2, <2>3
<1>5. CASE NewLog
  <2>1. /\ UNCHANGED <<manifest, mode>> /\ logs' = Created(logs, logfile_number_', EmptyLog)
    BY <1>5 DEF NewLog, openVars
  <2>2. logs'[logfile_number_'] = EmptyLog
    BY <2>1 DEF Created
  <2> QED
    BY <2>1, <2>2 DEF WholeInv, EmptyLog
<1>6. CASE FinishOpen
  <2>1. Opening /\ FilesInv /\ logfile_number_' = logfile_number_ /\ logfile_number_ # NoFile
        /\ logs' = [k \in {n \in DOMAIN logs : n >= log_number_'} |-> logs[k]]
    BY <1>6 DEF FinishOpen, memVars, WritePathInv, Opening
  <2>2. manifest'.torn = "no"
    <3>1. CASE SavesManifest
      <4>1. manifest' = Logged(OpenEdit)
        BY <1>6, <2>1, <3>1, AppendsWhole DEF FinishOpen
      <4> QED
        BY <4>1 DEF Logged
    <3>2. CASE ~SavesManifest
      BY <1>6, <2>1, <3>2, AppendsWhole DEF FinishOpen, SavesManifest
    <3> QED
      BY <3>1, <3>2
  <2>3. logfile_number_ \in DOMAIN logs /\ logfile_number_ >= log_number_'
    <3>1. /\ logfile_number_ \in DOMAIN logs /\ log_number_ = manifest.log_number
          /\ manifest.log_number <= logfile_number_
          /\ logfile_number_ \in Nat /\ log_number_ \in Nat
      BY <2>1, OpeningFacts DEF FilesInv, FilesPart, FileTypes
    <3>2. log_number_' \in {logfile_number_, log_number_}
      BY <1>6 DEF FinishOpen
    <3> QED
      BY <3>1, <3>2
  <2>4. logs'[logfile_number_'] = logs[logfile_number_]
    BY <2>1, <2>3
  <2> QED
    BY <2>1, <2>2, <2>4 DEF WholeInv
<1>7. CASE OpenFails
  <2>1. mode' = "down" /\ logfile_number_' = NoFile
    BY <1>7 DEF OpenFails
  <2>2. manifest' = manifest \/ (Opening /\ manifest' = Logged(OpenEdit))
    <3>1. ~MayFail("descriptor")
      BY DEF MayFail, WholeRecords
    <3>2. \A m \in FailedAppend(OpenEdit) : m = manifest \/ m = Appended(OpenEdit)
      BY <3>1 DEF FailedAppend
    <3> QED
      BY <1>7, <3>2, AppendsWhole DEF OpenFails
  <2>3. manifest'.torn = manifest.torn \/ manifest'.torn = "no"
    BY <2>2 DEF Logged
  <2> QED
    BY <2>1, <2>3 DEF WholeInv
<1> QED
  BY <1>1, <1>2, <1>3, <1>4, <1>5, <1>6, <1>7 DEF Open

\* Every step keeps the records whole.
LEMMA WholeNext ==
    ASSUME WholeRecords, WholeInv, DataInv, WritePathInv, [Next]_vars
    PROVE  WholeInv'
<1>1. CASE UNCHANGED vars
  BY <1>1 DEF vars, diskVars, memVars, openVars, WholeInv
<1>2. CASE \/ FinishClose \/ (\E machine \in BOOLEAN : Crash(machine)) \/ Open \/ OpenFails
  BY <1>2, WholeOpening
<1>3. CASE ~ (\/ FinishClose \/ (\E machine \in BOOLEAN : Crash(machine)) \/ Open \/ OpenFails
              \/ UNCHANGED vars)
  <2>1. \/ \E t \in Threads, n \in 0..MaxCount, s \in BOOLEAN : Enqueue(t, n, s)
        \/ \E t \in Threads : Write(t) \/ HeadSwitchFails(t)
        \/ Background \/ StartClose
    BY <1>3 DEF Next
  <2>2. mode = "open"
    <3> SUFFICES ASSUME mode # "open" PROVE FALSE
      OBVIOUS
    <3>1. bgpc = "idle" /\ ~scheduled /\ \A t \in Threads : pc[t] = "idle"
      BY DEF WritePathInv, FilesInv, ClosedInv
    <3> QED
      BY <2>1, <3>1 DEF Enqueue, Write, HeadSwitchFails, MaySwitch, AtHead, Wake, HeadError,
         HeadDelay, HeadWait, HeadSwitch, HeadProceeds, AddRecord, SyncLog, InsertInto, FinishWrite,
         FlushWait, StartClose, Background, BackgroundSkip, CompactMemTable, BuildTable, FlushEdit,
         FlushFails, WriteManifest, Install, InstallFails, RemoveFile, RemoveDone, BackgroundEnd,
         StartCompaction, OpenCompactionOutputFile, FinishCompaction, AbandonCompaction
  <2> QED
    BY <2>1, <2>2, WholeRunning
<1> QED
  BY <1>1, <1>2, <1>3

\* Every step keeps the data, if nothing is appended behind a torn record.
LEMMA DataNext ==
    ASSUME WholeRecords, WholeInv, DataInv, WritePathInv, WritePathInv', [Next]_vars
    PROVE  DataInv'
<1>1. ASSUME NEW t \in Threads, NEW k \in 0..MaxCount, NEW s \in BOOLEAN, Enqueue(t, k, s)
      PROVE  DataInv'
  BY <1>1, EnqueueData
<1>2. ASSUME NEW t \in Threads, Write(t) \/ HeadSwitchFails(t) PROVE DataInv'
  <2>1. CASE Wake(t) \/ HeadDelay(t) \/ HeadWait(t) \/ FlushWait(t)
    BY <2>1, WaitingData
  <2>2. CASE HeadError(t) \/ HeadSwitchFails(t) \/ (HeadProceeds(t) /\ Batch(t).count = 0)
    BY <2>2, AnsweringData
  <2>3. CASE HeadSwitch(t)
    BY <2>3, HeadSwitchData
  <2>4. CASE HeadProceeds(t) /\ Batch(t).count # 0
    BY <2>4, HeadProceedsData
  <2>5. CASE AddRecord(t)
    BY <2>5, AddRecordData
  <2>6. CASE SyncLog(t)
    BY <2>6, SyncLogData
  <2>7. CASE InsertInto(t)
    BY <2>7, InsertIntoData
  <2>8. CASE FinishWrite(t)
    BY <2>8, FinishWriteData
  <2> QED
    BY <1>2, <2>1, <2>2, <2>3, <2>4, <2>5, <2>6, <2>7, <2>8 DEF Write
<1>3. CASE Background
  <2>1. CASE BuildTable /\ bgpc' # "buildfailed"
    BY <2>1, BuildTableData
  <2>2. CASE WriteManifest /\ manifest' # manifest
    BY <2>2, WriteManifestData
  <2>3. CASE Install
    BY <2>3, InstallData
  <2>4. CASE RemoveFile
    BY <2>4, RemoveFileData
  <2>5. CASE OpenCompactionOutputFile
    BY <2>5, OpenCompactionOutputFileData
  <2>6. CASE FinishCompaction /\ bgpc' # "end"
    BY <2>6, FinishCompactionData
  <2> QED
    BY <1>3, <2>1, <2>2, <2>3, <2>4, <2>5, <2>6, BackgroundQuiet DEF Background
<1>4. CASE StartClose \/ UNCHANGED vars
  BY <1>4, BackgroundQuiet
<1>5. CASE FinishClose
  BY <1>5, FinishCloseData
<1>6. ASSUME NEW machine \in BOOLEAN, Crash(machine) PROVE DataInv'
  BY <1>6, CrashData
<1>7. CASE Open
  <2>1. CASE StartRecover
    BY <2>1, StartRecoverData
  <2>2. CASE RecoverLogFile
    BY <2>2, RecoverLogFileData
  <2>3. CASE NewLog
    BY <2>3, NewLogData
  <2>4. CASE FinishOpen
    BY <2>4, FinishOpenData
  <2> QED
    BY <1>7, <2>1, <2>2, <2>3, <2>4 DEF Open
<1>8. CASE OpenFails
  BY <1>8, OpenFailsData
<1> QED
  BY <1>1, <1>2, <1>3, <1>4, <1>5, <1>6, <1>7, <1>8 DEF Next

\* So the invariant always holds.
LEMMA DataInvariant ==
    ASSUME WholeRecords
    PROVE  Spec => [](DataInv /\ WholeInv)
<1>1. DataInv /\ WholeInv /\ WritePathInv /\ WritePathInv' /\ [Next]_vars => DataInv' /\ WholeInv'
  BY DataNext, WholeNext
<1> QED
  BY <1>1, DataInit, WholeInit, WritePathInvariant, PTL DEF Spec

\* Of whole batches, each is all there.
LEMMA WholeCall ==
    ASSUME ContentInv, NEW A, A \subseteq Entries, WholeIn(A, Entries),
           NEW e \in A
    PROVE  /\ e.id \in 1..Len(calls)
           /\ Cardinality({x \in A : x.id = e.id}) = calls[e.id].count
<1>1. {x \in A : x.id = e.id} = {x \in Entries : x.id = e.id}
  BY DEF WholeIn
<1> QED
  BY <1>1 DEF ContentInv, CountIn

LEMMA WholeHolds ==
    ASSUME ContentInv, NEW A, A \subseteq Entries, WholeIn(A, Entries),
           NEW e \in A, calls[e.id].count # 0
    PROVE  Holds(A, e.id)
  BY WholeCall DEF Holds

\* What recovery finds is made of whole batches.
LEMMA DiskWhole ==
    ASSUME WholeRecords, DataInv, WritePathInv
    PROVE  /\ OnDisk \subseteq Entries /\ WholeIn(OnDisk, Entries)
           /\ OnDiskSynced \subseteq Entries /\ WholeIn(OnDiskSynced, Entries)
<1>1. /\ Files(manifest.version) \subseteq DOMAIN tables
      /\ \A U \in Units : U \subseteq Entries /\ WholeIn(U, Entries)
  BY ManifestTables DEF DataInv, ContentInv, Entries
<1>2. InTables(manifest.version) \subseteq Entries /\ WholeIn(InTables(manifest.version), Entries)
  <2>1. \A n \in Files(manifest.version) : tables[n] \in Units
    BY <1>1, UnitsIs
  <2> QED
    BY <1>1, <2>1 DEF InTables, WholeIn
<1>3. ASSUME NEW n \in DOMAIN logs
      PROVE  /\ LogSet(n) \subseteq Entries /\ WholeIn(LogSet(n), Entries)
             /\ SyncedSet(n) \subseteq Entries /\ WholeIn(SyncedSet(n), Entries)
  <2>1. \A i \in 1..Len(logs[n].recs) : logs[n].recs[i] \in Units
    BY UnitsIs
  <2>2. logs[n] \in [recs: Seq(SUBSET Entry), synced: Nat] /\ logs[n].synced <= Len(logs[n].recs)
    BY DEF DataInv, DiskInv
  <2>3. 1..logs[n].synced \subseteq 1..Len(logs[n].recs)
    BY <2>2
  <2>4. LogSet(n) \subseteq Entries /\ WholeIn(LogSet(n), Entries)
    BY <1>1, <2>1 DEF LogSet, WholeIn
  <2>5. SyncedSet(n) \subseteq Entries /\ WholeIn(SyncedSet(n), Entries)
    BY <1>1, <2>1, <2>3 DEF SyncedSet, WholeIn
  <2> QED
    BY <2>4, <2>5
<1>4. OnDisk \subseteq Entries /\ WholeIn(OnDisk, Entries)
  BY <1>2, <1>3, RecoverableIs DEF WholeIn
<1>5. OnDiskSynced \subseteq Entries /\ WholeIn(OnDiskSynced, Entries)
  BY <1>2, <1>3, SyncedIs DEF WholeIn
<1> QED
  BY <1>4, <1>5

\* What a snapshot shows.
LEMMA ReadableIs == Readable = {e \in Served : e.seq <= last_sequence_}
<1>1. Served = mem_ \cup (UNION {imm_[i] : i \in DOMAIN imm_}) \cup InTables(current)
  <2>1. Imm = UNION {imm_[i] : i \in DOMAIN imm_}
    BY DEF Imm
  <2> QED
    BY <2>1 DEF Served
<1> QED
  BY <1>1, Zenon DEF Readable

\* A snapshot is made of whole batches: the one being inserted is above
\* last_sequence_, all others are below.
LEMMA ReadableWhole ==
    ASSUME DataInv, WritePathInv, mode = "open"
    PROVE  /\ Readable \subseteq Entries /\ WholeIn(Readable, Entries)
           /\ \A e \in Served : e \notin write_batch => e \in Readable
<1>1. /\ Files(current) \subseteq DOMAIN tables
      /\ \A U \in Units : U \subseteq Entries /\ WholeIn(U, Entries)
  BY DEF WritePathInv, FilesInv, FilesPart, OpenInv, DataInv, ContentInv, Entries
<1>2. Served \cup write_batch \subseteq Entries /\ WholeIn(Served \cup write_batch, Entries)
  <2>1. /\ \A n \in Files(current) : tables[n] \in Units
        /\ Imm \in Units /\ mem_ \cup write_batch \in Units
    BY <1>1, UnitsIs
  <2>2. InTables(current) \subseteq Entries /\ WholeIn(InTables(current), Entries)
    BY <1>1, <2>1 DEF InTables, WholeIn
  <2>3. Served \cup write_batch = (mem_ \cup write_batch) \cup Imm \cup InTables(current)
    BY DEF Served
  <2> QED
    BY <1>1, <2>1, <2>2, <2>3, WholeCup
<1>3. write_batch \subseteq Entries /\ WholeIn(write_batch, Entries)
  BY <1>1, UnitsIs
<1>4. /\ \A e \in Entries : e.seq \in Nat
      /\ last_sequence_ \in Nat
      /\ \A e \in Entries : e \in write_batch \/ e.seq <= last_sequence_
      /\ \A e \in write_batch : last_sequence_ < e.seq
  BY DEF DataInv, ContentInv, Entry, SeqInv, BatchInv
<1>5. \A e : e \in Readable <=> e \in Served /\ e.seq <= last_sequence_
  BY ReadableIs
<1>6. \A e : e \in Readable <=> e \in Served /\ e \notin write_batch
  BY <1>2, <1>3, <1>4, <1>5
<1>7. WholeIn(Readable, Entries)
  BY <1>2, <1>3, <1>6 DEF WholeIn
<1> QED
  BY <1>2, <1>6, <1>7

\* Recovery reads what is on the disk: nothing but a last record is torn.
LEMMA ReadFromDisk ==
    ASSUME DataInv, WholeInv
    PROVE  Recoverable = OnDisk /\ Synced = OnDiskSynced
<1>1. ASSUME NEW n \in DOMAIN logs
      PROVE  /\ BeforeTorn(logs[n].recs) = LogSet(n)
             /\ BeforeTorn(SubSeq(logs[n].recs, 1, logs[n].synced)) = SyncedSet(n)
  <2>1. PICK r \in Seq(SUBSET Entry) : r = logs[n].recs
    BY DEF DataInv, DiskInv
  <2>2. PICK m \in Nat : m = logs[n].synced
    BY DEF DataInv, DiskInv
  <2>3. Len(r) \in Nat /\ m <= Len(r) /\ DOMAIN r = 1..Len(r)
    BY <2>1, <2>2 DEF DataInv, DiskInv
  <2>4. \A i \in 1..Len(r) : r[i] = {} => i = Len(r)
    BY <2>1 DEF DataInv, DiskInv
  <2>5. \A i \in 1..Len(r) : r[i] = {} => m < i
    BY <2>1, <2>2 DEF DataInv, DiskInv
  <2>6. BeforeTorn(r) = LogSet(n)
    <3>1. \A e : e \in BeforeTorn(r) <=> \E i \in 1..Len(r) : (\A j \in 1..i : r[j] # {}) /\ e \in r[i]
      BY <2>3 DEF BeforeTorn
    <3>2. \A e : e \in LogSet(n) <=> \E i \in 1..Len(r) : e \in r[i]
      BY <2>1 DEF LogSet
    <3>3. ASSUME NEW i \in 1..Len(r), NEW e \in r[i] PROVE \A j \in 1..i : r[j] # {}
      <4> SUFFICES ASSUME NEW j \in 1..i, r[j] = {} PROVE FALSE
        OBVIOUS
      <4>1. PICK l \in Nat : l = Len(r)
        BY <2>3
      <4>2. j \in 1..l /\ i \in 1..l /\ j <= i
        BY <4>1
      <4>3. j = l
        BY <2>4, <4>1, <4>2
      <4>4. j = i
        BY <4>2, <4>3
      <4> QED
        BY <4>4
    <3> QED
      BY <3>1, <3>2, <3>3
  <2>7. BeforeTorn(SubSeq(r, 1, m)) = SyncedSet(n)
    <3>1. PICK q : q = SubSeq(r, 1, m)
      OBVIOUS
    <3>2. DOMAIN q = 1..m /\ \A i \in 1..m : q[i] = r[i]
      <4>1. 1 \in 1..Len(r) + 1 /\ m \in 0..Len(r) /\ m - 1 + 1 = m
        BY <2>3
      <4>2. /\ SubSeq(r, 1, m) \in Seq(SUBSET Entry) /\ Len(SubSeq(r, 1, m)) = m
            /\ \A i \in 1..m : SubSeq(r, 1, m)[i] = r[i]
        BY <4>1, SubSeqProperties
      <4> QED
        BY <3>1, <4>2
    <3>3. \A i \in 1..m : q[i] # {}
      <4>1. \A i \in 1..m : i \in 1..Len(r) /\ ~(m < i)
        BY <2>3
      <4> QED
        BY <2>5, <3>2, <4>1
    <3>4. \A e : e \in BeforeTorn(q) <=> \E i \in 1..m : (\A j \in 1..i : q[j] # {}) /\ e \in q[i]
      BY <3>2 DEF BeforeTorn
    <3>5. \A e : e \in SyncedSet(n) <=> \E i \in 1..m : e \in r[i]
      BY <2>1, <2>2 DEF SyncedSet
    <3>6. \A i \in 1..m : \A j \in 1..i : j \in 1..m
      OBVIOUS
    <3>7. \A i \in 1..m : \A j \in 1..i : q[j] # {}
      BY <3>3, <3>6
    <3>8. \A e : e \in BeforeTorn(q) <=> e \in SyncedSet(n)
      BY <3>2, <3>4, <3>5, <3>7
    <3> QED
      BY <3>1, <3>8
  <2> QED
    BY <2>1, <2>2, <2>6, <2>7
<1>2. manifest.torn # "inside"
  BY DEF WholeInv
<1>3. /\ Recoverable = InTables(manifest.version) \cup
            UNION {BeforeTorn(logs[n].recs) : n \in {x \in DOMAIN logs : x >= manifest.log_number}}
      /\ Synced = InTables(manifest.version) \cup
            UNION {BeforeTorn(SubSeq(logs[n].recs, 1, logs[n].synced)) :
                     n \in {x \in DOMAIN logs : x >= manifest.log_number}}
  BY <1>2 DEF Recoverable, Synced, FromDisk, InLogs
<1>4. \A e : e \in Recoverable <=> e \in OnDisk
  BY <1>1, <1>3, RecoverableIs
<1>5. \A e : e \in Synced <=> e \in OnDiskSynced
  BY <1>1, <1>3, SyncedIs
<1> QED
  BY <1>4, <1>5

\* The invariant gives the four properties.
LEMMA SyncedFromInv ==
    ASSUME WholeRecords, DataInv, WholeInv, WritePathInv PROVE SyncedWritesSurvive
<1> SUFFICES ASSUME NEW i \in DOMAIN calls, calls[i].res = "ok", calls[i].sync
             PROVE  i \in Durable
  BY DEF SyncedWritesSurvive
<1>1. i \in 1..Len(calls)
  BY DEF WritePathInv, ThreadInv, ThreadTypes
<1>2. calls[i].count # 0 /\ \E e \in OnDiskSynced : e.id = i
  BY <1>1 DEF DataInv, AnswerInv, Answered
<1>3. PICK e \in OnDiskSynced : e.id = i
  BY <1>2
<1>4. PICK A : A = OnDiskSynced
  OBVIOUS
<1>5. Holds(A, e.id)
  BY <1>2, <1>3, <1>4, DiskWhole, WholeHolds DEF DataInv
<1> QED
  BY <1>3, <1>4, <1>5, ReadFromDisk DEF Durable

LEMMA AnsweredFromInv ==
    ASSUME WholeRecords, DataInv, WholeInv, WritePathInv PROVE AnsweredWritesRemain
<1> SUFFICES ASSUME NEW i \in DOMAIN calls, calls[i].res = "ok", calls[i].count # 0
             PROVE  Holds(OnDisk, i) /\ i \in Stored
  BY ReadFromDisk DEF AnsweredWritesRemain
<1>1. i \in 1..Len(calls) /\ Answered(i)
  BY DEF WritePathInv, ThreadInv, ThreadTypes, Answered
<1>2. Holds(OnDisk, i)
  <2>1. PICK e \in OnDisk : e.id = i
    BY <1>1 DEF DataInv, AnswerInv
  <2>2. PICK A : A = OnDisk
    OBVIOUS
  <2>3. Holds(A, e.id)
    BY <2>1, <2>2, DiskWhole, WholeHolds DEF DataInv
  <2> QED
    BY <2>1, <2>2, <2>3
<1>3. CASE mode = "open"
  <2>1. PICK e \in Served : e.id = i
    BY <1>1, <1>3 DEF DataInv, AnswerInv
  <2>2. e \in Readable
    BY <1>1, <1>3, <2>1, ReadableWhole, GroupPending DEF DataInv, WritePathInv
  <2>3. PICK A : A = Readable
    OBVIOUS
  <2>4. Holds(A, e.id)
    BY <1>3, <2>1, <2>2, <2>3, ReadableWhole, WholeHolds DEF DataInv
  <2> QED
    BY <1>2, <1>3, <2>1, <2>3, <2>4 DEF Stored
<1>4. CASE mode # "open"
  BY <1>2, <1>4, ReadFromDisk DEF Stored
<1> QED
  BY <1>3, <1>4, <1>2

LEMMA SequenceFromInv ==
    ASSUME WholeRecords, DataInv, WholeInv, WritePathInv PROVE SequenceFollowsQueue
<1>1. InTables(current) \subseteq Entries
  <2>1. Files(current) \subseteq DOMAIN tables
    BY ManifestTables DEF WritePathInv, FilesInv, FilesPart, OpenInv, RecoverInv, DownInv, FileTypes,
       EmptyVersion, Files
  <2> QED
    BY <2>1, EntriesIs DEF InTables
<1>2. Readable \subseteq Entries /\ mem_ \subseteq Entries
  BY <1>1, EntriesIs, ReadableIs DEF Served
<1>3. OnDisk \cup Readable \cup mem_ \subseteq Entries
  BY <1>2, DiskWhole
<1> QED
  BY <1>3, ReadFromDisk DEF DataInv, ContentInv, Ordered, SequenceFollowsQueue

LEMMA NoHalfFromInv ==
    ASSUME DataInv, WritePathInv PROVE NoHalfBatch
<1> SUFFICES ASSUME mode = "open", NEW e \in Readable PROVE Holds(Readable, e.id)
  BY DEF NoHalfBatch
<1>1. PICK A : A = Readable
  OBVIOUS
<1>2. /\ e.id \in 1..Len(calls) /\ Cardinality({x \in A : x.id = e.id}) = calls[e.id].count
  BY <1>1, ReadableWhole, WholeCall DEF DataInv
<1>3. calls[e.id].count # 0
  BY ReadableWhole DEF DataInv, ContentInv, CountIn
<1> QED
  BY <1>1, <1>2, <1>3 DEF Holds

\* options.h, WriteOptions::sync: for any number of threads, calls, crashes and
\* failures of Sync, table building, manifest and log creation, a sync write
\* answered with success survives a crash of the machine at any moment, during a
\* flush, a compaction or a recovery too, and whatever part of a record each
\* crash leaves.  Nothing is appended behind such a part: neither AddRecord stops
\* part-way, nor does reuse_logs go on with a file a crash may have torn.
THEOREM SyncedWritesAreDurable ==
    ASSUME WholeRecords
    PROVE  Spec => []SyncedWritesSurvive
<1>1. DataInv /\ WholeInv /\ WritePathInv => SyncedWritesSurvive
  BY SyncedFromInv
<1> QED
  BY <1>1, DataInvariant, WritePathInvariant, PTL

\* options.h: if it is just the process that crashes, no answered write is lost,
\* and an open DB serves it (Write, MakeRoomForWrite, CompactMemTable, Recover),
\* under the same hypothesis.
THEOREM AnsweredWritesStay ==
    ASSUME WholeRecords
    PROVE  Spec => []AnsweredWritesRemain
<1>1. DataInv /\ WholeInv /\ WritePathInv => AnsweredWritesRemain
  BY AnsweredFromInv
<1> QED
  BY <1>1, DataInvariant, WritePathInvariant, PTL

\* Sequence numbers follow the order of the queue over groups, failures,
\* crashes and recoveries (SetSequence, SetLastSequence, Recover).
THEOREM SequencesFollowTheQueue ==
    ASSUME WholeRecords
    PROVE  Spec => []SequenceFollowsQueue
<1>1. DataInv /\ WholeInv /\ WritePathInv => SequenceFollowsQueue
  BY SequenceFromInv
<1> QED
  BY <1>1, DataInvariant, WritePathInvariant, PTL

\* A snapshot never shows part of a batch, whatever is being inserted
\* (InsertInto without the mutex, SetLastSequence after it).
THEOREM BatchesAreAtomic ==
    ASSUME WholeRecords
    PROVE  Spec => []NoHalfBatch
<1>1. DataInv /\ WritePathInv => NoHalfBatch
  BY NoHalfFromInv
<1> QED
  BY <1>1, DataInvariant, WritePathInvariant, PTL

=============================================================================
