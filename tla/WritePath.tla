----------------------------- MODULE WritePath -----------------------------
(***************************************************************************)
(* The write path of leveldb, the storage engine under the app's database  *)
(* plugin (ios/pods/leveldb-library/db/db_impl.cc): the queue of writers   *)
(* and their group commit, the write-ahead log, the switch to a new        *)
(* memtable and log, the background thread that turns the old memtable     *)
(* into a table and compacts level 0, the removal of obsolete files, the   *)
(* crash of the process or of the machine, and the recovery that follows.  *)
(*                                                                         *)
(* mutex_ is not a variable: an action is what one thread does between     *)
(* taking the mutex and giving it up, or one step it takes without it.     *)
(* Keys and values are left out: an entry is a sequence number and the     *)
(* Write() call it came from.  Sizes are counted in entries.               *)
(***************************************************************************)
EXTENDS Naturals, Sequences, FiniteSets, FiniteSetsExt

CONSTANTS
    Threads,                    \* threads that call Write()
    MaxCalls,                   \* bound: calls of Write() in a behaviour
    MaxCount,                   \* bound: entries of one batch
    MaxGroup,                   \* max_size of BuildBatchGroup, in entries
    write_buffer_size,          \* options_.write_buffer_size, in entries
    kL0_CompactionTrigger,
    kL0_SlowdownWritesTrigger,
    kL0_StopWritesTrigger,
    ReuseChoices,               \* values of options_.reuse_logs to open with
    Faults,                     \* the operations that may fail
    MaxFaults,                  \* bound: failed operations in a behaviour
    MaxCrashes                  \* bound: crashes and closes in a behaviour

\* What may go wrong: log_->AddRecord and descriptor_log_->AddRecord stop
\* part-way ("append", "descriptor"), an operation fails, and a crash leaves
\* part of the record being written ("tear").
AllFaults == {"append", "sync", "build", "manifest", "descriptor", "newlog", "tear"}

\* No log and no manifest is ever appended to behind part of a record: appends
\* are whole or fail whole, and reuse_logs is off where a crash may tear one.
WholeRecords ==
    /\ "append" \notin Faults /\ "descriptor" \notin Faults
    /\ "tear" \notin Faults \/ TRUE \notin ReuseChoices

\* The same of the manifest between openings only.
NewManifests == {"tear", "descriptor"} \cap Faults = {} \/ TRUE \notin ReuseChoices

ASSUME WritePathConstants ==
    /\ Threads # {}
    /\ MaxCalls \in Nat /\ MaxCount \in Nat /\ MaxGroup \in Nat
    /\ write_buffer_size \in Nat
    /\ kL0_CompactionTrigger \in Nat \ {0}
    /\ kL0_SlowdownWritesTrigger \in Nat
    /\ kL0_StopWritesTrigger \in Nat
    /\ kL0_CompactionTrigger <= kL0_StopWritesTrigger
    /\ ReuseChoices # {} /\ ReuseChoices \subseteq BOOLEAN
    /\ Faults \subseteq AllFaults
    /\ MaxFaults \in Nat /\ MaxCrashes \in Nat

VARIABLES
    calls,          \* every call so far: its entries, sync flag and answer
    pc, call,       \* per thread: where it is, and the call it makes
    writers_, done, cv,         \* the queue; Writer::done; signalled writers
    force, allow_delay,         \* MakeRoomForWrite of the front writer
    group, write_batch, status, \* the front writer's group, record, status
    mem_, imm_,                 \* memtables; imm_ is << >> or <<memtable>>
    logfile_number_, next_file_number_, last_sequence_, log_number_,
    current,                    \* the Version: tables of level 0 and below
    pending_outputs_, bg_error_, shutting_down_,
    scheduled,                  \* background_compaction_scheduled_
    bgpc, flushing, compacting, \* the background thread
    edit, garbage,              \* its VersionEdit; its files to delete
    mode, rlogs,                \* the state of the DB; logs left to recover
    reuse_logs,                 \* options_.reuse_logs of this opening
    logs, tables, manifest,     \* the disk
    faults, crashes             \* what has gone wrong so far

callVars == <<calls, pc, call>>
queueVars == <<writers_, done, cv>>
headVars == <<force, allow_delay, group, write_batch, status>>
memVars == <<mem_, imm_, logfile_number_, last_sequence_>>
versionVars == <<log_number_, current>>
bgVars == <<scheduled, bgpc, flushing, compacting, edit, garbage>>
flagVars == <<bg_error_, shutting_down_>>
openVars == <<mode, rlogs, reuse_logs>>
diskVars == <<logs, tables, manifest>>
boundVars == <<faults, crashes>>
vars == <<callVars, queueVars, headVars, memVars, versionVars, bgVars,
          flagVars, openVars, diskVars, boundVars, next_file_number_,
          pending_outputs_>>

NoFile == 0
None == << >>
EmptyVersion == [l0 |-> {}, base |-> {}]
NoEdit == [log_number |-> NoFile, add |-> {}, del |-> {}, level0 |-> TRUE]

Files(v) == v.l0 \cup v.base

\* NewWritableFile truncates: the file with this number is there, and new.
Created(fs, n, content) ==
    [k \in DOMAIN fs \cup {n} |-> IF k = n THEN content ELSE fs[k]]
EmptyLog == [recs |-> << >>, synced |-> 0]

\* Builder::Apply and SaveTo: the version an edit leads to.
Apply(v, e) ==
    [l0   |-> (v.l0 \ e.del) \cup IF e.level0 THEN e.add ELSE {},
     base |-> (v.base \ e.del) \cup IF e.level0 THEN {} ELSE e.add]

\* The manifest after a record: LogAndApply fills in the numbers.
Logged(e) ==
    [version |-> Apply(manifest.version, e), log_number |-> e.log_number,
     next_file |-> next_file_number_, last_sequence |-> last_sequence_,
     torn |-> "no"]

\* Part of a record at the end of the manifest, which keeps its meaning; or a
\* record behind such a part, from which on it cannot be relied on.
TornManifest == [manifest EXCEPT !.torn = IF @ = "no" THEN "tail" ELSE "inside"]
Appended(e) == IF manifest.torn = "no" THEN Logged(e) ELSE TornManifest

InTables(v) == UNION {tables[n] : n \in Files(v)}

\* The records recovery is sure to read of a log: those before a torn one.
BeforeTorn(recs) ==
    UNION {recs[i] : i \in {k \in DOMAIN recs : \A j \in 1..k : recs[j] # {}}}
InLogs(recs(_)) ==
    UNION {BeforeTorn(recs(n)) : n \in {k \in DOMAIN logs : k >= manifest.log_number}}

\* What recovery is sure to read: nothing once the manifest itself may be
\* refused (the reporter of VersionSet::Recover).
FromDisk(m, recs(_)) ==
    IF m.torn = "inside" THEN {} ELSE InTables(m.version) \cup InLogs(recs)

-----------------------------------------------------------------------------
(* DB::Open on a new directory: NewDB, Recover and the first log.          *)

Init ==
    /\ calls = << >>
    /\ pc = [t \in Threads |-> "idle"] /\ call = [t \in Threads |-> 0]
    /\ writers_ = << >> /\ done = {} /\ cv = {}
    /\ force = FALSE /\ allow_delay = FALSE
    /\ group = << >> /\ write_batch = {} /\ status = "ok"
    /\ mem_ = {} /\ imm_ = None
    /\ logfile_number_ = 3 /\ next_file_number_ = 4 /\ last_sequence_ = 0
    /\ log_number_ = 3 /\ current = EmptyVersion
    /\ pending_outputs_ = {} /\ bg_error_ = FALSE /\ shutting_down_ = FALSE
    /\ scheduled = FALSE /\ bgpc = "idle"
    /\ flushing = NoFile /\ compacting = None
    /\ edit = NoEdit /\ garbage = {}
    /\ mode = "open" /\ rlogs = {} /\ reuse_logs = FALSE
    /\ logs = [n \in {3} |-> EmptyLog]
    /\ tables = << >>
    /\ manifest = [version |-> EmptyVersion, log_number |-> 3,
                   next_file |-> 4, last_sequence |-> 0, torn |-> "no"]
    /\ faults = 0 /\ crashes = 0

\* VersionSet::NewFileNumber: the counter afterwards.
NumberNotTaken(n) == n
NumberTaken(n) == n + 1

MayFail(op) == op \in Faults /\ faults < MaxFaults
Fails == faults' = faults + 1 /\ UNCHANGED crashes

-----------------------------------------------------------------------------
(* Signals and scheduling, as parts of the actions below.                  *)

\* background_work_finished_signal_.SignalAll()
Woken(p) == [t \in Threads |-> CASE p[t] = "bgwait" -> "head"
                                 [] p[t] = "flushbg" -> "flushwait"
                                 [] OTHER -> p[t]]

\* MaybeScheduleCompaction, in the state the action leaves behind.
NeedsWork ==
    /\ ~shutting_down_' /\ ~bg_error_'
    /\ imm_' # None \/ Cardinality(current'.l0) >= kL0_CompactionTrigger

MaybeScheduleCompaction == scheduled' = (scheduled \/ NeedsWork)

\* RecordBackgroundError, and the threads it wakes the first time.
RecordBackgroundError(p) ==
    /\ bg_error_' = TRUE
    /\ pc' = IF bg_error_ THEN p ELSE Woken(p)

\* CompactMemTable fails.  Within a compaction the waiting threads are woken
\* after it in any case.
FlushError ==
    /\ bg_error_' = TRUE
    /\ pc' = IF bg_error_ /\ compacting = None THEN pc ELSE Woken(pc)

-----------------------------------------------------------------------------
(* DBImpl::Write: the queue.                                               *)

\* What the front writer starts MakeRoomForWrite with.
BecomeHead(t, c) == force' = (c.count = 0) /\ allow_delay' = (c.count # 0)

\* push_back; the front writer goes on, the others wait on their cv.  A
\* batch with no entries stands for the null batch of TEST_CompactMemTable.
Enqueue(t, n, s) ==
    LET c == [count |-> n, sync |-> s, res |-> "pending"] IN
    /\ mode = "open" /\ ~shutting_down_ /\ pc[t] = "idle"
    /\ n = 0 => ~s
    /\ Len(calls) < MaxCalls
    /\ calls' = Append(calls, c)
    /\ call' = [call EXCEPT ![t] = Len(calls) + 1]
    /\ writers_' = Append(writers_, t)
    /\ IF writers_ = << >>
       THEN pc' = [pc EXCEPT ![t] = "head"] /\ BecomeHead(t, c)
       ELSE pc' = [pc EXCEPT ![t] = "cvwait"] /\ UNCHANGED <<force, allow_delay>>
    /\ UNCHANGED <<done, cv, group, write_batch, status, memVars, versionVars,
                   bgVars, flagVars, openVars, diskVars, boundVars,
                   next_file_number_, pending_outputs_>>

\* Where a thread goes when its Write() returns: TEST_CompactMemTable goes
\* on to wait for the compaction, everyone else is done.
Returned(t, ok) ==
    IF calls[call[t]].count = 0 /\ ok THEN "flushwait" ELSE "idle"

\* A writer's cv was signalled.
Wake(t) ==
    /\ pc[t] = "cvwait" /\ t \in cv
    /\ cv' = cv \ {t}
    /\ IF t \in done
       THEN /\ done' = done \ {t}
            /\ pc' = [pc EXCEPT ![t] = Returned(t, calls[call[t]].res = "ok")]
            /\ UNCHANGED <<force, allow_delay>>
       ELSE /\ IF Head(writers_) = t
               THEN pc' = [pc EXCEPT ![t] = "head"] /\ BecomeHead(t, calls[call[t]])
               ELSE UNCHANGED <<pc, force, allow_delay>>
            /\ UNCHANGED done
    /\ UNCHANGED <<calls, call, writers_, group, write_batch, status, memVars,
                   versionVars, bgVars, flagVars, openVars, diskVars,
                   boundVars, next_file_number_, pending_outputs_>>

\* The writer to signal once the group has left the queue.
NewHeadNotNotified(rest) == {}
NewHead(rest) == IF rest = << >> THEN {} ELSE {Head(rest)}

\* The loop at the end of Write(): answer the group, signal its members and
\* the new head of the queue.
AnswerGroup(t, g, res) ==
    LET rest == SubSeq(writers_, Len(g) + 1, Len(writers_))
        members == {g[i] : i \in DOMAIN g} IN
    /\ writers_' = rest
    /\ done' = done \cup (members \ {t})
    /\ cv' = cv \cup (members \ {t}) \cup NewHead(rest)
    /\ calls' = [i \in DOMAIN calls |->
                    IF i \in {call[m] : m \in members}
                    THEN [calls[i] EXCEPT !.res = res] ELSE calls[i]]

-----------------------------------------------------------------------------
(* MakeRoomForWrite: one action per branch of its loop, tried in order.    *)

AtHead(t) == mode = "open" /\ pc[t] = "head"
L0Files == Cardinality(current.l0)
Delayed == allow_delay /\ L0Files >= kL0_SlowdownWritesTrigger
HasRoom == ~force /\ Cardinality(mem_) <= write_buffer_size

\* Yield the background error.
HeadError(t) ==
    /\ AtHead(t) /\ bg_error_
    /\ AnswerGroup(t, <<t>>, "error")
    /\ pc' = [pc EXCEPT ![t] = "idle"]
    /\ UNCHANGED <<call, headVars, memVars, versionVars, bgVars, flagVars,
                   openVars, diskVars, boundVars, next_file_number_,
                   pending_outputs_>>

\* Sleep a millisecond without the mutex, once.
HeadDelay(t) ==
    /\ AtHead(t) /\ ~bg_error_ /\ Delayed
    /\ allow_delay' = FALSE
    /\ UNCHANGED <<callVars, queueVars, force, group, write_batch, status,
                   memVars, versionVars, bgVars, flagVars, openVars, diskVars,
                   boundVars, next_file_number_, pending_outputs_>>

\* Wait for imm_ to be compacted, or for fewer files at level 0.
HeadWait(t) ==
    /\ AtHead(t) /\ ~bg_error_ /\ ~Delayed /\ ~HasRoom
    /\ imm_ # None \/ L0Files >= kL0_StopWritesTrigger
    /\ pc' = [pc EXCEPT ![t] = "bgwait"]
    /\ UNCHANGED <<calls, call, queueVars, headVars, memVars, versionVars,
                   bgVars, flagVars, openVars, diskVars, boundVars,
                   next_file_number_, pending_outputs_>>

MaySwitch(t) ==
    /\ AtHead(t) /\ ~bg_error_ /\ ~Delayed /\ ~HasRoom
    /\ imm_ = None /\ L0Files < kL0_StopWritesTrigger

\* Switch to a new log and a new memtable; the old log is closed, not synced.
HeadSwitch(t) ==
    /\ MaySwitch(t)
    /\ logs' = Created(logs, next_file_number_, EmptyLog)
    /\ logfile_number_' = next_file_number_
    /\ next_file_number_' = NumberTaken(next_file_number_)
    /\ imm_' = <<mem_>> /\ mem_' = {}
    /\ force' = FALSE
    /\ UNCHANGED <<callVars, queueVars, allow_delay, group, write_batch, status,
                   last_sequence_, versionVars, bgpc, flushing, compacting,
                   edit, garbage, flagVars, openVars, tables, manifest,
                   boundVars, pending_outputs_>>
    /\ MaybeScheduleCompaction

\* NewWritableFile fails: ReuseFileNumber, and the write fails.
HeadSwitchFails(t) ==
    /\ MaySwitch(t) /\ MayFail("newlog") /\ Fails
    /\ AnswerGroup(t, <<t>>, "error")
    /\ pc' = [pc EXCEPT ![t] = "idle"]
    /\ UNCHANGED <<call, headVars, memVars, versionVars, bgVars, flagVars,
                   openVars, diskVars, next_file_number_, pending_outputs_>>

-----------------------------------------------------------------------------
(* BuildBatchGroup, the log, the memtable and the end of Write().          *)

Batch(t) == calls[call[t]]

\* Entries of the first n writers of the queue.
SizeTo(n) ==
    Cardinality(UNION {{i} \X (1..Batch(writers_[i]).count) : i \in 1..n})

BuildBatchGroupIgnoringSync ==
    SubSeq(writers_, 1,
           Max({n \in 1..Len(writers_) : \A i \in 2..n :
                    Batch(writers_[i]).count # 0 => SizeTo(i) <= SizeTo(1) + MaxGroup}))

\* The writers of the group: none with sync behind a leader without it, none
\* that makes the group too big; a null batch joins at no cost.
BuildBatchGroup ==
    LET joins(n) == \A i \in 2..n :
            LET w == Batch(writers_[i]) IN
            /\ w.sync => Batch(writers_[1]).sync
            /\ w.count # 0 => SizeTo(i) <= SizeTo(1) + MaxGroup
    IN  SubSeq(writers_, 1, Max({n \in 1..Len(writers_) : joins(n)}))

\* The log record of a group: consecutive sequence numbers in queue order.
Contents(g) ==
    UNION {{[seq |-> last_sequence_ + SizeTo(i - 1) + k, id |-> call[g[i]]] :
                k \in 1..Batch(g[i]).count} : i \in DOMAIN g}

\* There is room: take the group and give up the mutex, or, for the null
\* batch, return.
HeadProceeds(t) ==
    /\ AtHead(t) /\ ~bg_error_ /\ ~Delayed /\ HasRoom
    /\ IF Batch(t).count = 0
       THEN /\ AnswerGroup(t, <<t>>, "ok")
            /\ pc' = [pc EXCEPT ![t] = "flushwait"]
            /\ UNCHANGED <<group, write_batch>>
       ELSE /\ group' = BuildBatchGroup
            /\ write_batch' = Contents(group')
            /\ pc' = [pc EXCEPT ![t] = "log"]
            /\ UNCHANGED <<calls, queueVars>>
    /\ UNCHANGED <<call, force, allow_delay, status, memVars, versionVars,
                   bgVars, flagVars, openVars, diskVars, boundVars,
                   next_file_number_, pending_outputs_>>

writeUnchanged == <<calls, call, queueVars, force, allow_delay, group, memVars,
                    versionVars, bgVars, flagVars, openVars, tables, manifest,
                    next_file_number_, pending_outputs_>>

\* log_->AddRecord: the record reaches the operating system.  A failed append
\* leaves a torn record, written {}.
AddRecord(t) ==
    LET log == [logs[logfile_number_] EXCEPT !.recs = Append(@, write_batch)]
        torn == [logs[logfile_number_] EXCEPT !.recs = Append(@, {})] IN
    /\ pc[t] = "log"
    /\ \/ /\ logs' = [logs EXCEPT ![logfile_number_] = log]
          /\ pc' = [pc EXCEPT ![t] = IF Batch(t).sync THEN "sync" ELSE "insert"]
          /\ UNCHANGED <<status, boundVars>>
       \/ /\ MayFail("append") /\ Fails
          /\ logs' = [logs EXCEPT ![logfile_number_] = torn]
          /\ status' = "error"
          /\ pc' = [pc EXCEPT ![t] = "finish"]
    /\ UNCHANGED <<write_batch, writeUnchanged>>

\* logfile_->Sync().
SyncLog(t) ==
    /\ pc[t] = "sync"
    /\ \/ /\ logs' = [logs EXCEPT ![logfile_number_].synced =
                                        Len(logs[logfile_number_].recs)]
          /\ pc' = [pc EXCEPT ![t] = "insert"]
          /\ UNCHANGED <<status, boundVars>>
       \/ /\ MayFail("sync") /\ Fails
          /\ status' = "sync_error"
          /\ pc' = [pc EXCEPT ![t] = "finish"]
          /\ UNCHANGED logs
    /\ UNCHANGED <<write_batch, writeUnchanged>>

InsertedSome(m) == write_batch \cap m # {}
InsertedAll(m) == write_batch \subseteq m

\* WriteBatchInternal::InsertInto: one entry at a time, readers running.
InsertInto(t) ==
    LET e == CHOOSE x \in write_batch \ mem_ :
                 \A y \in write_batch \ mem_ : x.seq <= y.seq IN
    /\ pc[t] = "insert"
    /\ mem_' = mem_ \cup {e}
    /\ pc' = IF InsertedAll(mem_') THEN [pc EXCEPT ![t] = "finish"] ELSE pc
    /\ UNCHANGED <<calls, call, queueVars, headVars, imm_, logfile_number_,
                   last_sequence_, versionVars, bgVars, flagVars, openVars,
                   diskVars, boundVars, next_file_number_, pending_outputs_>>

\* Back under the mutex: a failed sync stops all later writes; the sequence
\* number moves on whatever happened; the group is answered.
FinishWrite(t) ==
    LET ok == status = "ok"
        p == [pc EXCEPT ![t] = "idle"] IN
    /\ pc[t] = "finish"
    /\ last_sequence_' = last_sequence_ + Cardinality(write_batch)
    /\ AnswerGroup(t, group, IF ok THEN "ok" ELSE "error")
    /\ IF status = "sync_error"
       THEN RecordBackgroundError(p)
       ELSE pc' = p /\ UNCHANGED bg_error_
    /\ group' = << >> /\ write_batch' = {} /\ status' = "ok"
    /\ UNCHANGED <<call, force, allow_delay, mem_, imm_, logfile_number_,
                   versionVars, bgVars, shutting_down_, openVars, diskVars,
                   boundVars, next_file_number_, pending_outputs_>>

\* TEST_CompactMemTable after its null write: wait until imm_ is gone.
FlushWait(t) ==
    /\ pc[t] = "flushwait"
    /\ pc' = [pc EXCEPT ![t] = IF imm_ # None /\ ~bg_error_ THEN "flushbg"
                                                           ELSE "idle"]
    /\ UNCHANGED <<calls, call, queueVars, headVars, memVars, versionVars,
                   bgVars, flagVars, openVars, diskVars, boundVars,
                   next_file_number_, pending_outputs_>>

-----------------------------------------------------------------------------
(* The background thread: BackgroundCall, CompactMemTable, the compaction  *)
(* of level 0 and RemoveObsoleteFiles.                                     *)

bgUnchanged == <<calls, call, queueVars, headVars, mem_, logfile_number_,
                 last_sequence_, shutting_down_, openVars, logs, crashes>>

\* BackgroundCall finds nothing it may do.
BackgroundSkip ==
    /\ bgpc = "idle" /\ scheduled /\ (shutting_down_ \/ bg_error_)
    /\ scheduled' = FALSE
    /\ pc' = Woken(pc)
    /\ UNCHANGED <<bgUnchanged, imm_, versionVars, bgpc, flushing, compacting,
                   edit, garbage, bg_error_, tables, manifest, faults,
                   next_file_number_, pending_outputs_>>

\* CompactMemTable starts, alone or from within a compaction: has_imm_ is
\* looked at before every key.
CompactMemTable ==
    /\ \/ bgpc = "idle" /\ scheduled /\ ~shutting_down_ /\ ~bg_error_
       \/ bgpc \in {"cinput", "cbuild"} /\ ~shutting_down_
    /\ imm_ # None
    /\ flushing' = next_file_number_
    /\ next_file_number_' = NumberTaken(next_file_number_)
    /\ pending_outputs_' = pending_outputs_ \cup {next_file_number_}
    /\ bgpc' = "build"
    /\ UNCHANGED <<bgUnchanged, pc, imm_, versionVars, scheduled, compacting,
                   edit, garbage, bg_error_, tables, manifest, faults>>

\* BuildTable, without the mutex: the table is written and synced, or its
\* file is removed again.  A memtable without entries makes no table.
BuildTable ==
    /\ bgpc = "build"
    /\ \/ /\ tables' = IF imm_[1] = {} THEN tables ELSE Created(tables, flushing, imm_[1])
          /\ bgpc' = "built"
          /\ UNCHANGED faults
       \/ /\ MayFail("build") /\ faults' = faults + 1
          /\ bgpc' = "buildfailed"
          /\ UNCHANGED tables
    /\ UNCHANGED <<bgUnchanged, pc, imm_, versionVars, scheduled, flushing,
                   compacting, edit, garbage, bg_error_, manifest,
                   next_file_number_, pending_outputs_>>

\* Where the background thread goes after a flush: back to the compaction it
\* interrupted, or to the end of BackgroundCall.
AfterFlush ==
    IF compacting = None THEN "end"
    ELSE IF compacting[1].out = NoFile THEN "cinput" ELSE "cbuild"

\* The table, if any, is there: the edit drops the logs before the current
\* one.  A table of keys no level overlaps goes below level 0 at once.
FlushEdit(level0) ==
    /\ bgpc = "built" /\ ~shutting_down_
    /\ pending_outputs_' = pending_outputs_ \ {flushing}
    /\ edit' = [log_number |-> logfile_number_, add |-> {flushing} \cap DOMAIN tables,
                del |-> {}, level0 |-> level0]
    /\ bgpc' = "manifest"
    /\ UNCHANGED <<bgUnchanged, pc, imm_, versionVars, scheduled, flushing,
                   compacting, garbage, bg_error_, tables, manifest, faults,
                   next_file_number_>>

\* The flush failed, or the DB is being closed.
FlushFails ==
    /\ bgpc = "buildfailed" \/ (bgpc = "built" /\ shutting_down_)
    /\ pending_outputs_' = pending_outputs_ \ {flushing}
    /\ FlushError
    /\ flushing' = NoFile
    /\ bgpc' = AfterFlush
    /\ UNCHANGED <<bgUnchanged, imm_, versionVars, scheduled, compacting, edit,
                   garbage, tables, manifest, faults, next_file_number_>>

\* LogAndApply fails: the record may have reached the manifest all the same,
\* whole, or in part when AddRecord itself stopped.
FailedAppend(e) ==
    (IF MayFail("manifest") THEN {manifest, Appended(e)} ELSE {})
        \cup IF MayFail("descriptor") THEN {TornManifest} ELSE {}

\* LogAndApply, without the mutex: the record is appended and synced.
WriteManifest ==
    /\ bgpc = "manifest"
    /\ \/ /\ manifest' = Appended(edit)
          /\ bgpc' = "install"
          /\ UNCHANGED faults
       \/ /\ manifest' \in FailedAppend(edit)
          /\ faults' = faults + 1
          /\ bgpc' = "manifestfailed"
    /\ UNCHANGED <<bgUnchanged, pc, imm_, versionVars, scheduled, flushing,
                   compacting, edit, garbage, bg_error_, tables,
                   next_file_number_, pending_outputs_>>

ObsoleteTablesNotPending(v, pending) == DOMAIN tables \ Files(v)
ObsoleteLogsWithCurrent(n) == {k \in DOMAIN logs : k <= n}

\* RemoveObsoleteFiles: what is neither live nor pending.
ObsoleteTables(v, pending) == DOMAIN tables \ (Files(v) \cup pending)
ObsoleteLogs(n) == {k \in DOMAIN logs : k < n}
Obsolete(v, n, pending) ==
    {<<"table", k>> : k \in ObsoleteTables(v, pending)}
        \cup {<<"log", k>> : k \in ObsoleteLogs(n)}

\* Commit to the new version, then list the files to delete.
Install ==
    /\ bgpc = "install"
    /\ current' = Apply(current, edit)
    /\ log_number_' = edit.log_number
    /\ IF flushing # NoFile
       THEN imm_' = None /\ flushing' = NoFile /\ UNCHANGED <<pending_outputs_, compacting>>
       ELSE /\ pending_outputs_' = pending_outputs_ \ {compacting[1].out}
            /\ compacting' = None
            /\ UNCHANGED <<imm_, flushing>>
    /\ garbage' = IF bg_error_ THEN {}
                  ELSE Obsolete(current', log_number_', pending_outputs_')
    /\ edit' = NoEdit
    /\ bgpc' = "remove"
    /\ UNCHANGED <<bgUnchanged, pc, scheduled, bg_error_, tables, manifest,
                   faults, next_file_number_>>

\* The manifest could not be written.
InstallFails ==
    /\ bgpc = "manifestfailed"
    /\ IF flushing # NoFile
       THEN /\ FlushError
            /\ bgpc' = AfterFlush /\ flushing' = NoFile
            /\ UNCHANGED <<pending_outputs_, compacting>>
       ELSE /\ RecordBackgroundError(pc)
            /\ pending_outputs_' = pending_outputs_ \ {compacting[1].out}
            /\ compacting' = None /\ bgpc' = "end"
            /\ UNCHANGED flushing
    /\ edit' = NoEdit
    /\ UNCHANGED <<bgUnchanged, imm_, versionVars, scheduled, garbage, tables,
                   manifest, faults, next_file_number_>>

\* The files are deleted one by one, without the mutex.
RemoveFile ==
    /\ bgpc = "remove" /\ garbage # {}
    /\ \E f \in garbage :
          /\ garbage' = garbage \ {f}
          /\ IF f[1] = "table"
             THEN /\ tables' = [k \in DOMAIN tables \ {f[2]} |-> tables[k]]
                  /\ UNCHANGED logs
             ELSE /\ logs' = [k \in DOMAIN logs \ {f[2]} |-> logs[k]]
                  /\ UNCHANGED tables
    /\ UNCHANGED <<calls, call, queueVars, headVars, memVars, shutting_down_,
                   openVars, crashes, pc, versionVars, scheduled, bgpc, flushing,
                   compacting, edit, bg_error_, manifest, faults,
                   next_file_number_, pending_outputs_>>

\* RemoveObsoleteFiles returns.  Within a compaction the waiting writers are
\* woken here.
RemoveDone ==
    /\ bgpc = "remove" /\ garbage = {}
    /\ bgpc' = AfterFlush
    /\ pc' = IF compacting = None THEN pc ELSE Woken(pc)
    /\ UNCHANGED <<bgUnchanged, imm_, versionVars, scheduled, flushing,
                   compacting, edit, garbage, bg_error_, tables, manifest,
                   faults, next_file_number_, pending_outputs_>>

\* The end of BackgroundCall: schedule again if needed, wake the waiters.
BackgroundEnd ==
    /\ bgpc = "end"
    /\ bgpc' = "idle"
    /\ pc' = Woken(pc)
    /\ UNCHANGED <<bgUnchanged, imm_, versionVars, flushing, compacting, edit,
                   garbage, bg_error_, tables, manifest, faults,
                   next_file_number_, pending_outputs_>>
    /\ scheduled' = NeedsWork

\* BackgroundCompaction without imm_: level 0 into the level below.
StartCompaction ==
    /\ bgpc = "idle" /\ scheduled /\ ~shutting_down_ /\ ~bg_error_
    /\ imm_ = None
    /\ compacting' = <<[inputs |-> Files(current), out |-> NoFile]>>
    /\ bgpc' = "cinput"
    /\ UNCHANGED <<bgUnchanged, pc, imm_, versionVars, scheduled, flushing,
                   edit, garbage, bg_error_, tables, manifest, faults,
                   next_file_number_, pending_outputs_>>

\* OpenCompactionOutputFile: the file exists from now on.
OpenCompactionOutputFile ==
    /\ bgpc = "cinput" /\ ~shutting_down_
    /\ compacting' = [compacting EXCEPT ![1].out = next_file_number_]
    /\ pending_outputs_' = pending_outputs_ \cup {next_file_number_}
    /\ next_file_number_' = NumberTaken(next_file_number_)
    /\ tables' = Created(tables, next_file_number_, {})
    /\ bgpc' = "cbuild"
    /\ UNCHANGED <<bgUnchanged, pc, imm_, versionVars, scheduled, flushing,
                   edit, garbage, bg_error_, manifest, faults>>

\* FinishCompactionOutputFile and InstallCompactionResults up to the unlock.
\* The table holds what the inputs held.  An error recorded by a flush that
\* ran meanwhile does not stop it.
FinishCompaction ==
    /\ bgpc = "cbuild"
    /\ \/ /\ ~shutting_down_
          /\ tables' = [n \in DOMAIN tables |->
                            IF n = compacting[1].out
                            THEN UNION {tables[k] : k \in compacting[1].inputs}
                            ELSE tables[n]]
          /\ edit' = [log_number |-> log_number_, add |-> {compacting[1].out},
                      del |-> compacting[1].inputs, level0 |-> FALSE]
          /\ bgpc' = "manifest"
          /\ UNCHANGED <<compacting, pending_outputs_, faults, bg_error_, pc>>
       \/ /\ MayFail("build") /\ faults' = faults + 1
          /\ RecordBackgroundError(pc)
          /\ pending_outputs_' = pending_outputs_ \ {compacting[1].out}
          /\ compacting' = None /\ bgpc' = "end"
          /\ UNCHANGED <<tables, edit>>
    /\ UNCHANGED <<bgUnchanged, imm_, versionVars, scheduled, flushing, garbage,
                   manifest, next_file_number_>>

\* The compaction stops because the DB is being closed.
AbandonCompaction ==
    /\ bgpc \in {"cinput", "cbuild"} /\ shutting_down_
    /\ RecordBackgroundError(pc)
    /\ pending_outputs_' = pending_outputs_ \ {compacting[1].out}
    /\ compacting' = None /\ bgpc' = "end"
    /\ UNCHANGED <<bgUnchanged, imm_, versionVars, scheduled, flushing, edit,
                   garbage, tables, manifest, faults, next_file_number_>>

-----------------------------------------------------------------------------
(* Closing, crashing, and DB::Open afterwards.                             *)

\* What is left of the volatile state: nothing.
Down ==
    /\ pc' = [t \in Threads |-> "idle"]
    /\ writers_' = << >> /\ done' = {} /\ cv' = {}
    /\ force' = FALSE /\ allow_delay' = FALSE
    /\ group' = << >> /\ write_batch' = {} /\ status' = "ok"
    /\ mem_' = {} /\ imm_' = None
    /\ logfile_number_' = NoFile /\ last_sequence_' = 0
    /\ log_number_' = NoFile /\ current' = EmptyVersion
    /\ pending_outputs_' = {} /\ bg_error_' = FALSE /\ shutting_down_' = FALSE
    /\ scheduled' = FALSE /\ bgpc' = "idle" /\ flushing' = NoFile
    /\ compacting' = None /\ edit' = NoEdit /\ garbage' = {}
    /\ mode' = "down" /\ rlogs' = {} /\ next_file_number_' = 0
    /\ reuse_logs' = FALSE
    /\ UNCHANGED <<call, tables, faults>>

\* ~DBImpl: no call is running; background work in progress is awaited.
StartClose ==
    /\ mode = "open" /\ ~shutting_down_ /\ crashes < MaxCrashes
    /\ \A t \in Threads : pc[t] = "idle"
    /\ shutting_down_' = TRUE
    /\ crashes' = crashes + 1
    /\ UNCHANGED <<callVars, queueVars, headVars, memVars, versionVars, bgVars,
                   bg_error_, openVars, diskVars, faults, next_file_number_,
                   pending_outputs_>>

FinishClose ==
    /\ shutting_down_ /\ ~scheduled /\ bgpc = "idle"
    /\ Down
    /\ UNCHANGED <<calls, logs, manifest, crashes>>

\* DB::Open, once the logs are read: is a record added to the manifest, and
\* which one.
SavesManifest == ~reuse_logs \/ edit.add # {}
OpenEdit == [edit EXCEPT !.log_number = logfile_number_]
Opening == mode = "recover" /\ rlogs = {} /\ logfile_number_ # NoFile

\* A record is being added: to this log, to the manifest CURRENT points to.
AppendingTo(n) == n = logfile_number_ /\ \E t \in Threads : pc[t] = "log"
AppendingManifest == bgpc = "manifest" \/ (Opening /\ reuse_logs /\ SavesManifest)

\* What a crash may leave of a log: all records when the process dies, at
\* least the synced ones when the machine does, and part of the next one.
Left(n, machine) ==
    LET recs == logs[n].recs
        least == IF machine THEN logs[n].synced ELSE Len(recs)
        torn == {k \in least..Len(recs) :
                    "tear" \in Faults /\ (k < Len(recs) \/ AppendingTo(n))} IN
    {SubSeq(recs, 1, k) : k \in least..Len(recs)}
        \cup {Append(SubSeq(recs, 1, k), {}) : k \in torn}
Kept(machine) ==
    {left \in [DOMAIN logs -> UNION {Left(n, machine) : n \in DOMAIN logs}] :
        \A n \in DOMAIN logs : left[n] \in Left(n, machine)}

ManifestKept ==
    {manifest} \cup IF "tear" \in Faults /\ AppendingManifest THEN {TornManifest} ELSE {}

\* The entries of the call with this number are all among these.
Holds(es, i) ==
    /\ calls[i].count # 0
    /\ Cardinality({e \in es : e.id = i}) = calls[i].count

Crash(machine) ==
    /\ mode # "down" /\ crashes < MaxCrashes
    /\ crashes' = crashes + 1
    /\ manifest' \in ManifestKept
    /\ \E recs \in Kept(machine) :
          LET left == FromDisk(manifest', LAMBDA n : recs[n]) IN
          /\ logs' = [n \in DOMAIN logs |->
                         [recs |-> recs[n], synced |-> logs[n].synced]]
          /\ calls' = [i \in DOMAIN calls |->
                 [calls[i] EXCEPT !.res =
                     IF @ = "pending" THEN "cut"
                     ELSE IF @ = "ok" /\ calls[i].count # 0 /\ ~Holds(left, i)
                             /\ machine /\ ~calls[i].sync
                          THEN "lost" ELSE @]]
    /\ Down

LogsAfter(n) == {k \in DOMAIN logs : k > n}
LogsFrom(n) == {k \in DOMAIN logs : k >= n}

\* VersionSet::Recover and the start of DBImpl::Recover: the manifest's
\* version, if all its tables are there, and the logs it does not cover.  Of
\* a torn manifest it is the version before the torn record, or, behind it,
\* an error that leaves the DB down.
StartRecover ==
    /\ mode = "down" /\ Files(manifest.version) \subseteq DOMAIN tables
    /\ mode' = "recover" /\ reuse_logs' \in ReuseChoices
    /\ current' = manifest.version
    /\ log_number_' = manifest.log_number
    /\ last_sequence_' = manifest.last_sequence
    /\ next_file_number_' = manifest.next_file + 1
    /\ rlogs' = LogsFrom(manifest.log_number)
    /\ UNCHANGED <<callVars, queueVars, headVars, mem_, imm_, logfile_number_,
                   bgVars, flagVars, diskVars, boundVars, pending_outputs_>>

\* What log::Reader may return of a log: everything but, behind each torn
\* record, any number of records, the rest of its block.
ReadRecords(n) ==
    LET recs == logs[n].recs
        dropped == {D \in SUBSET DOMAIN recs : \A i \in D : recs[i] = {} \/ i - 1 \in D} IN
    {UNION {recs[i] : i \in DOMAIN recs \ D} : D \in dropped}

ForgetSequence(es) == last_sequence_
MaxSequence(es) == Max({last_sequence_} \cup {e.seq : e \in es})

MarkFileNumberUsed(k, n) == IF k <= n THEN n + 1 ELSE k

\* May the log be kept for the new memtable: only the last one, if reading
\* it filled no table.
ReuseLog(es, left) ==
    reuse_logs /\ left = {} /\ Cardinality(es) <= write_buffer_size

\* RecoverLogFile for the oldest log left: into a table, or kept as the
\* memtable when the last log is reused.  MarkFileNumberUsed afterwards.
RecoverLogFile ==
    LET n == Min(rlogs) IN
    /\ mode = "recover" /\ rlogs # {}
    /\ rlogs' = rlogs \ {n}
    /\ \E es \in ReadRecords(n) :
          /\ last_sequence_' = MaxSequence(es)
          /\ IF ReuseLog(es, rlogs')
             THEN /\ mem_' = es
                  /\ logfile_number_' = n
                  /\ next_file_number_' = MarkFileNumberUsed(next_file_number_, n)
                  /\ UNCHANGED <<tables, edit>>
             ELSE IF es = {}
             THEN /\ next_file_number_' = MarkFileNumberUsed(next_file_number_, n)
                  /\ UNCHANGED <<mem_, logfile_number_, tables, edit>>
             ELSE /\ tables' = Created(tables, next_file_number_, es)
                  /\ edit' = [edit EXCEPT !.add = @ \cup {next_file_number_}]
                  /\ next_file_number_' = MarkFileNumberUsed(next_file_number_ + 1, n)
                  /\ UNCHANGED <<mem_, logfile_number_>>
    /\ UNCHANGED <<callVars, queueVars, headVars, imm_, versionVars, scheduled,
                   bgpc, flushing, compacting, garbage, flagVars, mode, reuse_logs,
                   logs, manifest, boundVars, pending_outputs_>>

\* A table, the new log or the manifest cannot be written: DB::Open fails.  A
\* new manifest is removed again, the old one stays as the append left it.
OpenFails ==
    /\ mode = "recover"
    /\ \/ rlogs # {} /\ MayFail("build") /\ UNCHANGED manifest
       \/ rlogs = {} /\ logfile_number_ = NoFile /\ MayFail("newlog") /\ UNCHANGED manifest
       \/ /\ Opening /\ SavesManifest
          /\ \E m \in FailedAppend(OpenEdit) :
                manifest' = IF reuse_logs THEN m ELSE manifest
    /\ faults' = faults + 1
    /\ mode' = "down" /\ rlogs' = {} /\ mem_' = {} /\ edit' = NoEdit
    /\ reuse_logs' = FALSE
    /\ logfile_number_' = NoFile /\ last_sequence_' = 0 /\ log_number_' = NoFile
    /\ current' = EmptyVersion /\ next_file_number_' = 0
    /\ UNCHANGED <<callVars, queueVars, headVars, imm_, scheduled, bgpc,
                   flushing, compacting, garbage, flagVars, logs, tables, crashes,
                   pending_outputs_>>

\* DB::Open: a new log unless the last one is reused.
NewLog ==
    /\ mode = "recover" /\ rlogs = {} /\ logfile_number_ = NoFile
    /\ logs' = Created(logs, next_file_number_, EmptyLog)
    /\ logfile_number_' = next_file_number_
    /\ next_file_number_' = NumberTaken(next_file_number_)
    /\ UNCHANGED <<callVars, queueVars, headVars, mem_, imm_, last_sequence_,
                   versionVars, bgVars, flagVars, openVars, tables, manifest,
                   boundVars, pending_outputs_>>

\* DB::Open: a new manifest, or the old one, reused, with one more record if
\* there is anything to add; then RemoveObsoleteFiles and
\* MaybeScheduleCompaction.
FinishOpen ==
    /\ Opening
    /\ IF SavesManifest
       THEN /\ manifest' = IF reuse_logs THEN Appended(OpenEdit) ELSE Logged(OpenEdit)
            /\ current' = Apply(current, OpenEdit) /\ log_number_' = logfile_number_
       ELSE UNCHANGED <<manifest, current, log_number_>>
    /\ tables' = [k \in DOMAIN tables \cap Files(current') |-> tables[k]]
    /\ logs' = [k \in {n \in DOMAIN logs : n >= log_number_'} |-> logs[k]]
    /\ mode' = "open"
    /\ edit' = NoEdit
    /\ UNCHANGED <<callVars, queueVars, headVars, memVars, bgpc, flushing,
                   compacting, garbage, flagVars, rlogs, reuse_logs,
                   boundVars, next_file_number_, pending_outputs_>>
    /\ MaybeScheduleCompaction

-----------------------------------------------------------------------------

Write(t) ==
    \/ Wake(t) \/ HeadError(t) \/ HeadDelay(t) \/ HeadWait(t) \/ HeadSwitch(t)
    \/ HeadProceeds(t) \/ AddRecord(t) \/ SyncLog(t) \/ InsertInto(t)
    \/ FinishWrite(t) \/ FlushWait(t)

Background ==
    \/ BackgroundSkip \/ CompactMemTable \/ BuildTable
    \/ (\E l \in BOOLEAN : FlushEdit(l))
    \/ FlushFails \/ WriteManifest \/ Install \/ InstallFails \/ RemoveFile
    \/ RemoveDone \/ BackgroundEnd \/ StartCompaction
    \/ OpenCompactionOutputFile \/ FinishCompaction \/ AbandonCompaction

Open == StartRecover \/ RecoverLogFile \/ NewLog \/ FinishOpen

Next ==
    \/ \E t \in Threads, n \in 0..MaxCount, s \in BOOLEAN : Enqueue(t, n, s)
    \/ \E t \in Threads : Write(t) \/ HeadSwitchFails(t)
    \/ Background
    \/ StartClose \/ FinishClose
    \/ \E machine \in BOOLEAN : Crash(machine)
    \/ Open \/ OpenFails

Spec == Init /\ [][Next]_vars

(* Fairness: a thread that can take a step takes it, the background thread *)
(* and an open in progress too; calls, crashes and closes are optional.    *)
Fairness ==
    /\ \A t \in Threads : WF_vars(Write(t))
    /\ WF_vars(Background) /\ WF_vars(FinishClose) /\ WF_vars(Open)

FairSpec == Spec /\ Fairness

-----------------------------------------------------------------------------
(* What is in the store, and what the disk would give back.                *)

\* Visible to a reader that takes last_sequence_ as its snapshot.
Readable ==
    {e \in mem_ \cup (UNION {imm_[i] : i \in DOMAIN imm_}) \cup InTables(current) :
        e.seq <= last_sequence_}

\* What recovery reads if nothing, or everything unsynced, is lost.
Recoverable == FromDisk(manifest, LAMBDA n : logs[n].recs)
Synced == FromDisk(manifest, LAMBDA n : SubSeq(logs[n].recs, 1, logs[n].synced))

Stored == {i \in DOMAIN calls :
              Holds(IF mode = "open" THEN Readable ELSE Recoverable, i)}
Durable == {i \in DOMAIN calls : Holds(Synced, i)}

-----------------------------------------------------------------------------
(* Properties.                                                             *)

\* Types of the state: what each thread, the background thread and the disk
\* may hold; the next file number is above every file an open DB has.
TypeOK ==
    /\ \A i \in DOMAIN calls :
          /\ calls[i].count \in 0..MaxCount /\ calls[i].sync \in BOOLEAN
          /\ calls[i].res \in {"pending", "ok", "error", "cut", "lost"}
    /\ pc \in [Threads -> {"idle", "cvwait", "head", "bgwait", "log", "sync",
                           "insert", "finish", "flushwait", "flushbg"}]
    /\ call \in [Threads -> 0..Len(calls)]
    /\ \A i \in DOMAIN writers_ : writers_[i] \in Threads
    /\ done \subseteq Threads /\ cv \subseteq Threads
    /\ Len(imm_) <= 1 /\ Len(compacting) <= 1
    /\ bgpc \in {"idle", "build", "built", "buildfailed", "manifest", "install",
                 "manifestfailed", "remove", "end", "cinput", "cbuild"}
    /\ mode \in {"open", "recover", "down"}
    /\ mode = "open" =>
          \A n \in DOMAIN logs \cup DOMAIN tables : n < next_file_number_

\* options.h: a write with sync survives a crash of the machine.  At every
\* moment, whatever the background thread, a recovery or a failure is in the
\* middle of, an answered sync write is in a table of the manifest or in the
\* synced part of a log the manifest does not rule out (Write,
\* CompactMemTable, RemoveObsoleteFiles, Recover).  It holds where nothing is
\* appended behind part of a record (WholeRecords); elsewhere recovery may drop it.
SyncedWritesSurvive ==
    \A i \in DOMAIN calls :
        calls[i].res = "ok" /\ calls[i].sync => i \in Durable

\* options.h: if it is just the process that crashes, no writes will be lost
\* even if sync==false.  An answered write is always among what recovery
\* would read, and among what a reader sees while the DB is open, again
\* where nothing is appended behind part of a record.
AnsweredWritesRemain ==
    \A i \in DOMAIN calls :
        calls[i].res = "ok" /\ calls[i].count # 0 =>
            Holds(Recoverable, i) /\ i \in Stored

\* Sequence numbers follow the order in which the writers joined the queue,
\* over groups, failures and recoveries: two calls never share one, and a
\* later call's entries are newer (SetSequence, SetLastSequence, Recover).
SequenceFollowsQueue ==
    \A e, f \in Recoverable \cup Readable \cup mem_ :
        e.id < f.id => e.seq < f.seq

\* A reader's snapshot never holds part of a batch: the entries inserted so
\* far are hidden until SetLastSequence (InsertInto, Write).
NoHalfBatch ==
    mode = "open" =>
        \A e \in Readable : Holds(Readable, e.id)

\* The tables of the version and of the manifest are on the disk, and so are
\* the outputs being built: RemoveObsoleteFiles deletes none of them, even
\* while a flush runs inside a compaction (pending_outputs_).
LiveFilesExist ==
    /\ Files(current) \cup Files(manifest.version) \subseteq DOMAIN tables
    /\ mode = "open" => logfile_number_ \in DOMAIN logs
    /\ bgpc \in {"manifest", "install"} => edit.add \subseteq DOMAIN tables

\* Every call of Write() returns: no signal is missed in the queue, in
\* MakeRoomForWrite or behind TEST_CompactMemTable, whatever fails.
EveryWriteReturns == \A t \in Threads : (pc[t] # "idle") ~> (pc[t] = "idle")

\* The store as its clients see it (module DurableStore): batches appear at
\* once and together, and a crash keeps whatever was made durable.
Abstract == INSTANCE DurableStore WITH
    stored <- Stored, durable <- Durable,
    answers <- [i \in DOMAIN calls |-> [res |-> calls[i].res, sync |-> calls[i].sync,
                                         empty |-> calls[i].count = 0]]
RefinesDurableStore == Abstract!Spec
=============================================================================
