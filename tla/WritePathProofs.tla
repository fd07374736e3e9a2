-------------------------- MODULE WritePathProofs ---------------------------
(***************************************************************************)
(* Proofs about the write path, for any number of threads, calls, faults   *)
(* and crashes: the queue of DBImpl::Write stays in order and the files    *)
(* the versions name stay on the disk.  What is said of the manifest's     *)
(* files needs NewManifests: behind a torn record nothing can be read, and *)
(* reuse_logs goes on appending there.                                     *)
(***************************************************************************)
EXTENDS WritePath, FiniteSetTheorems, SequenceTheorems, WellFoundedInduction, TLAPS

\* The background thread has a VersionEdit that is being written or installed.
Busy == {"manifest", "install", "manifestfailed"}
BgPcs == {"idle", "build", "built", "buildfailed", "manifest", "install",
          "manifestfailed", "remove", "end", "cinput", "cbuild"}
ThreadPcs == {"idle", "cvwait", "head", "bgwait", "log", "sync", "insert", "finish", "flushwait", "flushbg"}
Results == {"pending", "ok", "error", "cut", "lost"}
CallT == [count: 0..MaxCount, sync: BOOLEAN, res: Results]
Version == [l0: SUBSET Nat, base: SUBSET Nat]
EditT == [log_number: Nat, add: SUBSET Nat, del: SUBSET Nat, level0: BOOLEAN]

\* The compaction in progress: its inputs, its output, is the output open.
Inputs == compacting[1].inputs
Out == compacting[1].out
OutOpen == compacting # None /\ Out # NoFile

\* Types of what the writing threads hold.
ThreadTypes ==
  /\ calls \in Seq(CallT)
  /\ pc \in [Threads -> ThreadPcs]
  /\ call \in [Threads -> Nat]
  /\ \A t \in Threads : call[t] <= Len(calls)
  /\ writers_ \in Seq(Threads)
  /\ done \subseteq Threads /\ cv \subseteq Threads

\* Types of the file numbers, the versions and the background thread.
FileTypes ==
  /\ logfile_number_ \in Nat /\ next_file_number_ \in Nat
  /\ log_number_ \in Nat /\ current \in Version
  /\ pending_outputs_ \subseteq Nat /\ bg_error_ \in BOOLEAN /\ shutting_down_ \in BOOLEAN
  /\ scheduled \in BOOLEAN /\ bgpc \in BgPcs /\ flushing \in Nat
  /\ compacting = None \/ \E c \in [inputs: SUBSET Nat, out: Nat] : compacting = <<c>>
  /\ imm_ = None \/ \E m : imm_ = <<m>>
  /\ edit \in EditT
  /\ mode \in {"open", "recover", "down"}
  /\ rlogs \subseteq Nat
  /\ DOMAIN logs \subseteq Nat /\ DOMAIN tables \subseteq Nat
  /\ manifest.version \in Version /\ manifest.log_number \in Nat
  /\ manifest.next_file \in Nat
  /\ \E q, x : manifest = [version |-> manifest.version, log_number |-> manifest.log_number,
                          next_file |-> manifest.next_file, last_sequence |-> q, torn |-> x]

\* The manifest names tables that exist, and numbers below its next file; it
\* is torn only where that may happen.
ManifestInv ==
  /\ NewManifests => Files(manifest.version) \subseteq DOMAIN tables
  /\ manifest.torn # "no" => {"tear", "descriptor"} \cap Faults # {}
  /\ \A n \in Files(manifest.version) : n < manifest.next_file
  /\ 0 < manifest.log_number /\ manifest.log_number < manifest.next_file

\* While the DB is not open no thread is in it and nothing is scheduled.
ClosedInv ==
  mode # "open" =>
    /\ bgpc = "idle" /\ ~scheduled /\ ~shutting_down_
    /\ \A t \in Threads : pc[t] = "idle"
    /\ writers_ = << >> /\ imm_ = None /\ pending_outputs_ = {}

\* A DB that is down holds nothing.
DownInv ==
  mode = "down" =>
    /\ logfile_number_ = NoFile /\ edit = NoEdit /\ current = EmptyVersion

\* During Recover: the manifest's version, the logs still to read, and the
\* tables written for the logs already read.
RecoverInv ==
  mode = "recover" =>
    /\ current = manifest.version /\ log_number_ = manifest.log_number
    /\ Files(current) \subseteq DOMAIN tables /\ reuse_logs \in ReuseChoices
    /\ next_file_number_ > manifest.next_file
    /\ rlogs \subseteq LogsFrom(manifest.log_number)
    /\ \A n \in LogsFrom(manifest.log_number) : n \in rlogs \/ n < next_file_number_
    /\ edit.add \subseteq DOMAIN tables /\ \A n \in edit.add : n < next_file_number_
    /\ edit.del = {}
    /\ logfile_number_ # NoFile =>
         rlogs = {} /\ logfile_number_ \in LogsFrom(manifest.log_number)

\* While the DB is open: the numbers given out are below the next one, the
\* version's tables exist, and the log in use is one the manifest covers.
OpenInv ==
  mode = "open" =>
    /\ \A n \in DOMAIN logs \cup DOMAIN tables : n < next_file_number_
    /\ Files(current) \subseteq DOMAIN tables
    /\ logfile_number_ \in DOMAIN logs
    /\ 0 < log_number_ /\ log_number_ <= logfile_number_
    /\ manifest.torn = "no" => log_number_ <= manifest.log_number
    /\ manifest.log_number <= logfile_number_ /\ manifest.next_file <= next_file_number_
    /\ \A n \in pending_outputs_ : n < next_file_number_

\* The background thread: what it has allocated, built and entered in its
\* edit at each point, for a flush and for a compaction, a flush inside one too.
BackgroundInv ==
  /\ bgpc \in {"idle", "end"} => compacting = None
  /\ bgpc \in {"cinput", "cbuild"} => compacting # None
  /\ bgpc = "cinput" => Out = NoFile
  /\ bgpc = "cbuild" => Out # NoFile
  /\ bgpc \in {"idle", "end", "cinput", "cbuild", "remove"} => flushing = NoFile
  /\ bgpc \in {"build", "built", "buildfailed"} => flushing # NoFile
  /\ flushing # NoFile => imm_ # None /\ flushing < next_file_number_
  /\ bgpc \notin Busy /\ mode = "open" => edit = NoEdit
  /\ bgpc \in Busy =>
       /\ edit.add \subseteq DOMAIN tables
       /\ \/ /\ flushing # NoFile /\ edit.add = {flushing} \cap DOMAIN tables /\ edit.del = {}
             /\ edit.log_number = logfile_number_
          \/ /\ flushing = NoFile /\ OutOpen /\ edit.add = {Out} /\ edit.del = Inputs
             /\ edit.log_number = log_number_ /\ ~edit.level0
  /\ bgpc = "build" => flushing \notin DOMAIN tables
  /\ bgpc \in {"build", "built", "manifest"} /\ flushing # NoFile =>
        flushing \notin Files(current) \cup Files(manifest.version)
  /\ compacting # None => Inputs \subseteq Files(current)
  /\ OutOpen =>
       /\ Out \in DOMAIN tables /\ Out \in pending_outputs_ /\ Out # flushing
       /\ Out \notin Files(current)
       /\ ~(bgpc \in {"install", "manifestfailed"} /\ flushing = NoFile) => Out \notin Files(manifest.version)

\* The version and its manifest agree until an error is recorded, a torn
\* record in the manifest included.
AgreeInv ==
  mode = "open" =>
  /\ manifest.torn = "no" =>
       /\ ~bg_error_ /\ bgpc \notin {"install", "manifestfailed"} =>
            manifest.version = current /\ manifest.log_number = log_number_
       /\ ~bg_error_ /\ bgpc = "install" =>
            manifest.version = Apply(current, edit) /\ manifest.log_number = edit.log_number
       /\ bgpc = "install" => manifest.log_number = edit.log_number
  /\ NewManifests /\ manifest.torn # "no" => bg_error_ \/ bgpc = "manifestfailed"
  
\* RemoveObsoleteFiles: the files collected for deletion are in no version and
\* not being written, and the version and its manifest agree meanwhile.
GarbageInv ==
  /\ garbage \subseteq {"table", "log"} \X Nat
  /\ garbage # {} =>
       /\ mode = "open" /\ bgpc = "remove"
       /\ NewManifests => manifest.version = current
  /\ \A n \in Nat : <<"table", n>> \in garbage => n \notin Files(current) \cup pending_outputs_
  /\ \A n \in Nat : <<"log", n>> \in garbage => n < log_number_

\* A thread that works at the front of the queue; one that has built a group.
Active == {"head", "bgwait", "log", "sync", "insert", "finish"}
Writing == {"log", "sync", "insert", "finish"}

\* The queue: in the order of the calls, each writer once and unanswered; only
\* its front works; a thread that waits is in the queue or done.
QueueInv ==
  /\ \A i, j \in 1..Len(writers_) : i < j => call[writers_[i]] < call[writers_[j]]
  /\ \A i \in 1..Len(writers_) :
       /\ pc[writers_[i]] \in Active \cup {"cvwait"} /\ writers_[i] \notin done
       /\ call[writers_[i]] > 0 /\ Batch(writers_[i]).res = "pending"
  /\ \A t \in Threads : pc[t] \in Active => writers_ # << >> /\ writers_[1] = t
  /\ \A t \in Threads : pc[t] = "cvwait" => t \in done \/ \E i \in 1..Len(writers_) : writers_[i] = t
  /\ \A t \in done : pc[t] = "cvwait"

\* The group of the front writer is the front of the queue, and is empty
\* while nobody writes.
GroupInv ==
  /\ group \in Seq(Threads)
  /\ \A t \in Threads : pc[t] \in Writing =>
       /\ 1 <= Len(group) /\ Len(group) <= Len(writers_)
       /\ \A i \in 1..Len(group) : group[i] = writers_[i]
  /\ (\A t \in Threads : pc[t] \notin Writing) =>
       group = << >> /\ write_batch = {} /\ status = "ok"

ThreadInv == ThreadTypes /\ QueueInv /\ GroupInv

FilesPart ==
  FileTypes /\ ManifestInv /\ DownInv /\ RecoverInv /\ OpenInv /\ BackgroundInv
  /\ AgreeInv /\ GarbageInv

FilesInv == FilesPart /\ ClosedInv

\* A non-empty set of numbers has a least one.
LEMMA LeastElement ==
    ASSUME NEW S \in SUBSET Nat, S # {}
    PROVE  \E m \in S : \A k \in S : m <= k
<1>1. PICK m \in S : \A k \in S : <<k, m>> \notin OpToRel(<, Nat)
  BY NatLessThanWellFounded, WFMin
<1>2. \A k \in S : ~(k < m)
  BY <1>1 DEF OpToRel
<1> QED
  BY <1>2

\* Min is that element (std::sort of the logs in DBImpl::Recover).
LEMMA MinIsLeast ==
    ASSUME NEW S \in SUBSET Nat, S # {}
    PROVE  Min(S) \in S /\ \A k \in S : Min(S) <= k
  BY LeastElement DEF Min

\* NewWritableFile: the new file is there, the others are as they were.
LEMMA CreatedFile ==
    ASSUME NEW fs, NEW n, NEW c
    PROVE  /\ DOMAIN Created(fs, n, c) = DOMAIN fs \cup {n}
           /\ Created(fs, n, c)[n] = c
           /\ \A k \in DOMAIN fs : k # n => Created(fs, n, c)[k] = fs[k]
  BY DEF Created

\* What FilesPart depends on besides the flags.
otherFileVars == <<logfile_number_, next_file_number_, log_number_, current,
   pending_outputs_, bgpc, flushing, compacting, imm_, edit, garbage, mode, rlogs,
   reuse_logs, manifest, DOMAIN logs, DOMAIN tables>>

\* Steps that only touch flags keep FilesPart.
LEMMA Frame ==
    ASSUME FilesPart, UNCHANGED otherFileVars,
           bg_error_' \in BOOLEAN, shutting_down_' \in BOOLEAN, scheduled' \in BOOLEAN,
           bg_error_ => bg_error_'
    PROVE  FilesPart'
  BY DEF FilesPart, otherFileVars, FileTypes, ManifestInv, DownInv, RecoverInv,
      OpenInv, BackgroundInv, AgreeInv, GarbageInv, LogsFrom, Files, Inputs, Out,
      OutOpen, Apply

\* Part of a record at the end changes nothing of what the manifest says.
LEMMA TornFields ==
    ASSUME FileTypes
    PROVE  /\ TornManifest.version = manifest.version
           /\ TornManifest.log_number = manifest.log_number
           /\ TornManifest.next_file = manifest.next_file
           /\ TornManifest.last_sequence = manifest.last_sequence
           /\ TornManifest.torn # "no" /\ (manifest.torn = "no" => TornManifest.torn = "tail")
           /\ \E q, x : TornManifest =
                [version |-> manifest.version, log_number |-> manifest.log_number,
                 next_file |-> manifest.next_file, last_sequence |-> q, torn |-> x]
<1>1. PICK q, x : manifest = [version |-> manifest.version, log_number |-> manifest.log_number,
                          next_file |-> manifest.next_file, last_sequence |-> q, torn |-> x]
  BY DEF FileTypes
<1> DEFINE y == IF x = "no" THEN "tail" ELSE "inside"
<1>2. TornManifest = [version |-> manifest.version, log_number |-> manifest.log_number,
                      next_file |-> manifest.next_file, last_sequence |-> q, torn |-> y]
  BY <1>1 DEF TornManifest
<1>3. manifest.torn = x /\ manifest.last_sequence = q
  BY <1>1
<1> QED
  BY <1>2, <1>3

\* What an append of the background thread leaves of the manifest.
LEMMA AppendedFields ==
    ASSUME FileTypes, NEW e \in EditT
    PROVE  /\ manifest.torn = "no" =>
                /\ Appended(e) = Logged(e)
                /\ Logged(e).version = Apply(manifest.version, e)
                /\ Logged(e).log_number = e.log_number
                /\ Logged(e).next_file = next_file_number_
                /\ Logged(e).last_sequence = last_sequence_
                /\ Logged(e).torn = "no"
           /\ manifest.torn # "no" => Appended(e) = TornManifest
  BY DEF Appended, Logged

\* Builder::Apply and SaveTo: the files of the version an edit leads to.
LEMMA ApplyType ==
    ASSUME NEW v \in Version, NEW e \in EditT
    PROVE  /\ Apply(v, e) \in Version
           /\ Files(Apply(v, e)) = (Files(v) \ e.del) \cup e.add
<1>1. /\ v.l0 \subseteq Nat /\ v.base \subseteq Nat
      /\ e.add \subseteq Nat /\ e.level0 \in BOOLEAN
  BY DEF Version, EditT
<1>2. /\ Apply(v, e).l0 = (v.l0 \ e.del) \cup IF e.level0 THEN e.add ELSE {}
      /\ Apply(v, e).base = (v.base \ e.del) \cup IF e.level0 THEN {} ELSE e.add
  BY DEF Apply
<1>3. Apply(v, e) \in Version
  BY <1>1, <1>2 DEF Apply, Version
<1>4. Files(Apply(v, e)) = (Files(v) \ e.del) \cup e.add
  BY <1>1, <1>2 DEF Files
<1> QED
  BY <1>3, <1>4

\* HeadSwitch keeps the files the versions name.
LEMMA HeadSwitchFiles ==
    ASSUME NEW t \in Threads, FilesInv, HeadSwitch(t) PROVE FilesPart'
<1> USE DEF FilesInv, FilesPart
<1>1. /\ mode = "open" /\ imm_ = None
      /\ logfile_number_' = next_file_number_
      /\ next_file_number_' = next_file_number_ + 1
      /\ imm_' = <<mem_>>
  BY DEF HeadSwitch, MaySwitch, AtHead, NumberTaken
<1>2. flushing = NoFile
  BY <1>1 DEF BackgroundInv
<1>3. DOMAIN logs' = DOMAIN logs \cup {next_file_number_}
  BY CreatedFile DEF HeadSwitch
<1>4. scheduled' \in BOOLEAN
  BY DEF HeadSwitch, MaybeScheduleCompaction, NeedsWork, FileTypes
<1>5. manifest.log_number \in Nat
  BY DEF FileTypes
<1>6. UNCHANGED <<log_number_, current, pending_outputs_, bg_error_, shutting_down_,
        bgpc, flushing, compacting, edit, garbage, mode, rlogs, manifest,
        tables>>
  BY DEF HeadSwitch, bgUnchanged, openVars, versionVars, memVars, bgVars, flagVars, diskVars
<1>7. Inputs' = Inputs /\ Out' = Out /\ OutOpen' = OutOpen
  BY <1>6 DEF Inputs, Out, OutOpen
<1>8. FileTypes'
  BY <1>1, <1>2, <1>3, <1>4, <1>5, <1>6, <1>7 DEF FileTypes, BgPcs, NoFile
<1>9. ManifestInv'
  BY <1>1, <1>2, <1>3, <1>4, <1>5, <1>6, <1>7 DEF ManifestInv, FileTypes, OpenInv, BackgroundInv
<1>10. DownInv'
  BY <1>1, <1>2, <1>3, <1>4, <1>5, <1>6, <1>7 DEF DownInv
<1>11. RecoverInv'
  BY <1>1, <1>2, <1>3, <1>4, <1>5, <1>6, <1>7 DEF RecoverInv, FileTypes, LogsFrom
<1>12. OpenInv'
  BY <1>1, <1>2, <1>3, <1>4, <1>5, <1>6, <1>7 DEF OpenInv, BackgroundInv, FileTypes
<1>13. BackgroundInv'
  BY <1>1, <1>2, <1>3, <1>4, <1>5, <1>6, <1>7 DEF BackgroundInv, Busy, OutOpen, OpenInv, FileTypes, ManifestInv
<1>14. AgreeInv'
  BY <1>1, <1>2, <1>3, <1>4, <1>5, <1>6, <1>7 DEF AgreeInv, BackgroundInv
<1>15. GarbageInv'
  BY <1>1, <1>2, <1>3, <1>4, <1>5, <1>6, <1>7 DEF GarbageInv
<1> QED
  BY <1>8, <1>9, <1>10, <1>11, <1>12, <1>13, <1>14, <1>15

\* CompactMemTable keeps the files the versions name.
LEMMA CompactMemTableFiles ==
    ASSUME FilesInv, CompactMemTable PROVE FilesPart'
<1> USE DEF FilesInv, FilesPart
<1>1. /\ bgpc \in {"idle", "cinput", "cbuild"} /\ imm_ # None
      /\ bgpc = "idle" => scheduled /\ ~bg_error_
      /\ flushing' = next_file_number_
      /\ next_file_number_' = next_file_number_ + 1
      /\ pending_outputs_' = pending_outputs_ \cup {next_file_number_}
      /\ bgpc' = "build"
  BY DEF CompactMemTable, NumberTaken
<1>2. mode = "open"
  BY <1>1 DEF ClosedInv
<1>3. /\ next_file_number_ # NoFile
      /\ next_file_number_ \notin DOMAIN tables \cup pending_outputs_
  BY <1>2 DEF OpenInv, FileTypes, NoFile
<1>4. UNCHANGED <<logfile_number_, log_number_, current, bg_error_, shutting_down_,
        scheduled, compacting, imm_, edit, garbage, mode, rlogs, manifest,
        logs, tables>>
  BY DEF CompactMemTable, bgUnchanged, openVars, versionVars, memVars, bgVars, flagVars, diskVars
<1>5. Inputs' = Inputs /\ Out' = Out /\ OutOpen' = OutOpen
  BY <1>4 DEF Inputs, Out, OutOpen
<1>6. FileTypes'
  BY <1>1, <1>2, <1>3, <1>4, <1>5 DEF FileTypes, BgPcs, NoFile
<1>7. ManifestInv'
  BY <1>1, <1>2, <1>3, <1>4, <1>5 DEF ManifestInv, FileTypes, OpenInv, BackgroundInv
<1>8. DownInv'
  BY <1>1, <1>2, <1>3, <1>4, <1>5 DEF DownInv
<1>9. RecoverInv'
  BY <1>1, <1>2, <1>3, <1>4, <1>5 DEF RecoverInv, FileTypes, LogsFrom
<1>10. OpenInv'
  BY <1>1, <1>2, <1>3, <1>4, <1>5 DEF OpenInv, BackgroundInv, FileTypes
<1>11. BackgroundInv'
  BY <1>1, <1>2, <1>3, <1>4, <1>5 DEF BackgroundInv, Busy, OutOpen, OpenInv, FileTypes, ManifestInv
<1>12. AgreeInv'
  BY <1>1, <1>2, <1>3, <1>4, <1>5 DEF AgreeInv, BackgroundInv
<1>13. GarbageInv'
  BY <1>1, <1>2, <1>3, <1>4, <1>5 DEF GarbageInv
<1> QED
  BY <1>6, <1>7, <1>8, <1>9, <1>10, <1>11, <1>12, <1>13

\* BuildTable keeps the files the versions name.
LEMMA BuildTableFiles ==
    ASSUME FilesInv, BuildTable PROVE FilesPart'
<1> USE DEF FilesInv, FilesPart
<1>1. /\ bgpc = "build" /\ flushing # NoFile /\ mode = "open"
  BY DEF BuildTable, ClosedInv, BackgroundInv
<1>2. /\ bgpc' \in {"built", "buildfailed"}
      /\ DOMAIN tables' \in {DOMAIN tables, DOMAIN tables \cup {flushing}}
  BY CreatedFile DEF BuildTable, Created
<1>3. UNCHANGED <<logfile_number_, next_file_number_, log_number_, current,
        pending_outputs_, bg_error_, shutting_down_, scheduled, flushing,
        compacting, imm_, edit, garbage, mode, rlogs, manifest, logs>>
  BY DEF BuildTable, bgUnchanged, openVars, versionVars, memVars, bgVars, flagVars, diskVars
<1>4. Inputs' = Inputs /\ Out' = Out /\ OutOpen' = OutOpen
  BY <1>3 DEF Inputs, Out, OutOpen
<1>5. FileTypes'
  BY <1>1, <1>2, <1>3, <1>4 DEF FileTypes, BgPcs, NoFile
<1>6. ManifestInv'
  BY <1>1, <1>2, <1>3, <1>4 DEF ManifestInv, FileTypes, OpenInv, BackgroundInv
<1>7. DownInv'
  BY <1>1, <1>2, <1>3, <1>4 DEF DownInv
<1>8. RecoverInv'
  BY <1>1, <1>2, <1>3, <1>4 DEF RecoverInv, FileTypes, LogsFrom
<1>9. OpenInv'
  BY <1>1, <1>2, <1>3, <1>4 DEF OpenInv, BackgroundInv, FileTypes
<1>10. BackgroundInv'
  BY <1>1, <1>2, <1>3, <1>4 DEF BackgroundInv, Busy, OutOpen, OpenInv, FileTypes, ManifestInv
<1>11. AgreeInv'
  BY <1>1, <1>2, <1>3, <1>4 DEF AgreeInv, BackgroundInv
<1>12. GarbageInv'
  BY <1>1, <1>2, <1>3, <1>4 DEF GarbageInv
<1> QED
  BY <1>5, <1>6, <1>7, <1>8, <1>9, <1>10, <1>11, <1>12

\* FlushEdit keeps the files the versions name.
LEMMA FlushEditFiles ==
    ASSUME NEW level0 \in BOOLEAN, FilesInv, FlushEdit(level0) PROVE FilesPart'
<1> USE DEF FilesInv, FilesPart
<1>1. /\ bgpc = "built" /\ flushing # NoFile /\ mode = "open"
  BY DEF FlushEdit, ClosedInv, BackgroundInv
<1>2. /\ pending_outputs_' = pending_outputs_ \ {flushing}
      /\ bgpc' = "manifest"
      /\ edit'.log_number = logfile_number_ /\ edit'.add = {flushing} \cap DOMAIN tables
      /\ edit'.del = {} /\ edit' \in EditT
  BY DEF FlushEdit, FileTypes, EditT
<1>3. UNCHANGED <<logfile_number_, next_file_number_, log_number_, current, bg_error_,
        shutting_down_, scheduled, flushing, compacting, imm_, garbage, mode,
        rlogs, manifest, logs, tables>>
  BY DEF FlushEdit, bgUnchanged, openVars, versionVars, memVars, bgVars, flagVars, diskVars
<1>4. Inputs' = Inputs /\ Out' = Out /\ OutOpen' = OutOpen
  BY <1>3 DEF Inputs, Out, OutOpen
<1>5. FileTypes'
  BY <1>1, <1>2, <1>3, <1>4 DEF FileTypes, BgPcs, NoFile
<1>6. ManifestInv'
  BY <1>1, <1>2, <1>3, <1>4 DEF ManifestInv, FileTypes, OpenInv, BackgroundInv
<1>7. DownInv'
  BY <1>1, <1>2, <1>3, <1>4 DEF DownInv
<1>8. RecoverInv'
  BY <1>1, <1>2, <1>3, <1>4 DEF RecoverInv, FileTypes, LogsFrom
<1>9. OpenInv'
  BY <1>1, <1>2, <1>3, <1>4 DEF OpenInv, BackgroundInv, FileTypes
<1>10. BackgroundInv'
  BY <1>1, <1>2, <1>3, <1>4 DEF BackgroundInv, Busy, OutOpen, OpenInv, FileTypes, ManifestInv
<1>11. AgreeInv'
  BY <1>1, <1>2, <1>3, <1>4 DEF AgreeInv, BackgroundInv
<1>12. GarbageInv'
  BY <1>1, <1>2, <1>3, <1>4 DEF GarbageInv
<1> QED
  BY <1>5, <1>6, <1>7, <1>8, <1>9, <1>10, <1>11, <1>12

\* FlushFails keeps the files the versions name.
LEMMA FlushFailsFiles ==
    ASSUME FilesInv, FlushFails PROVE FilesPart'
<1> USE DEF FilesInv, FilesPart
<1>1. /\ bgpc \in {"built", "buildfailed"} /\ mode = "open"
      /\ pending_outputs_' = pending_outputs_ \ {flushing}
      /\ flushing' = NoFile /\ bg_error_' = TRUE
  BY DEF FlushFails, FlushError, ClosedInv
<1>2. /\ bgpc' \in {"end", "cinput", "cbuild"}
      /\ bgpc' = "end" => compacting = None
      /\ bgpc' = "cinput" => compacting # None /\ Out = NoFile
      /\ bgpc' = "cbuild" => compacting # None /\ Out # NoFile
  BY DEF FlushFails, AfterFlush, Out
<1>3. UNCHANGED <<logfile_number_, next_file_number_, log_number_, current,
        shutting_down_, scheduled, compacting, imm_, edit, garbage, mode,
        rlogs, manifest, logs, tables>>
  BY DEF FlushFails, bgUnchanged, openVars, versionVars, memVars, bgVars, flagVars, diskVars
<1>4. Inputs' = Inputs /\ Out' = Out /\ OutOpen' = OutOpen
  BY <1>3 DEF Inputs, Out, OutOpen
<1>5. FileTypes'
  BY <1>1, <1>2, <1>3, <1>4 DEF FileTypes, BgPcs, NoFile
<1>6. ManifestInv'
  BY <1>1, <1>2, <1>3, <1>4 DEF ManifestInv, FileTypes, OpenInv, BackgroundInv
<1>7. DownInv'
  BY <1>1, <1>2, <1>3, <1>4 DEF DownInv
<1>8. RecoverInv'
  BY <1>1, <1>2, <1>3, <1>4 DEF RecoverInv, FileTypes, LogsFrom
<1>9. OpenInv'
  BY <1>1, <1>2, <1>3, <1>4 DEF OpenInv, BackgroundInv, FileTypes
<1>10. BackgroundInv'
  BY <1>1, <1>2, <1>3, <1>4 DEF BackgroundInv, Busy, OutOpen, OpenInv, FileTypes, ManifestInv
<1>11. AgreeInv'
  BY <1>1, <1>2, <1>3, <1>4 DEF AgreeInv, BackgroundInv
<1>12. GarbageInv'
  BY <1>1, <1>2, <1>3, <1>4 DEF GarbageInv
<1> QED
  BY <1>5, <1>6, <1>7, <1>8, <1>9, <1>10, <1>11, <1>12

\* WriteManifest keeps the files the versions name.
LEMMA WriteManifestFiles ==
    ASSUME FilesInv, WriteManifest PROVE FilesPart'
<1> USE DEF FilesInv, FilesPart
<1>1. /\ bgpc = "manifest" /\ bgpc' \in {"install", "manifestfailed"}
      /\ bgpc' = "install" => manifest' = Appended(edit)
      /\ \/ manifest' \in {manifest, Appended(edit)}
         \/ manifest' = TornManifest /\ bgpc' = "manifestfailed" /\ "descriptor" \in Faults
  BY DEF WriteManifest, FailedAppend, MayFail
<1>2. mode = "open"
  BY <1>1 DEF ClosedInv
<1>20. edit \in EditT
  BY DEF FileTypes
<1>3. \/ manifest' = manifest /\ bgpc' = "manifestfailed"
      \/ /\ manifest.torn = "no" /\ manifest'.torn = "no"
         /\ manifest'.log_number = edit.log_number
         /\ manifest'.next_file = next_file_number_
         /\ manifest'.version = Apply(manifest.version, edit)
      \/ /\ manifest'.version = manifest.version
         /\ manifest'.log_number = manifest.log_number
         /\ manifest'.next_file = manifest.next_file
         /\ manifest'.torn # "no" /\ {"tear", "descriptor"} \cap Faults # {}
         /\ NewManifests => bg_error_ \/ bgpc' = "manifestfailed"
  <2>1. CASE manifest' = manifest /\ bgpc' = "manifestfailed"
    BY <2>1
  <2>2. CASE manifest' = Appended(edit) /\ manifest.torn = "no"
    BY <2>2, <1>20, AppendedFields
  <2>3. CASE manifest' = TornManifest
    <3>1. /\ manifest'.version = manifest.version
          /\ manifest'.log_number = manifest.log_number
          /\ manifest'.next_file = manifest.next_file
          /\ manifest'.torn # "no"
      BY <2>3, TornFields
    <3>2. manifest.torn # "no" \/ "descriptor" \in Faults
      BY <1>1, <1>20, <2>3, <3>1, AppendedFields
    <3>3. {"tear", "descriptor"} \cap Faults # {}
      BY <3>2 DEF ManifestInv
    <3>4. NewManifests => bg_error_ \/ bgpc' = "manifestfailed"
      BY <1>1, <1>2, <1>20, <2>3, <3>1, AppendedFields DEF AgreeInv
    <3> QED
      BY <3>1, <3>3, <3>4
  <2> QED
    BY <1>1, <1>20, <2>1, <2>2, <2>3, AppendedFields
<1>21. \E q, x : manifest' = [version |-> manifest'.version, log_number |-> manifest'.log_number,
                   next_file |-> manifest'.next_file, last_sequence |-> q, torn |-> x]
  <2>1. CASE manifest' = manifest
    BY <2>1 DEF FileTypes
  <2>2. CASE manifest' = TornManifest
    BY <2>2, TornFields
  <2>3. CASE manifest' = Logged(edit)
    BY <2>3 DEF Logged
  <2> QED
    BY <1>1, <2>1, <2>2, <2>3 DEF Appended
<1>4. /\ Apply(manifest.version, edit) \in Version
      /\ Files(Apply(manifest.version, edit)) =
           (Files(manifest.version) \ edit.del) \cup edit.add
  BY ApplyType DEF FileTypes
<1>5. edit.log_number \in Nat /\ edit.add \subseteq Nat
  BY DEF FileTypes, EditT
<1>6. UNCHANGED <<logfile_number_, next_file_number_, log_number_, current,
        pending_outputs_, bg_error_, shutting_down_, scheduled, flushing,
        compacting, imm_, edit, garbage, mode, rlogs, logs, tables>>
  BY DEF WriteManifest, bgUnchanged, openVars, versionVars, memVars, bgVars, flagVars, diskVars
<1>7. Inputs' = Inputs /\ Out' = Out /\ OutOpen' = OutOpen
  BY <1>6 DEF Inputs, Out, OutOpen
<1>8. FileTypes'
  <2>1. manifest'.version \in Version /\ manifest'.log_number \in Nat /\ manifest'.next_file \in Nat
    BY <1>3, <1>4, <1>5 DEF FileTypes
  <2> QED
    BY <2>1, <1>21, <1>1, <1>6 DEF FileTypes, BgPcs, NoFile
<1>9. ManifestInv'
  <2>1. 0 < edit.log_number /\ edit.log_number < next_file_number_
    BY <1>1, <1>2, <1>5 DEF BackgroundInv, OpenInv, FileTypes, Busy
  <2>2. edit.add \subseteq DOMAIN tables /\ \A n \in edit.add : n < next_file_number_
    BY <1>1, <1>2 DEF BackgroundInv, OpenInv, Busy
  <2>3. \A n \in Files(manifest.version) : n < next_file_number_
    BY <1>2 DEF ManifestInv, OpenInv, FileTypes, Files, Version
  <2> QED
    BY <2>1, <2>2, <2>3, <1>3, <1>4, <1>6 DEF ManifestInv
<1>10. DownInv'
  BY <1>2, <1>6 DEF DownInv
<1>11. RecoverInv'
  BY <1>2, <1>6 DEF RecoverInv
<1>12. OpenInv'
  <2>1. log_number_ <= edit.log_number /\ edit.log_number <= logfile_number_
    BY <1>1, <1>2, <1>5 DEF BackgroundInv, OpenInv, FileTypes, Busy
  <2>2. /\ manifest'.torn = "no" => log_number_ <= manifest'.log_number
        /\ manifest'.log_number <= logfile_number_ /\ manifest'.next_file <= next_file_number_
    BY <1>2, <1>3, <2>1 DEF OpenInv, FileTypes
  <2> QED
    BY <2>2, <1>2, <1>6 DEF OpenInv
<1>13. BackgroundInv'
  BY <1>1, <1>2, <1>3, <1>4, <1>5, <1>6, <1>7 DEF BackgroundInv, Busy, OutOpen, OpenInv, FileTypes, ManifestInv
<1>14. AgreeInv'
  <2>1. manifest'.torn = "no" =>
          \/ manifest' = manifest /\ bgpc' = "manifestfailed"
          \/ manifest'.version = Apply(manifest.version, edit) /\ manifest.torn = "no"
             /\ manifest'.log_number = edit.log_number
    BY <1>3
  <2>2. NewManifests /\ manifest'.torn # "no" => bg_error_ \/ bgpc' = "manifestfailed"
    BY <1>2, <1>3
  <2> QED
    BY <2>1, <2>2, <1>1, <1>2, <1>6 DEF AgreeInv, BackgroundInv
<1>15. GarbageInv'
  BY <1>1, <1>2, <1>6 DEF GarbageInv
<1> QED
  BY <1>8, <1>9, <1>10, <1>11, <1>12, <1>13, <1>14, <1>15

\* Install keeps the files the versions name.
LEMMA InstallFiles ==
    ASSUME FilesInv, Install PROVE FilesPart'
<1> USE DEF FilesInv, FilesPart
<1>1. /\ bgpc = "install" /\ bgpc' = "remove"
      /\ current' = Apply(current, edit) /\ log_number_' = edit.log_number
      /\ edit' = NoEdit
  BY DEF Install
<1>2. mode = "open"
  BY <1>1 DEF ClosedInv
<1>3. /\ garbage' # {} => ~bg_error_
      /\ garbage' = IF bg_error_ THEN {}
                    ELSE Obsolete(current', log_number_', pending_outputs_')
  BY DEF Install
<1>4. /\ Files(current') = (Files(current) \ edit.del) \cup edit.add
      /\ current' \in Version
  BY <1>1, ApplyType DEF FileTypes
<1>5. NoEdit \in EditT /\ edit.log_number \in Nat
  BY DEF NoEdit, EditT, NoFile, FileTypes
<1>6. \/ /\ flushing # NoFile /\ imm_' = None /\ flushing' = NoFile
         /\ UNCHANGED <<pending_outputs_, compacting>>
      \/ /\ flushing = NoFile /\ flushing' = NoFile /\ UNCHANGED imm_
         /\ pending_outputs_' = pending_outputs_ \ {Out} /\ compacting' = None
  BY DEF Install, Out
<1>7. UNCHANGED <<logfile_number_, next_file_number_, bg_error_, shutting_down_,
        scheduled, mode, rlogs, manifest, logs, tables>>
  BY DEF Install, bgUnchanged, openVars, versionVars, memVars, bgVars, flagVars, diskVars
<1>8. FileTypes'
  <2>1. /\ compacting' = None \/ \E c \in [inputs: SUBSET Nat, out: Nat] : compacting' = <<c>>
        /\ imm_' = None \/ \E m : imm_' = <<m>>
        /\ pending_outputs_' \subseteq Nat
    BY <1>6 DEF FileTypes
  <2>2. flushing' \in Nat /\ bgpc' \in BgPcs
    BY <1>1, <1>2, <1>3, <1>4, <1>5, <1>6, <1>7 DEF BgPcs, NoFile
  <2> QED
    BY <2>1, <2>2, <1>1, <1>2, <1>3, <1>4, <1>5, <1>6, <1>7 DEF FileTypes
<1>9. ManifestInv'
  BY <1>1, <1>2, <1>3, <1>4, <1>5, <1>6, <1>7 DEF ManifestInv, FileTypes, OpenInv, BackgroundInv
<1>10. DownInv'
  BY <1>1, <1>2, <1>3, <1>4, <1>5, <1>6, <1>7 DEF DownInv
<1>11. RecoverInv'
  BY <1>1, <1>2, <1>3, <1>4, <1>5, <1>6, <1>7 DEF RecoverInv, FileTypes, LogsFrom
<1>12. OpenInv'
  BY <1>1, <1>2, <1>3, <1>4, <1>5, <1>6, <1>7 DEF OpenInv, BackgroundInv, FileTypes, AgreeInv, ManifestInv, Busy
<1>13. BackgroundInv'
  <2>1. CASE flushing # NoFile
    BY <2>1, <1>1, <1>2, <1>3, <1>4, <1>5, <1>6, <1>7 DEF BackgroundInv, Busy, Out, Inputs, OutOpen
  <2>2. CASE flushing = NoFile
    BY <2>2, <1>1, <1>2, <1>3, <1>4, <1>5, <1>6, <1>7 DEF BackgroundInv, Busy, OutOpen, Out
  <2> QED
    BY <2>1, <2>2
<1>14. AgreeInv'
  BY <1>1, <1>2, <1>3, <1>4, <1>5, <1>6, <1>7 DEF AgreeInv, BackgroundInv
<1>15. GarbageInv'
  <2>1. garbage' # {} /\ NewManifests => manifest' = manifest /\ manifest.version = current'
    BY <1>1, <1>2, <1>3, <1>4, <1>5, <1>6, <1>7 DEF AgreeInv
  <2> QED
    BY <2>1, <1>1, <1>2, <1>3, <1>4, <1>5, <1>6, <1>7 DEF GarbageInv, Obsolete, ObsoleteTables, ObsoleteLogs, FileTypes
<1> QED
  BY <1>8, <1>9, <1>10, <1>11, <1>12, <1>13, <1>14, <1>15

\* InstallFails keeps the files the versions name.
LEMMA InstallFailsFiles ==
    ASSUME FilesInv, InstallFails PROVE FilesPart'
<1> USE DEF FilesInv, FilesPart
<1>1. /\ bgpc = "manifestfailed" /\ edit' = NoEdit /\ bg_error_' = TRUE /\ flushing' = NoFile
  BY DEF InstallFails, FlushError, RecordBackgroundError
<1>2. NoEdit \in EditT
  BY DEF NoEdit, EditT, NoFile
<1>3. mode = "open"
  BY <1>1 DEF ClosedInv
<1>4. \/ /\ flushing # NoFile /\ UNCHANGED <<pending_outputs_, compacting>>
         /\ bgpc' = AfterFlush
      \/ /\ flushing = NoFile /\ bgpc' = "end"
         /\ pending_outputs_' = pending_outputs_ \ {Out} /\ compacting' = None
  BY DEF InstallFails, Out
<1>5. UNCHANGED <<logfile_number_, next_file_number_, log_number_, current,
        shutting_down_, scheduled, imm_, garbage, mode, rlogs, manifest,
        logs, tables>>
  BY DEF InstallFails, bgUnchanged, openVars, versionVars, memVars, bgVars, flagVars, diskVars
<1>6. FileTypes'
  <2>1. bgpc' \in BgPcs
    BY <1>1, <1>2, <1>3, <1>4, <1>5 DEF AfterFlush, BgPcs
  <2> QED
    BY <2>1, <1>1, <1>2, <1>3, <1>4, <1>5 DEF FileTypes, NoFile
<1>7. ManifestInv'
  BY <1>1, <1>2, <1>3, <1>4, <1>5 DEF ManifestInv, FileTypes, OpenInv, BackgroundInv
<1>8. DownInv'
  BY <1>1, <1>2, <1>3, <1>4, <1>5 DEF DownInv
<1>9. RecoverInv'
  BY <1>1, <1>2, <1>3, <1>4, <1>5 DEF RecoverInv, FileTypes, LogsFrom
<1>10. OpenInv'
  BY <1>1, <1>2, <1>3, <1>4, <1>5 DEF OpenInv, BackgroundInv, FileTypes
<1>11. BackgroundInv'
  <2>1. CASE flushing # NoFile
    BY <2>1, <1>1, <1>2, <1>3, <1>4, <1>5 DEF BackgroundInv, Busy, AfterFlush, Out, Inputs, OutOpen
  <2>2. CASE flushing = NoFile
    BY <2>2, <1>1, <1>2, <1>3, <1>4, <1>5 DEF BackgroundInv, Busy, OutOpen, Out
  <2> QED
    BY <2>1, <2>2
<1>12. AgreeInv'
  BY <1>1, <1>2, <1>3, <1>4, <1>5 DEF AgreeInv, AfterFlush
<1>13. GarbageInv'
  BY <1>1, <1>2, <1>3, <1>4, <1>5 DEF GarbageInv
<1> QED
  BY <1>6, <1>7, <1>8, <1>9, <1>10, <1>11, <1>12, <1>13

\* RemoveFile keeps the files the versions name.
LEMMA RemoveFileFiles ==
    ASSUME FilesInv, RemoveFile PROVE FilesPart'
<1> USE DEF FilesInv, FilesPart
<1>1. /\ bgpc = "remove" /\ garbage # {} /\ mode = "open"
      /\ NewManifests => manifest.version = current
  BY DEF RemoveFile, GarbageInv
<1>2. PICK f \in garbage :
         /\ garbage' = garbage \ {f}
         /\ \/ /\ f[1] = "table" /\ DOMAIN tables' = DOMAIN tables \ {f[2]}
               /\ UNCHANGED logs
            \/ /\ f[1] # "table" /\ DOMAIN logs' = DOMAIN logs \ {f[2]}
               /\ UNCHANGED tables
  BY DEF RemoveFile
<1>3. /\ f[2] \in Nat
      /\ f[1] = "table" => f[2] \notin Files(current) \cup pending_outputs_
      /\ f[1] # "table" => f[2] < log_number_
  BY DEF GarbageInv
<1>4. /\ DOMAIN tables' \subseteq DOMAIN tables /\ Files(current) \cap DOMAIN tables \subseteq DOMAIN tables'
      /\ pending_outputs_ \cap DOMAIN tables \subseteq DOMAIN tables'
      /\ DOMAIN logs' \subseteq DOMAIN logs
      /\ \A n \in DOMAIN logs : n >= log_number_ => n \in DOMAIN logs'
  BY <1>2, <1>3 DEF FileTypes
<1>5. UNCHANGED <<logfile_number_, next_file_number_, log_number_, current,
        pending_outputs_, bg_error_, shutting_down_, scheduled, bgpc,
        flushing, compacting, imm_, edit, mode, rlogs, manifest>>
  BY DEF RemoveFile, bgUnchanged, openVars, versionVars, memVars, bgVars, flagVars, diskVars
<1>6. Inputs' = Inputs /\ Out' = Out /\ OutOpen' = OutOpen
  BY <1>5 DEF Inputs, Out, OutOpen
<1>7. FileTypes'
  BY <1>1, <1>2, <1>3, <1>4, <1>5, <1>6 DEF FileTypes, BgPcs, NoFile
<1>8. ManifestInv'
  BY <1>1, <1>2, <1>3, <1>4, <1>5, <1>6 DEF ManifestInv, FileTypes, OpenInv, BackgroundInv
<1>9. DownInv'
  BY <1>1, <1>2, <1>3, <1>4, <1>5, <1>6 DEF DownInv
<1>10. RecoverInv'
  BY <1>1, <1>2, <1>3, <1>4, <1>5, <1>6 DEF RecoverInv, FileTypes, LogsFrom
<1>11. OpenInv'
  BY <1>1, <1>2, <1>3, <1>4, <1>5, <1>6 DEF OpenInv, BackgroundInv, FileTypes
<1>12. BackgroundInv'
  BY <1>1, <1>2, <1>3, <1>4, <1>5, <1>6 DEF BackgroundInv, Busy, OutOpen, OpenInv, FileTypes, ManifestInv
<1>13. AgreeInv'
  BY <1>1, <1>2, <1>3, <1>4, <1>5, <1>6 DEF AgreeInv, BackgroundInv
<1>14. GarbageInv'
  BY <1>1, <1>2, <1>3, <1>4, <1>5, <1>6 DEF GarbageInv
<1> QED
  BY <1>7, <1>8, <1>9, <1>10, <1>11, <1>12, <1>13, <1>14

\* RemoveDone keeps the files the versions name.
LEMMA RemoveDoneFiles ==
    ASSUME FilesInv, RemoveDone PROVE FilesPart'
<1> USE DEF FilesInv, FilesPart
<1>1. /\ bgpc = "remove" /\ garbage = {} /\ bgpc' = AfterFlush
  BY DEF RemoveDone
<1>2. mode = "open"
  BY <1>1 DEF ClosedInv
<1>3. /\ bgpc' \in {"end", "cinput", "cbuild"}
      /\ bgpc' = "end" => compacting = None
      /\ bgpc' = "cinput" => compacting # None /\ Out = NoFile
      /\ bgpc' = "cbuild" => compacting # None /\ Out # NoFile
  BY <1>1 DEF AfterFlush, Out
<1>4. UNCHANGED <<logfile_number_, next_file_number_, log_number_, current,
        pending_outputs_, bg_error_, shutting_down_, scheduled, flushing,
        compacting, imm_, edit, garbage, mode, rlogs, manifest, logs, tables>>
  BY DEF RemoveDone, bgUnchanged, openVars, versionVars, memVars, bgVars, flagVars, diskVars
<1>5. Inputs' = Inputs /\ Out' = Out /\ OutOpen' = OutOpen
  BY <1>4 DEF Inputs, Out, OutOpen
<1>6. FileTypes'
  BY <1>1, <1>2, <1>3, <1>4, <1>5 DEF FileTypes, BgPcs, NoFile
<1>7. ManifestInv'
  BY <1>1, <1>2, <1>3, <1>4, <1>5 DEF ManifestInv, FileTypes, OpenInv, BackgroundInv
<1>8. DownInv'
  BY <1>1, <1>2, <1>3, <1>4, <1>5 DEF DownInv
<1>9. RecoverInv'
  BY <1>1, <1>2, <1>3, <1>4, <1>5 DEF RecoverInv, FileTypes, LogsFrom
<1>10. OpenInv'
  BY <1>1, <1>2, <1>3, <1>4, <1>5 DEF OpenInv, BackgroundInv, FileTypes
<1>11. BackgroundInv'
  BY <1>1, <1>2, <1>3, <1>4, <1>5 DEF BackgroundInv, Busy, OutOpen, OpenInv, FileTypes, ManifestInv
<1>12. AgreeInv'
  BY <1>1, <1>2, <1>3, <1>4, <1>5 DEF AgreeInv, BackgroundInv
<1>13. GarbageInv'
  BY <1>1, <1>2, <1>3, <1>4, <1>5 DEF GarbageInv
<1> QED
  BY <1>6, <1>7, <1>8, <1>9, <1>10, <1>11, <1>12, <1>13

\* BackgroundEnd keeps the files the versions name.
LEMMA BackgroundEndFiles ==
    ASSUME FilesInv, BackgroundEnd PROVE FilesPart'
<1> USE DEF FilesInv, FilesPart
<1>1. /\ bgpc = "end" /\ bgpc' = "idle"
  BY DEF BackgroundEnd
<1>2. mode = "open"
  BY <1>1 DEF ClosedInv
<1>3. scheduled' \in BOOLEAN
  BY DEF BackgroundEnd, NeedsWork
<1>4. UNCHANGED <<logfile_number_, next_file_number_, log_number_, current,
        pending_outputs_, bg_error_, shutting_down_, flushing, compacting,
        imm_, edit, garbage, mode, rlogs, manifest, logs, tables>>
  BY DEF BackgroundEnd, bgUnchanged, openVars, versionVars, memVars, bgVars, flagVars, diskVars
<1>5. Inputs' = Inputs /\ Out' = Out /\ OutOpen' = OutOpen
  BY <1>4 DEF Inputs, Out, OutOpen
<1>6. FileTypes'
  BY <1>1, <1>2, <1>3, <1>4, <1>5 DEF FileTypes, BgPcs, NoFile
<1>7. ManifestInv'
  BY <1>1, <1>2, <1>3, <1>4, <1>5 DEF ManifestInv, FileTypes, OpenInv, BackgroundInv
<1>8. DownInv'
  BY <1>1, <1>2, <1>3, <1>4, <1>5 DEF DownInv
<1>9. RecoverInv'
  BY <1>1, <1>2, <1>3, <1>4, <1>5 DEF RecoverInv, FileTypes, LogsFrom
<1>10. OpenInv'
  BY <1>1, <1>2, <1>3, <1>4, <1>5 DEF OpenInv, BackgroundInv, FileTypes
<1>11. BackgroundInv'
  BY <1>1, <1>2, <1>3, <1>4, <1>5 DEF BackgroundInv, Busy, OutOpen, OpenInv, FileTypes, ManifestInv
<1>12. AgreeInv'
  BY <1>1, <1>2, <1>3, <1>4, <1>5 DEF AgreeInv, BackgroundInv
<1>13. GarbageInv'
  BY <1>1, <1>2, <1>3, <1>4, <1>5 DEF GarbageInv
<1> QED
  BY <1>6, <1>7, <1>8, <1>9, <1>10, <1>11, <1>12, <1>13

\* StartCompaction keeps the files the versions name.
LEMMA StartCompactionFiles ==
    ASSUME FilesInv, StartCompaction PROVE FilesPart'
<1> USE DEF FilesInv, FilesPart
<1>1. /\ bgpc = "idle" /\ bgpc' = "cinput" /\ imm_ = None /\ scheduled
      /\ compacting' = <<[inputs |-> Files(current), out |-> NoFile]>>
  BY DEF StartCompaction
<1>2. mode = "open" /\ flushing = NoFile
  BY <1>1 DEF ClosedInv, BackgroundInv
<1>3. /\ compacting' # None /\ Inputs' = Files(current) /\ Out' = NoFile
      /\ ~OutOpen'
  BY <1>1 DEF None, Inputs, Out, OutOpen
<1>4. /\ [inputs |-> Files(current), out |-> NoFile] \in [inputs: SUBSET Nat, out: Nat]
  BY DEF FileTypes, Version, Files, NoFile
<1>5. UNCHANGED <<logfile_number_, next_file_number_, log_number_, current,
        pending_outputs_, bg_error_, shutting_down_, scheduled, flushing,
        imm_, edit, garbage, mode, rlogs, manifest, logs, tables>>
  BY DEF StartCompaction, bgUnchanged, openVars, versionVars, memVars, bgVars, flagVars, diskVars
<1>6. FileTypes'
  BY <1>1, <1>2, <1>3, <1>4, <1>5 DEF FileTypes, BgPcs, NoFile
<1>7. ManifestInv'
  BY <1>1, <1>2, <1>3, <1>4, <1>5 DEF ManifestInv, FileTypes, OpenInv, BackgroundInv
<1>8. DownInv'
  BY <1>1, <1>2, <1>3, <1>4, <1>5 DEF DownInv
<1>9. RecoverInv'
  BY <1>1, <1>2, <1>3, <1>4, <1>5 DEF RecoverInv, FileTypes, LogsFrom
<1>10. OpenInv'
  BY <1>1, <1>2, <1>3, <1>4, <1>5 DEF OpenInv, BackgroundInv, FileTypes
<1>11. BackgroundInv'
  BY <1>1, <1>2, <1>3, <1>4, <1>5 DEF BackgroundInv, Busy, OutOpen, OpenInv, FileTypes, ManifestInv
<1>12. AgreeInv'
  BY <1>1, <1>2, <1>3, <1>4, <1>5 DEF AgreeInv, BackgroundInv
<1>13. GarbageInv'
  BY <1>1, <1>2, <1>3, <1>4, <1>5 DEF GarbageInv
<1> QED
  BY <1>6, <1>7, <1>8, <1>9, <1>10, <1>11, <1>12, <1>13

\* OpenCompactionOutputFile keeps the files the versions name.
LEMMA OpenCompactionOutputFileFiles ==
    ASSUME FilesInv, OpenCompactionOutputFile PROVE FilesPart'
<1> USE DEF FilesInv, FilesPart
<1>1. /\ bgpc = "cinput" /\ bgpc' = "cbuild"
      /\ compacting' = [compacting EXCEPT ![1].out = next_file_number_]
      /\ pending_outputs_' = pending_outputs_ \cup {next_file_number_}
      /\ next_file_number_' = next_file_number_ + 1
      /\ DOMAIN tables' = DOMAIN tables \cup {next_file_number_}
  BY CreatedFile DEF OpenCompactionOutputFile, NumberTaken
<1>2. mode = "open" /\ flushing = NoFile
  BY <1>1 DEF ClosedInv, BackgroundInv
<1>3. /\ next_file_number_ # NoFile
      /\ next_file_number_ \notin DOMAIN tables \cup pending_outputs_
  BY <1>2 DEF OpenInv, FileTypes, NoFile
<1>4. PICK c \in [inputs: SUBSET Nat, out: Nat] : compacting = <<c>>
  BY <1>1 DEF BackgroundInv, FileTypes
<1>5. /\ compacting' = <<[c EXCEPT !.out = next_file_number_]>>
      /\ [c EXCEPT !.out = next_file_number_] \in [inputs: SUBSET Nat, out: Nat]
  BY <1>1, <1>4 DEF FileTypes
<1>6. /\ compacting' # None /\ Inputs' = Inputs /\ Out' = next_file_number_
      /\ OutOpen'
  BY <1>3, <1>4, <1>5 DEF None, Inputs, Out, OutOpen
<1>7. UNCHANGED <<logfile_number_, log_number_, current, bg_error_, shutting_down_,
        scheduled, flushing, imm_, edit, garbage, mode, rlogs, manifest,
        logs>>
  BY DEF OpenCompactionOutputFile, bgUnchanged, openVars, versionVars, memVars, bgVars, flagVars, diskVars
<1>8. FileTypes'
  BY <1>1, <1>2, <1>3, <1>4, <1>5, <1>6, <1>7 DEF FileTypes, BgPcs, NoFile
<1>9. ManifestInv'
  BY <1>1, <1>2, <1>3, <1>4, <1>5, <1>6, <1>7 DEF ManifestInv, FileTypes, OpenInv, BackgroundInv
<1>10. DownInv'
  BY <1>1, <1>2, <1>3, <1>4, <1>5, <1>6, <1>7 DEF DownInv
<1>11. RecoverInv'
  BY <1>1, <1>2, <1>3, <1>4, <1>5, <1>6, <1>7 DEF RecoverInv, FileTypes, LogsFrom
<1>12. OpenInv'
  BY <1>1, <1>2, <1>3, <1>4, <1>5, <1>6, <1>7 DEF OpenInv, BackgroundInv, FileTypes
<1>13. BackgroundInv'
  BY <1>1, <1>2, <1>3, <1>4, <1>5, <1>6, <1>7 DEF BackgroundInv, Busy, OutOpen, OpenInv, FileTypes, ManifestInv
<1>14. AgreeInv'
  BY <1>1, <1>2, <1>3, <1>4, <1>5, <1>6, <1>7 DEF AgreeInv, BackgroundInv
<1>15. GarbageInv'
  BY <1>1, <1>2, <1>3, <1>4, <1>5, <1>6, <1>7 DEF GarbageInv
<1> QED
  BY <1>8, <1>9, <1>10, <1>11, <1>12, <1>13, <1>14, <1>15

\* FinishCompaction keeps the files the versions name.
LEMMA FinishCompactionFiles ==
    ASSUME FilesInv, FinishCompaction PROVE FilesPart'
<1> USE DEF FilesInv, FilesPart
<1>1. /\ bgpc = "cbuild" /\ mode = "open" /\ DOMAIN tables' = DOMAIN tables
      /\ flushing = NoFile
  BY DEF FinishCompaction, ClosedInv, BackgroundInv
<1>2. /\ OutOpen /\ Out \in Nat /\ Inputs \subseteq Nat
  BY <1>1 DEF BackgroundInv, OutOpen, FileTypes, Out, Inputs
<1>3. \/ /\ bgpc' = "manifest" /\ UNCHANGED <<compacting, pending_outputs_, bg_error_>>
         /\ edit' = [log_number |-> log_number_, add |-> {Out}, del |-> Inputs,
                     level0 |-> FALSE]
      \/ /\ bgpc' = "end" /\ UNCHANGED edit /\ compacting' = None
         /\ pending_outputs_' = pending_outputs_ \ {Out} /\ bg_error_' = TRUE
  BY DEF FinishCompaction, RecordBackgroundError, Out, Inputs
<1>4. [log_number |-> log_number_, add |-> {Out}, del |-> Inputs, level0 |-> FALSE] \in EditT
  BY <1>2 DEF FileTypes, EditT
<1>5. UNCHANGED <<logfile_number_, next_file_number_, log_number_, current,
        shutting_down_, scheduled, flushing, imm_, garbage, mode, rlogs,
        manifest, logs>>
  BY DEF FinishCompaction, bgUnchanged, openVars, versionVars, memVars, bgVars, flagVars, diskVars
<1>6. FileTypes'
  <2>1. edit' \in EditT /\ bgpc' \in BgPcs
    BY <1>3, <1>4 DEF BgPcs, FileTypes
  <2>2. /\ compacting' = None \/ \E c \in [inputs: SUBSET Nat, out: Nat] : compacting' = <<c>>
        /\ pending_outputs_' \subseteq Nat /\ bg_error_' \in BOOLEAN
    BY <1>3 DEF FileTypes
  <2> QED
    BY <2>1, <2>2, <1>1, <1>2, <1>3, <1>4, <1>5 DEF FileTypes
<1>7. ManifestInv'
  BY <1>1, <1>2, <1>3, <1>4, <1>5 DEF ManifestInv, FileTypes, OpenInv, BackgroundInv
<1>8. DownInv'
  BY <1>1, <1>2, <1>3, <1>4, <1>5 DEF DownInv
<1>9. RecoverInv'
  BY <1>1, <1>2, <1>3, <1>4, <1>5 DEF RecoverInv, FileTypes, LogsFrom
<1>10. OpenInv'
  BY <1>1, <1>2, <1>3, <1>4, <1>5 DEF OpenInv, BackgroundInv, FileTypes
<1>11. BackgroundInv'
  <2>1. CASE bgpc' = "manifest"
    <3>1. Inputs' = Inputs /\ Out' = Out /\ OutOpen' = OutOpen
      BY <1>3, <2>1 DEF Inputs, Out, OutOpen
    <3>2. /\ edit'.log_number = log_number_ /\ edit'.add = {Out}
          /\ edit'.del = Inputs /\ edit'.level0 = FALSE
      BY <1>3, <2>1
    <3> QED
      BY <2>1, <3>1, <3>2, <1>1, <1>2, <1>3, <1>4, <1>5 DEF BackgroundInv, Busy, OpenInv
  <2>2. CASE bgpc' = "end"
    BY <2>2, <1>1, <1>2, <1>3, <1>4, <1>5 DEF BackgroundInv, Busy, OutOpen
  <2> QED
    BY <1>3, <2>1, <2>2
<1>12. AgreeInv'
  BY <1>1, <1>2, <1>3, <1>4, <1>5 DEF AgreeInv, BackgroundInv
<1>13. GarbageInv'
  BY <1>1, <1>2, <1>3, <1>4, <1>5 DEF GarbageInv
<1> QED
  BY <1>6, <1>7, <1>8, <1>9, <1>10, <1>11, <1>12, <1>13

\* AbandonCompaction keeps the files the versions name.
LEMMA AbandonCompactionFiles ==
    ASSUME FilesInv, AbandonCompaction PROVE FilesPart'
<1> USE DEF FilesInv, FilesPart
<1>1. /\ bgpc \in {"cinput", "cbuild"} /\ bgpc' = "end" /\ compacting' = None /\ bg_error_' = TRUE
      /\ pending_outputs_' \subseteq pending_outputs_
  BY DEF AbandonCompaction, RecordBackgroundError
<1>2. mode = "open" /\ flushing = NoFile
  BY <1>1 DEF ClosedInv, BackgroundInv
<1>3. ~OutOpen'
  BY <1>1 DEF OutOpen
<1>4. UNCHANGED <<logfile_number_, next_file_number_, log_number_, current,
        shutting_down_, scheduled, flushing, imm_, edit, garbage, mode,
        rlogs, manifest, logs, tables>>
  BY DEF AbandonCompaction, bgUnchanged, openVars, versionVars, memVars, bgVars, flagVars, diskVars
<1>5. FileTypes'
  BY <1>1, <1>2, <1>3, <1>4 DEF FileTypes, BgPcs, NoFile
<1>6. ManifestInv'
  BY <1>1, <1>2, <1>3, <1>4 DEF ManifestInv, FileTypes, OpenInv, BackgroundInv
<1>7. DownInv'
  BY <1>1, <1>2, <1>3, <1>4 DEF DownInv
<1>8. RecoverInv'
  BY <1>1, <1>2, <1>3, <1>4 DEF RecoverInv, FileTypes, LogsFrom
<1>9. OpenInv'
  BY <1>1, <1>2, <1>3, <1>4 DEF OpenInv, BackgroundInv, FileTypes
<1>10. BackgroundInv'
  BY <1>1, <1>2, <1>3, <1>4 DEF BackgroundInv, Busy, OutOpen, OpenInv, FileTypes, ManifestInv
<1>11. AgreeInv'
  BY <1>1, <1>2, <1>3, <1>4 DEF AgreeInv, BackgroundInv
<1>12. GarbageInv'
  BY <1>1, <1>2, <1>3, <1>4 DEF GarbageInv
<1> QED
  BY <1>5, <1>6, <1>7, <1>8, <1>9, <1>10, <1>11, <1>12

\* A DB that goes down keeps the files the manifest names.
LEMMA DownFiles ==
    ASSUME FilesInv, Down, DOMAIN logs' = DOMAIN logs,
           manifest' = manifest \/ (manifest' = TornManifest /\ "tear" \in Faults)
    PROVE  FilesPart'
<1> USE DEF FilesInv, FilesPart
<1>1. /\ imm_' = None /\ logfile_number_' = NoFile /\ log_number_' = NoFile
      /\ current' = EmptyVersion /\ pending_outputs_' = {}
      /\ bg_error_' = FALSE /\ shutting_down_' = FALSE /\ scheduled' = FALSE
      /\ bgpc' = "idle" /\ flushing' = NoFile /\ compacting' = None
      /\ edit' = NoEdit /\ garbage' = {} /\ mode' = "down" /\ rlogs' = {}
      /\ next_file_number_' = 0 /\ tables' = tables
  BY DEF Down
<1>10. /\ manifest'.version = manifest.version /\ manifest'.log_number = manifest.log_number
       /\ manifest'.next_file = manifest.next_file
       /\ manifest'.torn # "no" => manifest.torn # "no" \/ "tear" \in Faults
       /\ \E q, x : manifest' = [version |-> manifest.version, log_number |-> manifest.log_number,
                   next_file |-> manifest.next_file, last_sequence |-> q, torn |-> x]
  <2>1. CASE manifest' = manifest
    BY <2>1 DEF FileTypes
  <2>2. CASE manifest' = TornManifest /\ "tear" \in Faults
    BY <2>2, TornFields
  <2> QED
    BY <2>1, <2>2
<1>2. NoEdit \in EditT /\ EmptyVersion \in Version
  BY DEF NoEdit, EditT, EmptyVersion, Version, NoFile
<1>3. FileTypes'
  BY <1>1, <1>2, <1>10 DEF FileTypes, NoFile, BgPcs
<1>4. ManifestInv' /\ DownInv'
  BY <1>1, <1>10 DEF ManifestInv, DownInv
<1>5. RecoverInv' /\ OpenInv' /\ AgreeInv'
  BY <1>1 DEF RecoverInv, OpenInv, AgreeInv
<1>6. BackgroundInv'
  BY <1>1 DEF BackgroundInv, Busy, OutOpen
<1>7. GarbageInv'
  BY <1>1 DEF GarbageInv
<1> QED
  BY <1>3, <1>4, <1>5, <1>6, <1>7

\* StartRecover keeps the files the versions name.
LEMMA StartRecoverFiles ==
    ASSUME FilesInv, StartRecover PROVE FilesPart'
<1> USE DEF FilesInv, FilesPart
<1>1. /\ mode = "down" /\ mode' = "recover" /\ current' = manifest.version
      /\ log_number_' = manifest.log_number
      /\ next_file_number_' = manifest.next_file + 1
      /\ rlogs' = LogsFrom(manifest.log_number)
      /\ Files(manifest.version) \subseteq DOMAIN tables /\ reuse_logs' \in ReuseChoices
  BY DEF StartRecover
<1>2. bgpc = "idle" /\ edit.add = {} /\ edit.del = {} /\ logfile_number_ = NoFile
  BY <1>1 DEF ClosedInv, DownInv, NoEdit
<1>3. LogsFrom(manifest.log_number) \subseteq Nat
  BY DEF FileTypes, LogsFrom
<1>4. UNCHANGED <<logfile_number_, pending_outputs_, bg_error_, shutting_down_,
        scheduled, bgpc, flushing, compacting, imm_, edit, garbage, manifest,
        logs, tables>>
  BY DEF StartRecover, bgUnchanged, openVars, versionVars, memVars, bgVars, flagVars, diskVars
<1>5. Inputs' = Inputs /\ Out' = Out /\ OutOpen' = OutOpen
  BY <1>4 DEF Inputs, Out, OutOpen
<1>6. FileTypes'
  BY <1>1, <1>2, <1>3, <1>4, <1>5 DEF FileTypes, BgPcs, NoFile
<1>7. ManifestInv'
  BY <1>1, <1>2, <1>3, <1>4, <1>5 DEF ManifestInv, FileTypes, OpenInv, BackgroundInv
<1>8. DownInv'
  BY <1>1, <1>2, <1>3, <1>4, <1>5 DEF DownInv
<1>9. RecoverInv'
  <2>1. LogsFrom(manifest.log_number)' = LogsFrom(manifest.log_number)
    BY <1>1, <1>2, <1>3, <1>4, <1>5 DEF LogsFrom
  <2> QED
    BY <2>1, <1>1, <1>2, <1>3, <1>4, <1>5 DEF RecoverInv, FileTypes
<1>10. OpenInv'
  BY <1>1, <1>2, <1>3, <1>4, <1>5 DEF OpenInv, BackgroundInv, FileTypes
<1>11. BackgroundInv'
  BY <1>1, <1>2, <1>3, <1>4, <1>5 DEF BackgroundInv, Busy, OutOpen, OpenInv, FileTypes, ManifestInv
<1>12. AgreeInv'
  BY <1>1, <1>2, <1>3, <1>4, <1>5 DEF AgreeInv, BackgroundInv
<1>13. GarbageInv'
  BY <1>1, <1>2, <1>3, <1>4, <1>5 DEF GarbageInv
<1> QED
  BY <1>6, <1>7, <1>8, <1>9, <1>10, <1>11, <1>12, <1>13

\* The record DB::Open adds, to a new manifest or to the old one.
LEMMA OpeningFacts ==
    ASSUME FilesInv, Opening
    PROVE  /\ OpenEdit \in EditT /\ OpenEdit.add = edit.add /\ OpenEdit.del = {}
           /\ OpenEdit.log_number = logfile_number_
           /\ Logged(OpenEdit).version = Apply(manifest.version, OpenEdit)
           /\ Logged(OpenEdit).log_number = logfile_number_
           /\ Logged(OpenEdit).next_file = next_file_number_
           /\ Logged(OpenEdit).torn = "no"
           /\ \E q, x : Logged(OpenEdit) =
                [version |-> Logged(OpenEdit).version, log_number |-> Logged(OpenEdit).log_number,
                 next_file |-> Logged(OpenEdit).next_file, last_sequence |-> q, torn |-> x]
           /\ Apply(current, OpenEdit) \in Version
           /\ Files(Apply(current, OpenEdit)) = Files(current) \cup edit.add
           /\ current = manifest.version /\ log_number_ = manifest.log_number
           /\ logfile_number_ \in DOMAIN logs /\ manifest.log_number <= logfile_number_
           /\ \A n \in DOMAIN logs : manifest.log_number <= n => n < next_file_number_
           /\ \A n \in Files(manifest.version) \cup edit.add :
                n \in DOMAIN tables /\ n < next_file_number_
           /\ manifest.next_file < next_file_number_
           /\ logfile_number_ < next_file_number_ /\ 0 < logfile_number_
           /\ reuse_logs \in ReuseChoices
<1> USE DEF FilesInv, FilesPart
<1>1. mode = "recover" /\ rlogs = {} /\ logfile_number_ # NoFile
  BY DEF Opening
<1>2. /\ OpenEdit \in EditT /\ OpenEdit.add = edit.add /\ OpenEdit.del = {}
      /\ OpenEdit.log_number = logfile_number_
  BY <1>1 DEF OpenEdit, FileTypes, EditT, RecoverInv
<1>3. /\ Logged(OpenEdit).version = Apply(manifest.version, OpenEdit)
      /\ Logged(OpenEdit).log_number = logfile_number_
      /\ Logged(OpenEdit).next_file = next_file_number_
      /\ Logged(OpenEdit).torn = "no"
  BY <1>2 DEF Logged
<1>4. \E q, x : Logged(OpenEdit) =
                [version |-> Logged(OpenEdit).version, log_number |-> Logged(OpenEdit).log_number,
                 next_file |-> Logged(OpenEdit).next_file, last_sequence |-> q, torn |-> x]
  BY DEF Logged
<1>5. /\ Apply(current, OpenEdit) \in Version
      /\ Files(Apply(current, OpenEdit)) = Files(current) \cup edit.add
  BY <1>2, ApplyType DEF FileTypes
<1>6. /\ current = manifest.version /\ log_number_ = manifest.log_number
      /\ logfile_number_ \in DOMAIN logs /\ manifest.log_number <= logfile_number_
      /\ \A n \in DOMAIN logs : manifest.log_number <= n => n < next_file_number_
      /\ manifest.next_file < next_file_number_ /\ reuse_logs \in ReuseChoices
  BY <1>1 DEF RecoverInv, LogsFrom, FileTypes
<1>7. \A n \in Files(manifest.version) \cup edit.add :
                n \in DOMAIN tables /\ n < next_file_number_
  BY <1>1, <1>6 DEF RecoverInv, ManifestInv, FileTypes, Version, Files
<1>8. logfile_number_ < next_file_number_ /\ 0 < logfile_number_
  BY <1>1, <1>6 DEF FileTypes, NoFile
<1> QED
  BY <1>2, <1>3, <1>4, <1>5, <1>6, <1>7, <1>8

\* OpenFails keeps the files the versions name.
LEMMA OpenFailsFiles ==
    ASSUME FilesInv, OpenFails PROVE FilesPart'
<1> USE DEF FilesInv, FilesPart
<1>1. /\ mode = "recover" /\ mode' = "down" /\ current' = EmptyVersion
      /\ log_number_' = NoFile /\ logfile_number_' = NoFile /\ next_file_number_' = 0
      /\ rlogs' = {} /\ edit' = NoEdit
  BY DEF OpenFails
<1>2. bgpc = "idle"
  BY <1>1 DEF ClosedInv
<1>3. NoEdit \in EditT /\ EmptyVersion \in Version
  BY DEF NoEdit, EditT, EmptyVersion, Version, NoFile
<1>4. UNCHANGED <<pending_outputs_, bg_error_, shutting_down_, scheduled, bgpc, flushing,
        compacting, imm_, garbage, logs, tables>>
  BY DEF OpenFails, bgUnchanged, openVars, versionVars, memVars, bgVars, flagVars, diskVars
<1>20. \/ manifest' = manifest
       \/ manifest' = TornManifest /\ {"tear", "descriptor"} \cap Faults # {}
       \/ manifest' = Logged(OpenEdit) /\ Opening
  <2>1. \/ manifest' = manifest
        \/ manifest' = TornManifest /\ "descriptor" \in Faults
        \/ manifest' = Appended(OpenEdit) /\ Opening
    BY DEF OpenFails, FailedAppend, MayFail
  <2> QED
    BY <2>1 DEF Appended, ManifestInv
<1>21. /\ manifest'.version \in Version /\ manifest'.log_number \in Nat /\ manifest'.next_file \in Nat
       /\ \E q, x : manifest' = [version |-> manifest'.version, log_number |-> manifest'.log_number,
                   next_file |-> manifest'.next_file, last_sequence |-> q, torn |-> x]
       /\ NewManifests => Files(manifest'.version) \subseteq DOMAIN tables
       /\ manifest'.torn # "no" => {"tear", "descriptor"} \cap Faults # {}
       /\ \A n \in Files(manifest'.version) : n < manifest'.next_file
       /\ 0 < manifest'.log_number /\ manifest'.log_number < manifest'.next_file
  <2>1. CASE manifest' = manifest
    BY <2>1 DEF FileTypes, ManifestInv
  <2>2. CASE manifest' = TornManifest /\ {"tear", "descriptor"} \cap Faults # {}
    BY <2>2, TornFields DEF FileTypes, ManifestInv
  <2>3. CASE manifest' = Logged(OpenEdit) /\ Opening
    <3>1. /\ manifest'.version = Apply(current, OpenEdit) /\ manifest'.log_number = logfile_number_
          /\ manifest'.next_file = next_file_number_ /\ manifest'.torn = "no"
          /\ Apply(current, OpenEdit) \in Version
          /\ Files(Apply(current, OpenEdit)) = Files(manifest.version) \cup edit.add
          /\ \A n \in Files(manifest.version) \cup edit.add :
                n \in DOMAIN tables /\ n < next_file_number_
          /\ logfile_number_ < next_file_number_ /\ 0 < logfile_number_
      BY <2>3, OpeningFacts
    <3>2. \E q, x : manifest' = [version |-> manifest'.version, log_number |-> manifest'.log_number,
                   next_file |-> manifest'.next_file, last_sequence |-> q, torn |-> x]
      BY <2>3, OpeningFacts
    <3> QED
      BY <3>1, <3>2 DEF FileTypes
  <2> QED
    BY <1>20, <2>1, <2>2, <2>3
<1>5. Inputs' = Inputs /\ Out' = Out /\ OutOpen' = OutOpen
  BY <1>4 DEF Inputs, Out, OutOpen
<1>6. FileTypes'
  BY <1>1, <1>2, <1>3, <1>4, <1>21 DEF FileTypes, BgPcs, NoFile
<1>7. ManifestInv'
  BY <1>4, <1>21 DEF ManifestInv
<1>8. DownInv'
  BY <1>1, <1>2, <1>3, <1>4, <1>5 DEF DownInv
<1>9. RecoverInv'
  BY <1>1, <1>2, <1>3, <1>4, <1>5 DEF RecoverInv, FileTypes, LogsFrom
<1>10. OpenInv'
  BY <1>1, <1>2, <1>3, <1>4, <1>5 DEF OpenInv, BackgroundInv, FileTypes
<1>11. BackgroundInv'
  BY <1>1, <1>2, <1>3, <1>4, <1>5 DEF BackgroundInv, Busy, OutOpen, OpenInv, FileTypes, ManifestInv
<1>12. AgreeInv'
  BY <1>1, <1>2, <1>3, <1>4, <1>5 DEF AgreeInv, BackgroundInv
<1>13. GarbageInv'
  BY <1>1, <1>2, <1>3, <1>4, <1>5 DEF GarbageInv
<1> QED
  BY <1>6, <1>7, <1>8, <1>9, <1>10, <1>11, <1>12, <1>13

\* NewLog keeps the files the versions name.
LEMMA NewLogFiles ==
    ASSUME FilesInv, NewLog PROVE FilesPart'
<1> USE DEF FilesInv, FilesPart
<1>1. /\ mode = "recover" /\ rlogs = {} /\ logfile_number_ = NoFile
      /\ logfile_number_' = next_file_number_ /\ next_file_number_' = next_file_number_ + 1
      /\ DOMAIN logs' = DOMAIN logs \cup {next_file_number_}
  BY CreatedFile DEF NewLog, NumberTaken
<1>2. bgpc = "idle"
  BY <1>1 DEF ClosedInv
<1>3. next_file_number_ >= manifest.log_number
  BY <1>1 DEF RecoverInv, FileTypes, ManifestInv
<1>4. UNCHANGED <<log_number_, current, pending_outputs_, bg_error_, shutting_down_,
        scheduled, bgpc, flushing, compacting, imm_, edit, garbage, mode,
        rlogs, reuse_logs, manifest, tables>>
  BY DEF NewLog, bgUnchanged, openVars, versionVars, memVars, bgVars, flagVars, diskVars
<1>5. Inputs' = Inputs /\ Out' = Out /\ OutOpen' = OutOpen
  BY <1>4 DEF Inputs, Out, OutOpen
<1>6. FileTypes'
  BY <1>1, <1>2, <1>3, <1>4, <1>5 DEF FileTypes, BgPcs, NoFile
<1>7. ManifestInv'
  BY <1>1, <1>2, <1>3, <1>4, <1>5 DEF ManifestInv, FileTypes, OpenInv, BackgroundInv
<1>8. DownInv'
  BY <1>1, <1>2, <1>3, <1>4, <1>5 DEF DownInv
<1>9. RecoverInv'
  BY <1>1, <1>2, <1>3, <1>4, <1>5 DEF RecoverInv, FileTypes, LogsFrom
<1>10. OpenInv'
  BY <1>1, <1>2, <1>3, <1>4, <1>5 DEF OpenInv, BackgroundInv, FileTypes
<1>11. BackgroundInv'
  BY <1>1, <1>2, <1>3, <1>4, <1>5 DEF BackgroundInv, Busy, OutOpen, OpenInv, FileTypes, ManifestInv
<1>12. AgreeInv'
  BY <1>1, <1>2, <1>3, <1>4, <1>5 DEF AgreeInv, BackgroundInv
<1>13. GarbageInv'
  BY <1>1, <1>2, <1>3, <1>4, <1>5 DEF GarbageInv
<1> QED
  BY <1>6, <1>7, <1>8, <1>9, <1>10, <1>11, <1>12, <1>13

\* RecoverLogFile keeps the files the versions name.
LEMMA RecoverLogFileFiles ==
    ASSUME FilesInv, RecoverLogFile PROVE FilesPart'
<1> USE DEF FilesInv, FilesPart
<1>1. PICK n : /\ n = Min(rlogs) /\ mode = "recover" /\ rlogs # {} /\ rlogs' = rlogs \ {n}
  BY DEF RecoverLogFile
<1>2. n \in rlogs /\ n \in Nat
  BY <1>1, MinIsLeast DEF FileTypes
<1>3. bgpc = "idle" /\ logfile_number_ = NoFile
  BY <1>1 DEF ClosedInv, RecoverInv
<1>4. \/ /\ rlogs' = {} /\ logfile_number_' = n /\ UNCHANGED <<DOMAIN tables, edit>>
         /\ next_file_number_' = MarkFileNumberUsed(next_file_number_, n)
      \/ /\ UNCHANGED <<DOMAIN tables, edit, logfile_number_>>
         /\ next_file_number_' = MarkFileNumberUsed(next_file_number_, n)
      \/ /\ DOMAIN tables' = DOMAIN tables \cup {next_file_number_}
         /\ edit' = [edit EXCEPT !.add = @ \cup {next_file_number_}]
         /\ UNCHANGED logfile_number_
         /\ next_file_number_' = MarkFileNumberUsed(next_file_number_ + 1, n)
  BY <1>1, CreatedFile DEF RecoverLogFile, ReuseLog
<1>5. /\ edit' \in EditT /\ edit'.del = edit.del
      /\ next_file_number_' \in Nat /\ n < next_file_number_'
      /\ next_file_number_ <= next_file_number_'
      /\ DOMAIN tables \subseteq DOMAIN tables' /\ DOMAIN tables' \subseteq Nat
  <2>1. /\ edit \in EditT /\ next_file_number_ \in Nat /\ DOMAIN tables \subseteq Nat
    BY DEF FileTypes
  <2>2. \A e \in EditT, k \in Nat :
           /\ [e EXCEPT !.add = @ \cup {k}] \in EditT
           /\ [e EXCEPT !.add = @ \cup {k}].del = e.del
    BY DEF EditT
  <2>3. \A k \in Nat : /\ MarkFileNumberUsed(k, n) \in Nat /\ n < MarkFileNumberUsed(k, n)
                      /\ k <= MarkFileNumberUsed(k, n)
    BY <1>2 DEF MarkFileNumberUsed
  <2>4. edit' \in EditT /\ edit'.del = edit.del
    BY <1>4, <2>1, <2>2
  <2>5. /\ MarkFileNumberUsed(next_file_number_ + 1, n) \in Nat
        /\ n < MarkFileNumberUsed(next_file_number_ + 1, n)
        /\ next_file_number_ <= MarkFileNumberUsed(next_file_number_ + 1, n)
    BY <1>2, <2>1 DEF MarkFileNumberUsed
  <2>6. /\ next_file_number_' \in Nat /\ n < next_file_number_'
        /\ next_file_number_ <= next_file_number_'
    BY <1>4, <2>1, <2>3, <2>5
  <2>7. DOMAIN tables \subseteq DOMAIN tables' /\ DOMAIN tables' \subseteq Nat
    BY <1>4, <2>1
  <2> QED
    BY <2>4, <2>6, <2>7
<1>6. /\ edit'.add \subseteq edit.add \cup {next_file_number_}
      /\ next_file_number_ \in edit'.add =>
           \/ next_file_number_ \in edit.add
           \/ /\ next_file_number_ \in DOMAIN tables'
              /\ next_file_number_ < next_file_number_'
  <2>1. edit \in EditT /\ next_file_number_ \in Nat
    BY DEF FileTypes
  <2>2. \A e \in EditT, k \in Nat : [e EXCEPT !.add = @ \cup {k}].add = e.add \cup {k}
    BY DEF EditT
  <2>3. MarkFileNumberUsed(next_file_number_ + 1, n) > next_file_number_
    BY <1>2, <2>1 DEF MarkFileNumberUsed
  <2> QED
    BY <1>4, <2>1, <2>2, <2>3
<1>7. UNCHANGED <<log_number_, current, pending_outputs_, bg_error_, shutting_down_,
        scheduled, bgpc, flushing, compacting, imm_, garbage, mode, reuse_logs,
        manifest, logs>>
  BY DEF RecoverLogFile, bgUnchanged, openVars, versionVars, memVars, bgVars, flagVars, diskVars
<1>8. Inputs' = Inputs /\ Out' = Out /\ OutOpen' = OutOpen
  BY <1>7 DEF Inputs, Out, OutOpen
<1>9. FileTypes'
  BY <1>1, <1>2, <1>3, <1>4, <1>5, <1>6, <1>7, <1>8 DEF FileTypes, BgPcs, NoFile
<1>10. ManifestInv'
  BY <1>1, <1>2, <1>3, <1>4, <1>5, <1>6, <1>7, <1>8 DEF ManifestInv, FileTypes, OpenInv, BackgroundInv
<1>11. DownInv'
  BY <1>1, <1>2, <1>3, <1>4, <1>5, <1>6, <1>7, <1>8 DEF DownInv
<1>12. RecoverInv'
  <2>1. LogsFrom(manifest.log_number)' = LogsFrom(manifest.log_number)
    BY <1>1, <1>2, <1>3, <1>4, <1>5, <1>6, <1>7, <1>8 DEF LogsFrom
  <2>2. LogsFrom(manifest.log_number) \subseteq Nat
    BY DEF LogsFrom, FileTypes
  <2>3. edit'.add \subseteq DOMAIN tables' /\ \A k \in edit'.add : k < next_file_number_'
    BY <1>1, <1>2, <1>3, <1>4, <1>5, <1>6, <1>7, <1>8 DEF RecoverInv, FileTypes
  <2>4. \A k \in LogsFrom(manifest.log_number) : k \in rlogs' \/ k < next_file_number_'
    BY <2>2, <1>1, <1>2, <1>3, <1>4, <1>5, <1>6, <1>7, <1>8 DEF RecoverInv, FileTypes
  <2>5. /\ logfile_number_' # NoFile => rlogs' = {} /\ logfile_number_' = n
        /\ next_file_number_' > manifest.next_file
    BY <1>1, <1>2, <1>3, <1>4, <1>5, <1>6, <1>7, <1>8 DEF RecoverInv, FileTypes
  <2> QED
    BY <2>1, <2>3, <2>4, <2>5, <1>1, <1>2, <1>3, <1>4, <1>5, <1>6, <1>7, <1>8 DEF RecoverInv
<1>13. OpenInv'
  BY <1>1, <1>2, <1>3, <1>4, <1>5, <1>6, <1>7, <1>8 DEF OpenInv, BackgroundInv, FileTypes
<1>14. BackgroundInv'
  BY <1>1, <1>2, <1>3, <1>4, <1>5, <1>6, <1>7, <1>8 DEF BackgroundInv, Busy, OutOpen, OpenInv, FileTypes, ManifestInv
<1>15. AgreeInv'
  BY <1>1, <1>2, <1>3, <1>4, <1>5, <1>6, <1>7, <1>8 DEF AgreeInv, BackgroundInv
<1>16. GarbageInv'
  BY <1>1, <1>2, <1>3, <1>4, <1>5, <1>6, <1>7, <1>8 DEF GarbageInv
<1> QED
  BY <1>9, <1>10, <1>11, <1>12, <1>13, <1>14, <1>15, <1>16

\* FinishOpen keeps the files the versions name.
LEMMA FinishOpenFiles ==
    ASSUME FilesInv, FinishOpen PROVE FilesPart'
<1> USE DEF FilesInv, FilesPart
<1>2. /\ mode = "recover" /\ mode' = "open" /\ Opening
      /\ edit' = NoEdit
      /\ DOMAIN tables' = DOMAIN tables \cap Files(current')
      /\ DOMAIN logs' = {n \in DOMAIN logs : n >= log_number_'}
      /\ scheduled' \in BOOLEAN
  BY DEF FinishOpen, Opening, MaybeScheduleCompaction, NeedsWork, FileTypes
<1>3. \/ /\ current' = Apply(current, OpenEdit) /\ log_number_' = logfile_number_
         /\ manifest' = IF reuse_logs THEN Appended(OpenEdit) ELSE Logged(OpenEdit)
      \/ reuse_logs /\ UNCHANGED <<manifest, current, log_number_>>
  BY DEF FinishOpen, SavesManifest
<1>4. /\ bgpc = "idle"
      /\ pending_outputs_ = {} /\ garbage = {} /\ compacting = None /\ flushing = NoFile
  BY <1>2 DEF ClosedInv, GarbageInv, BackgroundInv
<1>5. /\ OpenEdit \in EditT
      /\ Apply(current, OpenEdit) \in Version
      /\ Files(Apply(current, OpenEdit)) = Files(current) \cup edit.add
      /\ current = manifest.version /\ log_number_ = manifest.log_number
      /\ logfile_number_ \in DOMAIN logs /\ manifest.log_number <= logfile_number_
      /\ \A n \in DOMAIN logs : manifest.log_number <= n => n < next_file_number_
      /\ \A n \in Files(manifest.version) \cup edit.add :
                n \in DOMAIN tables /\ n < next_file_number_
      /\ manifest.next_file < next_file_number_
      /\ logfile_number_ < next_file_number_ /\ 0 < logfile_number_
      /\ reuse_logs \in ReuseChoices
  BY <1>2, OpeningFacts
<1>6. /\ Logged(OpenEdit).version = Apply(current, OpenEdit)
      /\ Logged(OpenEdit).log_number = logfile_number_
      /\ Logged(OpenEdit).next_file = next_file_number_
      /\ Logged(OpenEdit).torn = "no"
  BY <1>2, OpeningFacts
<1>7. \/ /\ current' = Apply(current, OpenEdit) /\ log_number_' = logfile_number_
         /\ manifest' = Logged(OpenEdit)
      \/ /\ current' = Apply(current, OpenEdit) /\ log_number_' = logfile_number_
         /\ manifest' = TornManifest /\ manifest.torn # "no" /\ reuse_logs
      \/ reuse_logs /\ UNCHANGED <<manifest, current, log_number_>>
  BY <1>3 DEF Appended
<1>8. /\ Files(current') \subseteq Files(manifest.version) \cup edit.add
      /\ log_number_' \in {manifest.log_number, logfile_number_}
      /\ \/ /\ current' = manifest'.version /\ log_number_' = manifest'.log_number
            /\ manifest'.next_file \in {manifest.next_file, next_file_number_}
            /\ manifest'.torn = "no" \/ manifest' = manifest
         \/ /\ manifest'.version = manifest.version /\ manifest'.log_number = manifest.log_number
            /\ manifest'.next_file = manifest.next_file
            /\ manifest.torn # "no" /\ manifest'.torn # "no" /\ reuse_logs
      /\ manifest'.torn # "no" => manifest.torn # "no" /\ reuse_logs
  BY <1>5, <1>6, <1>7, TornFields
<1>9. /\ manifest'.torn # "no" => ~NewManifests
      /\ manifest'.torn # "no" => {"tear", "descriptor"} \cap Faults # {}
  <2>1. reuse_logs = TRUE => TRUE \in ReuseChoices
    BY <1>5
  <2>2. reuse_logs => TRUE \in ReuseChoices
    BY <1>5, <2>1, WritePathConstants
  <2> QED
    BY <1>8, <2>2 DEF ManifestInv, NewManifests
<1>10. /\ current' \in Version /\ log_number_' \in Nat
       /\ manifest'.version \in Version /\ manifest'.log_number \in Nat /\ manifest'.next_file \in Nat
       /\ logfile_number_ \in Nat /\ manifest.log_number \in Nat /\ next_file_number_ \in Nat
       /\ NoEdit \in EditT
  <2>1. NoEdit \in EditT
    BY DEF NoEdit, EditT, NoFile
  <2> QED
    BY <2>1, <1>5, <1>6, <1>7, TornFields DEF FileTypes
<1>21. \E q, x : manifest' = [version |-> manifest'.version, log_number |-> manifest'.log_number,
                   next_file |-> manifest'.next_file, last_sequence |-> q, torn |-> x]
  <2>1. CASE manifest' = manifest
    BY <2>1 DEF FileTypes
  <2>2. CASE manifest' = TornManifest
    BY <2>2, TornFields
  <2>3. CASE manifest' = Logged(OpenEdit)
    BY <2>3, <1>2, OpeningFacts
  <2> QED
    BY <1>7, <2>1, <2>2, <2>3
<1>11. UNCHANGED <<logfile_number_, next_file_number_, pending_outputs_, bg_error_,
        shutting_down_, bgpc, flushing, compacting, imm_, garbage, rlogs>>
  BY DEF FinishOpen, bgUnchanged, openVars, versionVars, memVars, bgVars, flagVars, diskVars
<1>12. Inputs' = Inputs /\ Out' = Out /\ OutOpen' = OutOpen
  BY <1>11 DEF Inputs, Out, OutOpen
<1>13. FileTypes'
  BY <1>2, <1>10, <1>11, <1>21 DEF FileTypes, BgPcs, NoFile
<1>17. OpenInv'
  <2>1. \A k \in DOMAIN logs' : k < next_file_number_
    BY <1>2, <1>5, <1>8, <1>10 DEF FileTypes
  <2>2. \A k \in DOMAIN tables' : k < next_file_number_
    BY <1>2, <1>5, <1>8
  <2>3. Files(current') \subseteq DOMAIN tables' /\ logfile_number_ \in DOMAIN logs'
    BY <1>2, <1>5, <1>8, <1>10
  <2>4. 0 < log_number_' /\ manifest'.log_number <= logfile_number_ /\ log_number_' <= logfile_number_
    BY <1>5, <1>8, <1>10 DEF ManifestInv
  <2>5. /\ manifest'.torn = "no" => log_number_' <= manifest'.log_number
        /\ manifest'.next_file <= next_file_number_
    BY <1>5, <1>8, <1>10 DEF FileTypes
  <2> QED
    BY <2>1, <2>2, <2>3, <2>4, <2>5, <1>4, <1>11 DEF OpenInv
<1>14. ManifestInv'
  <2>1. NewManifests => Files(manifest'.version) \subseteq DOMAIN tables'
    BY <1>8, <1>9, <1>17, <1>2, <1>7, <1>6 DEF OpenInv
  <2>2. \A n \in Files(manifest'.version) : n < manifest'.next_file
    BY <1>5, <1>6, <1>7, TornFields DEF ManifestInv
  <2>3. 0 < manifest'.log_number /\ manifest'.log_number < manifest'.next_file
    BY <1>5, <1>6, <1>7, TornFields DEF ManifestInv
  <2> QED
    BY <2>1, <2>2, <2>3, <1>9 DEF ManifestInv
<1>15. DownInv'
  BY <1>2 DEF DownInv
<1>16. RecoverInv'
  BY <1>2 DEF RecoverInv
<1>18. BackgroundInv'
  BY <1>2, <1>4, <1>11, <1>12 DEF BackgroundInv, Busy, OutOpen
<1>19. AgreeInv'
  BY <1>2, <1>4, <1>8, <1>9, <1>11 DEF AgreeInv
<1>20. GarbageInv'
  BY <1>4, <1>11 DEF GarbageInv
<1> QED
  BY <1>13, <1>14, <1>15, <1>16, <1>17, <1>18, <1>19, <1>20

\* A bounded set of numbers that is not empty has Max as its greatest.
LEMMA MaxIsGreatest ==
    ASSUME NEW S \in SUBSET Nat, NEW b \in Nat, S # {}, \A k \in S : k <= b
    PROVE  Max(S) \in S /\ \A k \in S : k <= Max(S)
<1> DEFINE gaps == {n \in Nat : \E k \in S : n = b - k}
<1>1. gaps \in SUBSET Nat /\ gaps # {}
  <2>1. PICK k \in S : TRUE
    OBVIOUS
  <2>2. b - k \in gaps
    OBVIOUS
  <2> QED
    BY <2>2
<1>2. PICK g \in gaps : \A n \in gaps : g <= n
  BY <1>1, LeastElement
<1>3. PICK m \in S : g = b - m
  OBVIOUS
<1>4. \A k \in S : m >= k
  <2>1. TAKE k \in S
  <2>2. b - k \in gaps
    OBVIOUS
  <2> QED
    BY <1>2, <1>3, <2>2
<1>5. \A k \in S : Max(S) >= k /\ Max(S) \in S
  BY <1>4 DEF Max
<1> QED
  BY <1>4, <1>5 DEF Max

\* SignalAll leaves every thread at a known place.
LEMMA WokenType ==
    ASSUME NEW p \in [Threads -> ThreadPcs]
    PROVE  Woken(p) \in [Threads -> ThreadPcs]
  BY DEF Woken, ThreadPcs

(* The same queue positions under two program counters. *)
SameRoles(p, q) ==
    \A u \in Threads : /\ (p[u] = "cvwait") <=> (q[u] = "cvwait")
                       /\ (p[u] \in Active) <=> (q[u] \in Active)
                       /\ (p[u] \in Writing) <=> (q[u] \in Writing)

\* SignalAll moves only threads that are waiting.
LEMMA WokenRoles ==
    ASSUME NEW p \in [Threads -> ThreadPcs] PROVE SameRoles(p, Woken(p))
  BY DEF Woken, SameRoles, Active, Writing, ThreadPcs

\* Steps that leave the queue alone keep ThreadInv.
LEMMA QueueFrame ==
    ASSUME ThreadInv, UNCHANGED <<calls, call, writers_, done, group, write_batch>>,
           cv' \subseteq Threads, pc' \in [Threads -> ThreadPcs], SameRoles(pc, pc'),
           status' = status \/ \E u \in Threads : pc[u] \in Writing
    PROVE  ThreadInv'
<1>1. ThreadTypes'
  BY DEF ThreadInv, ThreadTypes
<1>2. QueueInv'
  <2>1. \A i \in 1..Len(writers_) : writers_[i] \in Threads
    BY DEF ThreadInv, ThreadTypes
  <2>2. \A i \in 1..Len(writers_) :
           pc'[writers_[i]] \in Active \cup {"cvwait"}
    BY <2>1 DEF ThreadInv, QueueInv, SameRoles
  <2>3. \A u \in Threads : pc'[u] \in Active => writers_ # << >> /\ writers_[1] = u
    BY DEF ThreadInv, QueueInv, SameRoles
  <2>4. \A u \in Threads : pc'[u] = "cvwait" =>
           u \in done \/ \E i \in 1..Len(writers_) : writers_[i] = u
    BY DEF ThreadInv, QueueInv, SameRoles
  <2>5. \A u \in done : pc'[u] = "cvwait"
    BY DEF ThreadInv, QueueInv, SameRoles, ThreadTypes
  <2> QED
    BY <2>2, <2>3, <2>4, <2>5 DEF ThreadInv, QueueInv, Batch
<1>3. GroupInv'
  BY DEF ThreadInv, GroupInv, SameRoles
<1> QED
  BY <1>1, <1>2, <1>3 DEF ThreadInv

\* g is a front part of the queue that is not empty.
IsFront(g) ==
    /\ g \in Seq(Threads) /\ 1 <= Len(g) /\ Len(g) <= Len(writers_)
    /\ \A i \in 1..Len(g) : g[i] = writers_[i]

\* What the loop at the end of Write() does, member by member.
LEMMA AnswerGroupEffect ==
    ASSUME ThreadInv, NEW t \in Threads, pc[t] \in Active, NEW g, IsFront(g),
           NEW res \in Results, AnswerGroup(t, g, res)
    PROVE  /\ calls' \in Seq(CallT) /\ Len(calls') = Len(calls)
           /\ \A i \in 1..Len(calls) :
                /\ calls'[i].count = calls[i].count /\ calls'[i].sync = calls[i].sync
                /\ (\E k \in 1..Len(g) : i = call[writers_[k]]) => calls'[i].res = res
                /\ ~(\E k \in 1..Len(g) : i = call[writers_[k]]) => calls'[i] = calls[i]
           /\ writers_' \in Seq(Threads) /\ Len(writers_') = Len(writers_) - Len(g)
           /\ \A i \in 1..Len(writers_') : writers_'[i] = writers_[i + Len(g)]
           /\ \A u \in Threads :
                u \in done' <=> u \in done \/ (u # t /\ \E k \in 1..Len(g) : u = writers_[k])
           /\ done' \subseteq Threads /\ cv' \subseteq Threads
<1> DEFINE rest == SubSeq(writers_, Len(g) + 1, Len(writers_))
           members == {g[i] : i \in DOMAIN g}
           ids == {call[m] : m \in members}
<1>1. /\ calls \in Seq(CallT) /\ writers_ \in Seq(Threads) /\ g \in Seq(Threads)
      /\ done \subseteq Threads /\ cv \subseteq Threads
      /\ Len(calls) \in Nat /\ Len(g) \in Nat /\ Len(writers_) \in Nat
  BY DEF ThreadInv, ThreadTypes, IsFront
<1>2. \A x : x \in members <=> \E k \in 1..Len(g) : x = writers_[k]
  BY <1>1 DEF IsFront
<1>3. \A x : x \in ids <=> \E k \in 1..Len(g) : x = call[writers_[k]]
  <2> HIDE DEF members
  <2>1. \A x : x \in ids <=> \E m \in members : x = call[m]
    OBVIOUS
  <2> QED
    BY <1>2, <2>1
<1>4. /\ rest \in Seq(Threads) /\ Len(rest) = Len(writers_) - Len(g)
      /\ \A i \in 1..Len(rest) : rest[i] = writers_[i + Len(g)]
  <2>1. Len(g) + 1 \in 1..(Len(writers_) + 1)
    BY <1>1 DEF IsFront
  <2>2. CASE Len(g) = Len(writers_)
    BY <1>1, <2>2, SubSeqProperties
  <2>3. CASE Len(g) < Len(writers_)
    BY <1>1, <2>1, <2>3, SubSeqProperties
  <2> QED
    BY <1>1, <2>2, <2>3 DEF IsFront
<1>5. writers_' = rest /\ done' = done \cup (members \ {t})
      /\ cv' = cv \cup (members \ {t}) \cup NewHead(rest)
  BY DEF AnswerGroup
<1>6. members \subseteq Threads
  BY <1>1
<1>7. NewHead(rest) \subseteq Threads
  <2>1. CASE rest = << >>
    BY <2>1 DEF NewHead
  <2>2. CASE rest # << >>
    BY <1>4, <2>2, HeadTailProperties DEF NewHead
  <2> QED
    BY <2>1, <2>2
<1>8. calls' = [i \in 1..Len(calls) |->
                  IF i \in ids THEN [calls[i] EXCEPT !.res = res] ELSE calls[i]]
  BY <1>1 DEF AnswerGroup
<1>9. ASSUME NEW i \in 1..Len(calls)
      PROVE  /\ calls[i] \in CallT /\ [calls[i] EXCEPT !.res = res] \in CallT
             /\ [calls[i] EXCEPT !.res = res].count = calls[i].count
             /\ [calls[i] EXCEPT !.res = res].sync = calls[i].sync
             /\ [calls[i] EXCEPT !.res = res].res = res
  <2>1. calls[i] \in CallT
    BY <1>1
  <2> QED
    BY <2>1 DEF CallT
<1>10. calls' \in [1..Len(calls) -> CallT]
  BY <1>8, <1>9
<1>11. calls' \in Seq(CallT) /\ Len(calls') = Len(calls)
  BY <1>1, <1>10, SMTT(30)
<1>12. \A i \in 1..Len(calls) : calls'[i] = IF i \in ids THEN [calls[i] EXCEPT !.res = res] ELSE calls[i]
  BY <1>8
<1> HIDE DEF ids, members, rest
<1>13. \A i \in 1..Len(calls) :
                /\ calls'[i].count = calls[i].count /\ calls'[i].sync = calls[i].sync
                /\ (\E k \in 1..Len(g) : i = call[writers_[k]]) => calls'[i].res = res
                /\ ~(\E k \in 1..Len(g) : i = call[writers_[k]]) => calls'[i] = calls[i]
  <2> SUFFICES ASSUME NEW i \in 1..Len(calls)
               PROVE  /\ calls'[i].count = calls[i].count /\ calls'[i].sync = calls[i].sync
                      /\ (\E k \in 1..Len(g) : i = call[writers_[k]]) => calls'[i].res = res
                      /\ ~(\E k \in 1..Len(g) : i = call[writers_[k]]) => calls'[i] = calls[i]
    OBVIOUS
  <2>1. i \in ids <=> \E k \in 1..Len(g) : i = call[writers_[k]]
    BY <1>3
  <2>2. CASE i \in ids
    <3>1. calls'[i] = [calls[i] EXCEPT !.res = res]
      BY <1>12, <2>2
    <3> QED
      BY <1>9, <2>1, <2>2, <3>1, Zenon
  <2>3. CASE i \notin ids
    <3>1. calls'[i] = calls[i]
      BY <1>12, <2>3
    <3> QED
      BY <2>1, <2>3, <3>1, Zenon
  <2> QED
    BY <2>2, <2>3
<1>14. \A u \in Threads :
                u \in done' <=> u \in done \/ (u # t /\ \E k \in 1..Len(g) : u = writers_[k])
  BY <1>2, <1>5
<1> QED
  BY <1>1, <1>4, <1>5, <1>6, <1>7, <1>11, <1>13, <1>14

(* The group at the front of the queue leaves it. *)
LEMMA GroupLeaves ==
    ASSUME ThreadInv, NEW t \in Threads, pc[t] \in Active, NEW g, IsFront(g),
           NEW res \in Results, AnswerGroup(t, g, res), UNCHANGED call,
           pc' \in [Threads -> ThreadPcs], pc'[t] \in {"idle", "flushwait"},
           \A u \in Threads \ {t} :
              pc'[u] = pc[u] \/ (pc[u] = "flushbg" /\ pc'[u] = "flushwait"),
           group' = << >>, write_batch' = {}, status' = "ok"
    PROVE  ThreadInv'
<1> DEFINE n == Len(g)
<1>1. /\ calls' \in Seq(CallT) /\ Len(calls') = Len(calls)
      /\ \A i \in 1..Len(calls) :
           ~(\E k \in 1..n : i = call[writers_[k]]) => calls'[i] = calls[i]
      /\ writers_' \in Seq(Threads) /\ Len(writers_') = Len(writers_) - n
      /\ \A i \in 1..Len(writers_') : writers_'[i] = writers_[i + n]
      /\ \A u \in Threads :
           u \in done' <=> u \in done \/ (u # t /\ \E k \in 1..n : u = writers_[k])
      /\ done' \subseteq Threads /\ cv' \subseteq Threads
  BY AnswerGroupEffect
<1>2. /\ n \in Nat /\ 1 <= n /\ n <= Len(writers_) /\ Len(writers_) \in Nat
      /\ Len(calls) \in Nat /\ call \in [Threads -> Nat]
      /\ \A u \in Threads : call[u] <= Len(calls)
      /\ \A i \in 1..Len(writers_) : writers_[i] \in Threads
  BY DEF IsFront, ThreadInv, ThreadTypes
<1> HIDE DEF n
<1>3. /\ \A i, j \in 1..Len(writers_) : i < j => call[writers_[i]] < call[writers_[j]]
      /\ writers_[1] = t
      /\ \A u \in Threads : pc[u] \in Active => u = t
      /\ \A i \in 1..Len(writers_) : pc[writers_[i]] \in Active \cup {"cvwait"}
                                     /\ writers_[i] \notin done /\ call[writers_[i]] > 0
                                     /\ calls[call[writers_[i]]].res = "pending"
  BY DEF ThreadInv, QueueInv, Batch
<1>4. ASSUME NEW i \in 1..Len(writers_')
      PROVE  /\ i + n \in 1..Len(writers_) /\ writers_'[i] = writers_[i + n]
             /\ writers_'[i] \in Threads /\ writers_'[i] # t
             /\ \A k \in 1..n : call[writers_[k]] < call[writers_'[i]]
  <2>1. /\ i + n \in 1..Len(writers_) /\ i \in Nat /\ 1 < i + n /\ 1 \in 1..Len(writers_)
        /\ writers_'[i] = writers_[i + n]
    BY <1>1, <1>2
  <2>2. ASSUME NEW k \in 1..n PROVE call[writers_[k]] < call[writers_'[i]]
    <3>1. k \in 1..Len(writers_) /\ k < i + n
      BY <1>2, <2>1
    <3> QED
      BY <1>3, <2>1, <3>1
  <2>3. call[t] < call[writers_'[i]] /\ call[t] \in Nat
    BY <1>2, <1>3, <2>1
  <2> QED
    BY <1>2, <2>1, <2>2, <2>3
<1>5. ThreadTypes'
  BY <1>1, <1>2 DEF ThreadTypes
<1>6. QueueInv'
  <2>1. ASSUME NEW i \in 1..Len(writers_'), NEW j \in 1..Len(writers_'), i < j
        PROVE  call[writers_'[i]] < call[writers_'[j]]
    <3>1. i + n \in 1..Len(writers_) /\ j + n \in 1..Len(writers_) /\ i + n < j + n
      BY <1>1, <1>2, <2>1
    <3> QED
      BY <1>1, <1>3, <3>1
  <2>2. ASSUME NEW i \in 1..Len(writers_')
        PROVE  /\ pc'[writers_'[i]] \in Active \cup {"cvwait"} /\ writers_'[i] \notin done'
               /\ call[writers_'[i]] > 0 /\ calls'[call[writers_'[i]]].res = "pending"
    <3> DEFINE w == writers_'[i]
    <3>1. /\ w \in Threads \ {t} /\ pc[w] = "cvwait" /\ w \notin done
          /\ call[w] \in 1..Len(calls) /\ calls[call[w]].res = "pending"
          /\ \A k \in 1..n : call[writers_[k]] < call[w]
      <4>1. w \in Threads \ {t} /\ \A k \in 1..n : call[writers_[k]] < call[w]
        BY <1>4
      <4>2. /\ pc[w] \in Active \cup {"cvwait"} /\ w \notin done /\ call[w] > 0
            /\ calls[call[w]].res = "pending"
        BY <1>3, <1>4
      <4> QED
        BY <1>2, <1>3, <4>1, <4>2
    <3> HIDE DEF w
    <3>5. \A k \in 1..n : writers_[k] # w /\ call[writers_[k]] # call[w]
      <4>1. TAKE k \in 1..n
      <4>2. call[writers_[k]] < call[w] /\ call[w] \in Nat
        BY <3>1
      <4> QED
        BY <4>2
    <3>2. calls'[call[w]] = calls[call[w]]
      BY <1>1, <3>1, <3>5
    <3>3. w \notin done'
      BY <1>1, <3>1, <3>5
    <3>4. pc'[w] = "cvwait"
      BY <3>1
    <3> QED
      BY <3>1, <3>2, <3>3, <3>4 DEF w
  <2>3. \A u \in Threads : pc'[u] \notin Active
    BY <1>3 DEF Active
  <2>4. ASSUME NEW u \in Threads, pc'[u] = "cvwait"
        PROVE  u \in done' \/ \E i \in 1..Len(writers_') : writers_'[i] = u
    <3>1. u # t /\ pc[u] = "cvwait"
      BY <2>4
    <3>2. CASE u \in done
      BY <1>1, <3>2
    <3>3. CASE u \notin done
      <4>1. PICK i \in 1..Len(writers_) : writers_[i] = u
        BY <3>1, <3>3 DEF ThreadInv, QueueInv
      <4>2. CASE i \in 1..n
        BY <1>1, <3>1, <4>1, <4>2
      <4>3. CASE i \notin 1..n
        <5>1. i - n \in 1..Len(writers_') /\ (i - n) + n = i
          BY <1>1, <1>2, <4>1, <4>3
        <5> QED
          BY <1>1, <4>1, <5>1
      <4> QED
        BY <4>2, <4>3
    <3> QED
      BY <3>2, <3>3
  <2>5. ASSUME NEW u \in done' PROVE pc'[u] = "cvwait"
    <3>1. u \in Threads
      BY <1>1
    <3>2. CASE u \in done
      <4>1. pc[u] = "cvwait"
        BY <3>2 DEF ThreadInv, QueueInv
      <4> QED
        BY <3>1, <4>1 DEF Active
    <3>3. CASE u \notin done
      <4>1. u # t /\ \E k \in 1..n : u = writers_[k]
        BY <1>1, <3>1, <3>3
      <4>2. pc[u] = "cvwait"
        BY <1>2, <1>3, <3>1, <4>1
      <4> QED
        BY <3>1, <4>1, <4>2
    <3> QED
      BY <3>2, <3>3
  <2> QED
    BY <2>1, <2>2, <2>3, <2>4, <2>5 DEF QueueInv, Batch
<1>7. GroupInv'
  <2>1. \A u \in Threads : pc'[u] \notin Writing
    BY <1>3 DEF Active, Writing
  <2> QED
    BY <2>1 DEF GroupInv
<1> QED
  BY <1>5, <1>6, <1>7 DEF ThreadInv

\* BuildBatchGroup returns a front part of the queue, with a sync write in it
\* only behind a sync write.
LEMMA BuildBatchGroupFront ==
    ASSUME ThreadInv, writers_ # << >>
    PROVE  /\ IsFront(BuildBatchGroup)
           /\ \A i \in 1..Len(BuildBatchGroup) :
                Batch(BuildBatchGroup[i]).sync => Batch(writers_[1]).sync
<1> DEFINE joins(n) == \A i \in 2..n :
             LET w == Batch(writers_[i]) IN
             /\ w.sync => Batch(writers_[1]).sync
             /\ w.count # 0 => SizeTo(i) <= SizeTo(1) + MaxGroup
           S == {n \in 1..Len(writers_) : joins(n)}
           m == Max(S)
<1>1. writers_ \in Seq(Threads) /\ Len(writers_) \in Nat /\ Len(writers_) >= 1
  BY EmptySeq DEF ThreadInv, ThreadTypes
<1>2. 1 \in S
  <2>1. joins(1)
    <3>1. \A i \in 2..1 : FALSE
      OBVIOUS
    <3> QED
      BY <3>1
  <2> QED
    BY <1>1, <2>1
<1>3. m \in S
  <2>1. S \in SUBSET Nat /\ S # {} /\ \A k \in S : k <= Len(writers_)
    BY <1>1, <1>2
  <2> HIDE DEF S
  <2> QED
    BY <1>1, <2>1, MaxIsGreatest
<1>4. m \in 1..Len(writers_) /\ joins(m)
  BY <1>3
<1>5. BuildBatchGroup = SubSeq(writers_, 1, m)
  BY DEF BuildBatchGroup
<1> HIDE DEF m
<1>6. /\ SubSeq(writers_, 1, m) \in Seq(Threads) /\ Len(SubSeq(writers_, 1, m)) = m
      /\ \A i \in 1..m : SubSeq(writers_, 1, m)[i] = writers_[i]
  BY <1>1, <1>4, SubSeqProperties
<1>7. \A i \in 1..m : Batch(writers_[i]).sync => Batch(writers_[1]).sync
  <2>1. TAKE i \in 1..m
  <2>2. CASE i = 1
    BY <2>2
  <2>3. CASE i # 1
    <3>1. i \in 2..m
      BY <1>4, <2>3
    <3> QED
      BY <1>4, <3>1
  <2> QED
    BY <2>2, <2>3
<1> QED
  BY <1>4, <1>5, <1>6, <1>7 DEF IsFront

\* Waking the threads that wait for background work keeps ThreadInv.
LEMMA QueueWoken ==
    ASSUME ThreadInv, pc' = pc \/ pc' = Woken(pc),
           UNCHANGED <<calls, call, writers_, done, cv, group, write_batch, status>>
    PROVE  ThreadInv'
<1>1. pc \in [Threads -> ThreadPcs] /\ cv \subseteq Threads
  BY DEF ThreadInv, ThreadTypes
<1>2. pc' \in [Threads -> ThreadPcs] /\ SameRoles(pc, pc')
  BY <1>1, WokenType, WokenRoles DEF SameRoles
<1> QED
  BY <1>1, <1>2, QueueFrame

\* A DB that goes down has no queue.
LEMMA QueueGone ==
    ASSUME ThreadInv, Down, calls' \in Seq(CallT), Len(calls') = Len(calls)
    PROVE  ThreadInv'
<1>1. /\ pc' = [t \in Threads |-> "idle"] /\ writers_' = << >> /\ done' = {} /\ cv' = {}
      /\ group' = << >> /\ write_batch' = {} /\ status' = "ok" /\ UNCHANGED call
  BY DEF Down
<1>2. /\ \A t \in Threads : pc'[t] = "idle" /\ pc'[t] \notin Active /\ pc'[t] \notin Writing
      /\ pc' \in [Threads -> ThreadPcs]
  BY <1>1 DEF Active, Writing, ThreadPcs
<1>3. Len(writers_') = 0 /\ writers_' \in Seq(Threads) /\ group' \in Seq(Threads)
  BY <1>1
<1>4. ThreadTypes'
  BY <1>1, <1>2, <1>3 DEF ThreadInv, ThreadTypes
<1>5. QueueInv'
  BY <1>1, <1>2, <1>3 DEF QueueInv
<1>6. GroupInv'
  BY <1>1, <1>2, <1>3 DEF GroupInv
<1> QED
  BY <1>4, <1>5, <1>6 DEF ThreadInv

\* A crash changes answers only.
LEMMA CrashCalls ==
    ASSUME ThreadInv, NEW machine \in BOOLEAN, Crash(machine)
    PROVE  /\ Down /\ calls' \in Seq(CallT) /\ Len(calls') = Len(calls)
           /\ \A i \in 1..Len(calls) :
                calls'[i].count = calls[i].count /\ calls'[i].sync = calls[i].sync
<1>1. calls \in Seq(CallT) /\ Len(calls) \in Nat /\ DOMAIN calls = 1..Len(calls)
  BY DEF ThreadInv, ThreadTypes
<1>2. PICK res : calls' = [i \in DOMAIN calls |-> [calls[i] EXCEPT !.res = res[i]]]
                 /\ res \in [DOMAIN calls -> Results]
  <2>1. PICK left : calls' = [i \in DOMAIN calls |->
                 [calls[i] EXCEPT !.res =
                     IF @ = "pending" THEN "cut"
                     ELSE IF @ = "ok" /\ calls[i].count # 0 /\ ~Holds(left, i)
                             /\ machine /\ ~calls[i].sync
                          THEN "lost" ELSE @]]
    BY DEF Crash
  <2> DEFINE res == [i \in DOMAIN calls |-> IF calls[i].res = "pending" THEN "cut"
                     ELSE IF calls[i].res = "ok" /\ calls[i].count # 0 /\ ~Holds(left, i)
                             /\ machine /\ ~calls[i].sync
                          THEN "lost" ELSE calls[i].res]
  <2>2. calls' = [i \in DOMAIN calls |-> [calls[i] EXCEPT !.res = res[i]]]
    BY <2>1
  <2>3. \A i \in DOMAIN calls : calls[i].res \in Results
    <3>1. \A i \in DOMAIN calls : calls[i] \in CallT
      BY <1>1
    <3> QED
      BY <3>1 DEF CallT
  <2>4. res \in [DOMAIN calls -> Results]
    BY <2>3 DEF Results
  <2> QED
    BY <2>2, <2>4
<1>3. ASSUME NEW i \in DOMAIN calls
      PROVE  /\ calls'[i] \in CallT /\ calls'[i].count = calls[i].count
             /\ calls'[i].sync = calls[i].sync
  <2>1. calls[i] \in CallT /\ res[i] \in Results
    BY <1>1, <1>2
  <2>2. calls'[i] = [calls[i] EXCEPT !.res = res[i]]
    BY <1>2
  <2> QED
    BY <2>1, <2>2 DEF CallT
<1>4. calls' \in [1..Len(calls) -> CallT]
  BY <1>1, <1>2, <1>3
<1>5. calls' \in Seq(CallT) /\ Len(calls') = Len(calls)
  BY <1>1, <1>4
<1>6. Down
  BY DEF Crash
<1> QED
  BY <1>1, <1>3, <1>5, <1>6

\* A thread in MakeRoomForWrite is the front of the queue and has no group.
LEMMA FrontAtHead ==
    ASSUME ThreadInv, NEW t \in Threads, pc[t] = "head"
    PROVE  /\ group = << >> /\ write_batch = {} /\ status = "ok" /\ IsFront(<<t>>)
           /\ writers_ # << >> /\ writers_[1] = t
<1>1. /\ \A u \in Threads : pc[u] \in Active => writers_ # << >> /\ writers_[1] = u
      /\ writers_ \in Seq(Threads)
  BY DEF ThreadInv, QueueInv, ThreadTypes
<1>2. writers_ # << >> /\ writers_[1] = t /\ Len(writers_) >= 1 /\ Len(writers_) \in Nat
  BY <1>1, EmptySeq DEF Active
<1>3. \A u \in Threads : pc[u] \notin Writing
  BY <1>1, <1>2 DEF Active, Writing
<1> QED
  BY <1>2, <1>3 DEF ThreadInv, GroupInv, IsFront

\* Every step keeps the queue in order.
LEMMA ThreadInvKept ==
    ASSUME ThreadInv, ClosedInv, [Next]_vars PROVE ThreadInv'
<1>100. /\ pc \in [Threads -> ThreadPcs] /\ call \in [Threads -> Nat]
        /\ done \subseteq Threads /\ cv \subseteq Threads /\ writers_ \in Seq(Threads)
        /\ calls \in Seq(CallT) /\ \A t \in Threads : call[t] <= Len(calls)
  BY DEF ThreadInv, ThreadTypes
<1>1. ASSUME NEW t \in Threads, NEW k \in 0..MaxCount, NEW s \in BOOLEAN, Enqueue(t, k, s)
      PROVE  ThreadInv'
  <2> DEFINE c == [count |-> k, sync |-> s, res |-> "pending"]
             n == Len(writers_)
  <2>1. c \in CallT /\ c.res = "pending"
    BY DEF CallT, Results
  <2>2. /\ calls' = Append(calls, c) /\ writers_' = Append(writers_, t)
        /\ UNCHANGED <<done, cv, group, write_batch, status>>
        /\ pc[t] = "idle" /\ call' = [call EXCEPT ![t] = Len(calls) + 1]
        /\ pc' \in [Threads -> ThreadPcs] /\ (writers_ = << >> => pc'[t] = "head")
        /\ (writers_ # << >> => pc'[t] = "cvwait")
        /\ \A u \in Threads : u # t => pc'[u] = pc[u]
    BY <1>1, <1>100 DEF Enqueue, ThreadPcs
  <2>3. /\ calls' \in Seq(CallT) /\ Len(calls') = Len(calls) + 1 /\ Len(calls) \in Nat
        /\ \A i \in 1..Len(calls) : calls'[i] = calls[i]
        /\ calls'[Len(calls) + 1] = c
    BY <1>100, <2>1, <2>2, AppendProperties
  <2>4. /\ writers_' \in Seq(Threads) /\ Len(writers_') = n + 1 /\ n \in Nat
        /\ \A i \in 1..n : writers_'[i] = writers_[i]
        /\ writers_'[n + 1] = t
    BY <1>100, <2>2, AppendProperties
  <2>5. n = 0 <=> writers_ = << >>
    BY <1>100, EmptySeq
  <2>6. \A i \in 1..n : /\ writers_[i] \in Threads /\ writers_[i] # t /\ writers_[i] \notin done
                        /\ call[writers_[i]] \in 1..Len(calls)
                        /\ calls[call[writers_[i]]].res = "pending"
                        /\ pc[writers_[i]] \in Active \cup {"cvwait"}
    <3>1. TAKE i \in 1..n
    <3>2. /\ writers_[i] \in Threads /\ writers_[i] \notin done /\ call[writers_[i]] > 0
          /\ calls[call[writers_[i]]].res = "pending" /\ pc[writers_[i]] \in Active \cup {"cvwait"}
      BY <1>100 DEF ThreadInv, QueueInv, Batch
    <3> QED
      BY <1>100, <2>2, <2>3, <3>2 DEF Active
  <2>7. t \notin done
    BY <2>2 DEF ThreadInv, QueueInv
  <2> HIDE DEF c, n
  <2>8. /\ call'[t] = Len(calls) + 1 /\ \A u \in Threads : u # t => call'[u] = call[u]
        /\ call' \in [Threads -> Nat]
    BY <1>100, <2>2, <2>3
  <2>9. ThreadTypes'
    BY <1>100, <2>2, <2>3, <2>4, <2>8 DEF ThreadTypes
  <2>10. \A i \in 1..n + 1 : i \in 1..n \/ i = n + 1
    BY <2>4
  <2>11. QueueInv'
    <3>1. ASSUME NEW i \in 1..Len(writers_'), NEW j \in 1..Len(writers_'), i < j
          PROVE  call'[writers_'[i]] < call'[writers_'[j]]
      <4>1. i \in 1..n
        BY <2>4, <3>1
      <4>2. CASE j \in 1..n
        <5>1. call[writers_[i]] < call[writers_[j]]
          BY <3>1, <4>1, <4>2 DEF ThreadInv, QueueInv, n
        <5> QED
          BY <2>4, <2>6, <2>8, <4>1, <4>2, <5>1
      <4>3. CASE j = n + 1
        BY <2>3, <2>4, <2>6, <2>8, <4>1, <4>3
      <4> QED
        BY <2>4, <2>10, <4>2, <4>3
    <3>2. ASSUME NEW i \in 1..Len(writers_')
          PROVE  /\ pc'[writers_'[i]] \in Active \cup {"cvwait"} /\ writers_'[i] \notin done'
                 /\ call'[writers_'[i]] > 0 /\ calls'[call'[writers_'[i]]].res = "pending"
      <4>1. CASE i \in 1..n
        <5>1. /\ writers_'[i] = writers_[i] /\ call'[writers_[i]] = call[writers_[i]]
              /\ pc'[writers_[i]] = pc[writers_[i]]
          BY <2>2, <2>4, <2>6, <2>8, <4>1
        <5> QED
          BY <2>2, <2>3, <2>6, <4>1, <5>1
      <4>2. CASE i = n + 1
        BY <2>1, <2>2, <2>3, <2>4, <2>7, <2>8, <4>2 DEF Active
      <4> QED
        BY <2>4, <2>10, <4>1, <4>2
    <3>3. ASSUME NEW u \in Threads, pc'[u] \in Active PROVE writers_' # << >> /\ writers_'[1] = u
      <4>1. writers_' # << >>
        BY <2>4, EmptySeq
      <4>2. CASE u = t
        <5>1. n = 0
          BY <2>2, <2>5, <3>3, <4>2 DEF Active
        <5> QED
          BY <2>4, <4>1, <4>2, <5>1
      <4>3. CASE u # t
        <5>1. writers_ # << >> /\ writers_[1] = u
          BY <2>2, <3>3, <4>3 DEF ThreadInv, QueueInv
        <5> QED
          BY <2>4, <2>5, <4>1, <5>1
      <4> QED
        BY <4>2, <4>3
    <3>4. ASSUME NEW u \in Threads, pc'[u] = "cvwait"
          PROVE  u \in done' \/ \E i \in 1..Len(writers_') : writers_'[i] = u
      <4>1. CASE u = t
        BY <2>4, <4>1
      <4>2. CASE u # t
        <5>1. u \in done \/ \E i \in 1..n : writers_[i] = u
          BY <2>2, <3>4, <4>2 DEF ThreadInv, QueueInv, n
        <5>2. 1..n \subseteq 1..Len(writers_')
          BY <2>4
        <5> QED
          BY <2>2, <2>4, <5>1, <5>2
      <4> QED
        BY <4>1, <4>2
    <3>5. \A u \in done' : pc'[u] = "cvwait"
      BY <1>100, <2>2, <2>7 DEF ThreadInv, QueueInv
    <3> QED
      BY <3>1, <3>2, <3>3, <3>4, <3>5 DEF QueueInv, Batch
  <2>12. GroupInv'
    <3>1. \A u \in Threads : pc'[u] \in Writing <=> pc[u] \in Writing
      BY <2>2 DEF Writing
    <3>2. ASSUME NEW u \in Threads, pc[u] \in Writing
          PROVE  /\ 1 <= Len(group) /\ Len(group) <= Len(writers_')
                 /\ \A i \in 1..Len(group) : group[i] = writers_'[i]
      <4>1. /\ 1 <= Len(group) /\ Len(group) <= n /\ Len(group) \in Nat
            /\ \A i \in 1..Len(group) : group[i] = writers_[i]
        BY <3>2 DEF ThreadInv, GroupInv, n
      <4> QED
        BY <2>4, <4>1
    <3> QED
      BY <2>2, <3>1, <3>2 DEF ThreadInv, GroupInv
  <2> QED
    BY <2>9, <2>11, <2>12 DEF ThreadInv
<1>2. ASSUME NEW t \in Threads, Wake(t) PROVE ThreadInv'
  <2>1. /\ pc[t] = "cvwait" /\ UNCHANGED <<calls, call, writers_, group, write_batch, status>>
        /\ cv' \subseteq Threads
    BY <1>2, <1>100 DEF Wake
  <2>2. CASE t \in done
    <3>1. /\ done' = done \ {t} /\ pc' \in [Threads -> ThreadPcs] /\ pc'[t] \in {"idle", "flushwait"}
          /\ \A u \in Threads : u # t => pc'[u] = pc[u]
      BY <1>2, <1>100, <2>2 DEF Wake, Returned, ThreadPcs
    <3>2. \A i \in 1..Len(writers_) : writers_[i] # t /\ writers_[i] \in Threads
      BY <1>100, <2>2 DEF ThreadInv, QueueInv
    <3>3. ThreadTypes'
      BY <1>100, <2>1, <3>1 DEF ThreadTypes
    <3>4. QueueInv'
      <4>1. \A i \in 1..Len(writers_) : pc'[writers_[i]] = pc[writers_[i]] /\ (writers_[i] \in done' => writers_[i] \in done)
        BY <3>1, <3>2
      <4>2. \A u \in Threads : pc'[u] \in Active => pc[u] \in Active
        BY <3>1 DEF Active
      <4>3. \A u \in Threads : pc'[u] = "cvwait" => pc[u] = "cvwait" /\ (u \in done => u \in done')
        BY <3>1
      <4>4. \A u \in done' : pc'[u] = "cvwait"
        BY <1>100, <3>1 DEF ThreadInv, QueueInv
      <4> QED
        BY <2>1, <4>1, <4>2, <4>3, <4>4 DEF ThreadInv, QueueInv, Batch
    <3>5. GroupInv'
      <4>1. \A u \in Threads : pc'[u] \in Writing <=> pc[u] \in Writing
        BY <2>1, <3>1 DEF Writing
      <4> QED
        BY <2>1, <4>1 DEF ThreadInv, GroupInv
    <3> QED
      BY <3>3, <3>4, <3>5 DEF ThreadInv
  <2>3. CASE t \notin done /\ Head(writers_) = t
    <3>1. /\ done' = done /\ pc' = [pc EXCEPT ![t] = "head"]
      BY <1>2, <2>3 DEF Wake
    <3>2. /\ pc' \in [Threads -> ThreadPcs] /\ pc'[t] = "head"
          /\ \A u \in Threads : u # t => pc'[u] = pc[u]
      BY <1>100, <3>1 DEF ThreadPcs
    <3>3. PICK i \in 1..Len(writers_) : writers_[i] = t
      BY <2>1, <2>3 DEF ThreadInv, QueueInv
    <3>4. writers_ # << >> /\ writers_[1] = t
      <4>1. writers_ # << >>
        BY <1>100, <3>3, EmptySeq
      <4> QED
        BY <1>100, <2>3, <4>1, HeadTailProperties
    <3>5. \A u \in Threads : pc[u] \notin Active
      BY <2>1, <3>4 DEF ThreadInv, QueueInv, Active
    <3>6. ThreadTypes'
      BY <1>100, <2>1, <3>1, <3>2 DEF ThreadTypes
    <3>7. QueueInv'
      <4>1. \A k \in 1..Len(writers_) : pc'[writers_[k]] \in Active \cup {"cvwait"}
        <5>1. TAKE k \in 1..Len(writers_)
        <5>2. writers_[k] \in Threads /\ pc[writers_[k]] \in Active \cup {"cvwait"}
          BY <1>100 DEF ThreadInv, QueueInv
        <5>3. "head" \in Active
          BY DEF Active
        <5> QED
          BY <3>2, <5>2, <5>3
      <4>2. \A u \in Threads : pc'[u] \in Active => writers_[1] = u
        BY <3>2, <3>4, <3>5
      <4>3. \A u \in Threads : pc'[u] = "cvwait" => pc[u] = "cvwait"
        BY <3>2
      <4>4. \A u \in done : pc'[u] = "cvwait"
        BY <1>100, <2>3, <3>2 DEF ThreadInv, QueueInv
      <4> QED
        BY <2>1, <3>1, <3>4, <4>1, <4>2, <4>3, <4>4 DEF ThreadInv, QueueInv, Batch
    <3>8. GroupInv'
      <4>1. \A u \in Threads : pc'[u] \in Writing <=> pc[u] \in Writing
        BY <2>1, <3>2 DEF Writing
      <4> QED
        BY <2>1, <4>1 DEF ThreadInv, GroupInv
    <3> QED
      BY <3>6, <3>7, <3>8 DEF ThreadInv
  <2>4. CASE t \notin done /\ Head(writers_) # t
    <3>1. UNCHANGED <<pc, done>>
      BY <1>2, <2>4 DEF Wake
    <3> QED
      BY <1>100, <2>1, <3>1, QueueFrame DEF SameRoles
  <2> QED
    BY <2>2, <2>3, <2>4
<1>3. ASSUME NEW t \in Threads, HeadDelay(t) PROVE ThreadInv'
  <2>1. /\ UNCHANGED <<calls, call, writers_, done, cv, group, write_batch>>
        /\ pc' \in [Threads -> ThreadPcs]
        /\ status' = status \/ pc[t] \in Writing
    BY <1>3, <1>100 DEF HeadDelay, queueVars, headVars, callVars, ThreadPcs, Writing
  <2>2. SameRoles(pc, pc')
    BY <1>3, <1>100 DEF HeadDelay, SameRoles, AtHead, MaySwitch, Active, Writing, callVars
  <2> QED
    BY <1>100, <2>1, <2>2, QueueFrame
<1>4. ASSUME NEW t \in Threads, HeadWait(t) PROVE ThreadInv'
  <2>1. /\ UNCHANGED <<calls, call, writers_, done, cv, group, write_batch>>
        /\ pc' \in [Threads -> ThreadPcs]
        /\ status' = status \/ pc[t] \in Writing
    BY <1>4, <1>100 DEF HeadWait, queueVars, headVars, callVars, ThreadPcs, Writing
  <2>2. SameRoles(pc, pc')
    BY <1>4, <1>100 DEF HeadWait, SameRoles, AtHead, MaySwitch, Active, Writing, callVars
  <2> QED
    BY <1>100, <2>1, <2>2, QueueFrame
<1>5. ASSUME NEW t \in Threads, HeadSwitch(t) PROVE ThreadInv'
  <2>1. /\ UNCHANGED <<calls, call, writers_, done, cv, group, write_batch>>
        /\ pc' \in [Threads -> ThreadPcs]
        /\ status' = status \/ pc[t] \in Writing
    BY <1>5, <1>100 DEF HeadSwitch, queueVars, headVars, callVars, ThreadPcs, Writing
  <2>2. SameRoles(pc, pc')
    BY <1>5, <1>100 DEF HeadSwitch, SameRoles, AtHead, MaySwitch, Active, Writing, callVars
  <2> QED
    BY <1>100, <2>1, <2>2, QueueFrame
<1>6. ASSUME NEW t \in Threads, AddRecord(t) PROVE ThreadInv'
  <2>1. /\ UNCHANGED <<calls, call, writers_, done, cv, group, write_batch>>
        /\ pc' \in [Threads -> ThreadPcs]
        /\ status' = status \/ pc[t] \in Writing
    BY <1>6, <1>100 DEF AddRecord, queueVars, headVars, callVars, ThreadPcs, Writing, writeUnchanged
  <2>2. SameRoles(pc, pc')
    BY <1>6, <1>100 DEF AddRecord, SameRoles, AtHead, MaySwitch, Active, Writing, callVars
  <2> QED
    BY <1>100, <2>1, <2>2, QueueFrame
<1>7. ASSUME NEW t \in Threads, SyncLog(t) PROVE ThreadInv'
  <2>1. /\ UNCHANGED <<calls, call, writers_, done, cv, group, write_batch>>
        /\ pc' \in [Threads -> ThreadPcs]
        /\ status' = status \/ pc[t] \in Writing
    BY <1>7, <1>100 DEF SyncLog, queueVars, headVars, callVars, ThreadPcs, Writing, writeUnchanged
  <2>2. SameRoles(pc, pc')
    BY <1>7, <1>100 DEF SyncLog, SameRoles, AtHead, MaySwitch, Active, Writing, callVars
  <2> QED
    BY <1>100, <2>1, <2>2, QueueFrame
<1>8. ASSUME NEW t \in Threads, InsertInto(t) PROVE ThreadInv'
  <2>1. /\ UNCHANGED <<calls, call, writers_, done, cv, group, write_batch>>
        /\ pc' \in [Threads -> ThreadPcs]
        /\ status' = status \/ pc[t] \in Writing
    BY <1>8, <1>100 DEF InsertInto, queueVars, headVars, callVars, ThreadPcs, Writing
  <2>2. SameRoles(pc, pc')
    BY <1>8, <1>100 DEF InsertInto, SameRoles, AtHead, MaySwitch, Active, Writing, callVars
  <2> QED
    BY <1>100, <2>1, <2>2, QueueFrame
<1>9. ASSUME NEW t \in Threads, FlushWait(t) PROVE ThreadInv'
  <2>1. /\ UNCHANGED <<calls, call, writers_, done, cv, group, write_batch>>
        /\ pc' \in [Threads -> ThreadPcs]
        /\ status' = status \/ pc[t] \in Writing
    BY <1>9, <1>100 DEF FlushWait, queueVars, headVars, callVars, ThreadPcs, Writing
  <2>2. SameRoles(pc, pc')
    BY <1>9, <1>100 DEF FlushWait, SameRoles, AtHead, MaySwitch, Active, Writing, callVars
  <2> QED
    BY <1>100, <2>1, <2>2, QueueFrame
<1>10. ASSUME NEW t \in Threads, HeadError(t) PROVE ThreadInv'
  <2>1. /\ pc[t] = "head" /\ AnswerGroup(t, <<t>>, "error")
        /\ pc' = [pc EXCEPT ![t] = "idle"] /\ UNCHANGED <<call, group, write_batch, status>>
    BY <1>10 DEF HeadError, MaySwitch, AtHead, headVars
  <2>2. group = << >> /\ write_batch = {} /\ status = "ok" /\ IsFront(<<t>>)
    BY <2>1, FrontAtHead
  <2>3. /\ pc' \in [Threads -> ThreadPcs] /\ pc'[t] = "idle"
        /\ \A u \in Threads \ {t} : pc'[u] = pc[u]
    BY <1>100, <2>1 DEF ThreadPcs
  <2>4. pc[t] \in Active /\ "error" \in Results
    BY <2>1 DEF Active, Results
  <2> QED
    BY <2>1, <2>2, <2>3, <2>4, GroupLeaves
<1>11. ASSUME NEW t \in Threads, HeadSwitchFails(t) PROVE ThreadInv'
  <2>1. /\ pc[t] = "head" /\ AnswerGroup(t, <<t>>, "error")
        /\ pc' = [pc EXCEPT ![t] = "idle"] /\ UNCHANGED <<call, group, write_batch, status>>
    BY <1>11 DEF HeadSwitchFails, MaySwitch, AtHead, headVars
  <2>2. group = << >> /\ write_batch = {} /\ status = "ok" /\ IsFront(<<t>>)
    BY <2>1, FrontAtHead
  <2>3. /\ pc' \in [Threads -> ThreadPcs] /\ pc'[t] = "idle"
        /\ \A u \in Threads \ {t} : pc'[u] = pc[u]
    BY <1>100, <2>1 DEF ThreadPcs
  <2>4. pc[t] \in Active /\ "error" \in Results
    BY <2>1 DEF Active, Results
  <2> QED
    BY <2>1, <2>2, <2>3, <2>4, GroupLeaves
<1>12. ASSUME NEW t \in Threads, HeadProceeds(t) PROVE ThreadInv'
  <2>1. pc[t] = "head" /\ UNCHANGED <<call, status>>
    BY <1>12 DEF HeadProceeds, AtHead
  <2>2. group = << >> /\ write_batch = {} /\ status = "ok" /\ IsFront(<<t>>)
    BY <2>1, FrontAtHead
  <2>3. CASE Batch(t).count = 0
    <3>1. /\ AnswerGroup(t, <<t>>, "ok") /\ UNCHANGED <<group, write_batch>>
          /\ pc' = [pc EXCEPT ![t] = "flushwait"]
      BY <1>12, <2>3 DEF HeadProceeds
    <3>2. /\ pc' \in [Threads -> ThreadPcs] /\ pc'[t] = "flushwait"
          /\ \A u \in Threads \ {t} : pc'[u] = pc[u]
      BY <1>100, <3>1 DEF ThreadPcs
    <3>3. pc[t] \in Active /\ "ok" \in Results
      BY <2>1 DEF Active, Results
    <3> QED
      BY <2>1, <2>2, <3>1, <3>2, <3>3, GroupLeaves
  <2>4. CASE Batch(t).count # 0
    <3>1. /\ group' = BuildBatchGroup /\ UNCHANGED <<calls, writers_, done, cv>>
          /\ pc' = [pc EXCEPT ![t] = "log"]
      BY <1>12, <2>4 DEF HeadProceeds, queueVars
    <3>2. /\ pc' \in [Threads -> ThreadPcs] /\ pc'[t] = "log"
          /\ \A u \in Threads \ {t} : pc'[u] = pc[u]
      BY <1>100, <3>1 DEF ThreadPcs
    <3>3. writers_ # << >> /\ writers_[1] = t
      BY <2>1 DEF ThreadInv, QueueInv, Active
    <3>4. IsFront(group')
      BY <3>1, <3>3, BuildBatchGroupFront
    <3>5. ThreadTypes'
      BY <1>100, <2>1, <3>1, <3>2 DEF ThreadTypes
    <3>6. QueueInv'
      <4>1. \A u \in Threads : /\ (pc[u] = "cvwait") <=> (pc'[u] = "cvwait")
                               /\ (pc[u] \in Active) <=> (pc'[u] \in Active)
        BY <2>1, <3>2 DEF Active
      <4>2. \A i \in 1..Len(writers_) : pc'[writers_[i]] \in Active \cup {"cvwait"}
        BY <1>100, <4>1 DEF ThreadInv, QueueInv
      <4>3. \A u \in done : pc'[u] = "cvwait"
        BY <1>100, <4>1 DEF ThreadInv, QueueInv
      <4> QED
        BY <2>1, <3>1, <4>1, <4>2, <4>3 DEF ThreadInv, QueueInv, Batch
    <3>7. GroupInv'
      <4>1. pc'[t] \in Writing
        BY <3>2 DEF Writing
      <4> QED
        BY <3>1, <3>4, <4>1 DEF GroupInv, IsFront
    <3> QED
      BY <3>5, <3>6, <3>7 DEF ThreadInv
  <2> QED
    BY <2>3, <2>4
<1>13. ASSUME NEW t \in Threads, FinishWrite(t) PROVE ThreadInv'
  <2>1. /\ pc[t] = "finish" /\ UNCHANGED call /\ group' = << >>
        /\ write_batch' = {} /\ status' = "ok"
    BY <1>13 DEF FinishWrite
  <2> DEFINE p == [pc EXCEPT ![t] = "idle"]
  <2>2. /\ p \in [Threads -> ThreadPcs] /\ p[t] = "idle"
        /\ \A u \in Threads \ {t} : p[u] = pc[u]
    BY <1>100 DEF ThreadPcs
  <2>3. pc' = p \/ pc' = Woken(p)
    BY <1>13 DEF FinishWrite, RecordBackgroundError
  <2> HIDE DEF p
  <2>4. \A u \in Threads \ {t} : p[u] # "bgwait"
    BY <2>1, <2>2 DEF ThreadInv, QueueInv, Active
  <2>5. /\ pc' \in [Threads -> ThreadPcs] /\ pc'[t] = "idle"
        /\ \A u \in Threads \ {t} :
             pc'[u] = pc[u] \/ (pc[u] = "flushbg" /\ pc'[u] = "flushwait")
    BY <2>2, <2>3, <2>4, WokenType DEF Woken
  <2>6. PICK r \in Results : AnswerGroup(t, group, r)
    BY <1>13 DEF FinishWrite, Results
  <2>7. IsFront(group) /\ pc[t] \in Active
    BY <2>1 DEF ThreadInv, GroupInv, IsFront, Active, Writing
  <2> QED
    BY <2>1, <2>5, <2>6, <2>7, GroupLeaves
<1>14. CASE Background
  <2>1. CASE BackgroundSkip
    <3>1. /\ UNCHANGED <<calls, call, writers_, done, cv, group, write_batch, status>>
          /\ pc' = pc \/ pc' = Woken(pc)
      BY <2>1 DEF BackgroundSkip, bgUnchanged, queueVars, headVars, FlushError, RecordBackgroundError
    <3> QED
      BY <3>1, QueueWoken
  <2>2. CASE CompactMemTable
    <3>1. /\ UNCHANGED <<calls, call, writers_, done, cv, group, write_batch, status>>
          /\ pc' = pc \/ pc' = Woken(pc)
      BY <2>2 DEF CompactMemTable, bgUnchanged, queueVars, headVars, FlushError, RecordBackgroundError
    <3> QED
      BY <3>1, QueueWoken
  <2>3. CASE BuildTable
    <3>1. /\ UNCHANGED <<calls, call, writers_, done, cv, group, write_batch, status>>
          /\ pc' = pc \/ pc' = Woken(pc)
      BY <2>3 DEF BuildTable, bgUnchanged, queueVars, headVars, FlushError, RecordBackgroundError
    <3> QED
      BY <3>1, QueueWoken
  <2>4. CASE FlushFails
    <3>1. /\ UNCHANGED <<calls, call, writers_, done, cv, group, write_batch, status>>
          /\ pc' = pc \/ pc' = Woken(pc)
      BY <2>4 DEF FlushFails, bgUnchanged, queueVars, headVars, FlushError, RecordBackgroundError
    <3> QED
      BY <3>1, QueueWoken
  <2>5. CASE WriteManifest
    <3>1. /\ UNCHANGED <<calls, call, writers_, done, cv, group, write_batch, status>>
          /\ pc' = pc \/ pc' = Woken(pc)
      BY <2>5 DEF WriteManifest, bgUnchanged, queueVars, headVars, FlushError, RecordBackgroundError
    <3> QED
      BY <3>1, QueueWoken
  <2>6. CASE Install
    <3>1. /\ UNCHANGED <<calls, call, writers_, done, cv, group, write_batch, status>>
          /\ pc' = pc \/ pc' = Woken(pc)
      BY <2>6 DEF Install, bgUnchanged, queueVars, headVars, FlushError, RecordBackgroundError
    <3> QED
      BY <3>1, QueueWoken
  <2>7. CASE InstallFails
    <3>1. /\ UNCHANGED <<calls, call, writers_, done, cv, group, write_batch, status>>
          /\ pc' = pc \/ pc' = Woken(pc)
      BY <2>7 DEF InstallFails, bgUnchanged, queueVars, headVars, FlushError, RecordBackgroundError
    <3> QED
      BY <3>1, QueueWoken
  <2>8. CASE RemoveFile
    <3>1. /\ UNCHANGED <<calls, call, writers_, done, cv, group, write_batch, status>>
          /\ pc' = pc \/ pc' = Woken(pc)
      BY <2>8 DEF RemoveFile, bgUnchanged, queueVars, headVars, FlushError, RecordBackgroundError
    <3> QED
      BY <3>1, QueueWoken
  <2>9. CASE RemoveDone
    <3>1. /\ UNCHANGED <<calls, call, writers_, done, cv, group, write_batch, status>>
          /\ pc' = pc \/ pc' = Woken(pc)
      BY <2>9 DEF RemoveDone, bgUnchanged, queueVars, headVars, FlushError, RecordBackgroundError
    <3> QED
      BY <3>1, QueueWoken
  <2>10. CASE BackgroundEnd
    <3>1. /\ UNCHANGED <<calls, call, writers_, done, cv, group, write_batch, status>>
          /\ pc' = pc \/ pc' = Woken(pc)
      BY <2>10 DEF BackgroundEnd, bgUnchanged, queueVars, headVars, FlushError, RecordBackgroundError
    <3> QED
      BY <3>1, QueueWoken
  <2>11. CASE StartCompaction
    <3>1. /\ UNCHANGED <<calls, call, writers_, done, cv, group, write_batch, status>>
          /\ pc' = pc \/ pc' = Woken(pc)
      BY <2>11 DEF StartCompaction, bgUnchanged, queueVars, headVars, FlushError, RecordBackgroundError
    <3> QED
      BY <3>1, QueueWoken
  <2>12. CASE OpenCompactionOutputFile
    <3>1. /\ UNCHANGED <<calls, call, writers_, done, cv, group, write_batch, status>>
          /\ pc' = pc \/ pc' = Woken(pc)
      BY <2>12 DEF OpenCompactionOutputFile, bgUnchanged, queueVars, headVars, FlushError, RecordBackgroundError
    <3> QED
      BY <3>1, QueueWoken
  <2>13. CASE FinishCompaction
    <3>1. /\ UNCHANGED <<calls, call, writers_, done, cv, group, write_batch, status>>
          /\ pc' = pc \/ pc' = Woken(pc)
      BY <2>13 DEF FinishCompaction, bgUnchanged, queueVars, headVars, FlushError, RecordBackgroundError
    <3> QED
      BY <3>1, QueueWoken
  <2>14. CASE AbandonCompaction
    <3>1. /\ UNCHANGED <<calls, call, writers_, done, cv, group, write_batch, status>>
          /\ pc' = pc \/ pc' = Woken(pc)
      BY <2>14 DEF AbandonCompaction, bgUnchanged, queueVars, headVars, FlushError, RecordBackgroundError
    <3> QED
      BY <3>1, QueueWoken
  <2>15. ASSUME NEW l \in BOOLEAN, FlushEdit(l) PROVE ThreadInv'
    <3>1. /\ UNCHANGED <<calls, call, writers_, done, cv, group, write_batch, status>>
          /\ pc' = pc
      BY <2>15 DEF FlushEdit, bgUnchanged, queueVars, headVars
    <3> QED
      BY <3>1, QueueWoken
  <2> QED
    BY <1>14, <2>1, <2>2, <2>3, <2>4, <2>5, <2>6, <2>7, <2>8, <2>9, <2>10, <2>11, <2>12, <2>13, <2>14, <2>15 DEF Background
<1>15. CASE StartClose
  <2>1. UNCHANGED <<calls, call, writers_, done, cv, group, write_batch, status>> /\ pc' = pc
    BY <1>15 DEF StartClose, callVars, queueVars, headVars
  <2> QED
    BY <2>1, QueueWoken
<1>16. CASE StartRecover
  <2>1. UNCHANGED <<calls, call, writers_, done, cv, group, write_batch, status>> /\ pc' = pc
    BY <1>16 DEF StartRecover, callVars, queueVars, headVars
  <2> QED
    BY <2>1, QueueWoken
<1>17. CASE RecoverLogFile
  <2>1. UNCHANGED <<calls, call, writers_, done, cv, group, write_batch, status>> /\ pc' = pc
    BY <1>17 DEF RecoverLogFile, callVars, queueVars, headVars
  <2> QED
    BY <2>1, QueueWoken
<1>18. CASE NewLog
  <2>1. UNCHANGED <<calls, call, writers_, done, cv, group, write_batch, status>> /\ pc' = pc
    BY <1>18 DEF NewLog, callVars, queueVars, headVars
  <2> QED
    BY <2>1, QueueWoken
<1>19. CASE FinishOpen
  <2>1. UNCHANGED <<calls, call, writers_, done, cv, group, write_batch, status>> /\ pc' = pc
    BY <1>19 DEF FinishOpen, callVars, queueVars, headVars
  <2> QED
    BY <2>1, QueueWoken
<1>20. CASE OpenFails
  <2>1. UNCHANGED <<calls, call, writers_, done, cv, group, write_batch, status>> /\ pc' = pc
    BY <1>20 DEF OpenFails, callVars, queueVars, headVars
  <2> QED
    BY <2>1, QueueWoken
<1>21. CASE FinishClose
  <2>1. UNCHANGED calls /\ Down
    BY <1>21 DEF FinishClose
  <2> QED
    BY <1>100, <2>1, QueueGone
<1>22. ASSUME NEW machine \in BOOLEAN, Crash(machine) PROVE ThreadInv'
  <2>1. Down /\ calls' \in Seq(CallT) /\ Len(calls') = Len(calls)
    BY <1>22, CrashCalls
  <2> QED
    BY <2>1, QueueGone
<1>23. CASE UNCHANGED vars
  <2>1. UNCHANGED <<calls, call, writers_, done, cv, group, write_batch, status>> /\ pc' = pc
    BY <1>23 DEF vars, callVars, queueVars, headVars
  <2> QED
    BY <2>1, QueueWoken
<1> QED
  BY <1>1, <1>2, <1>3, <1>4, <1>5, <1>6, <1>7, <1>8, <1>9, <1>10, <1>11, <1>12, <1>13, <1>14, <1>15, <1>16, <1>17, <1>18, <1>19, <1>20, <1>21, <1>22, <1>23 DEF Next, Write, Open

\* Every step keeps a closed DB quiet.
LEMMA ClosedInvKept ==
    ASSUME ThreadInv, ClosedInv, [Next]_vars PROVE ClosedInv'
<1> USE DEF openVars
<1>1. ASSUME NEW t \in Threads, NEW k \in 0..MaxCount, NEW s \in BOOLEAN, Enqueue(t, k, s)
      PROVE  ClosedInv'
  BY <1>1 DEF Enqueue, ClosedInv
<1>2. ASSUME NEW t \in Threads, Write(t) \/ HeadSwitchFails(t) PROVE ClosedInv'
  <2>1. pc[t] # "idle"
    BY <1>2 DEF Write, Wake, HeadError, HeadDelay, HeadWait, HeadSwitch, HeadSwitchFails,
        HeadProceeds, AddRecord, SyncLog, InsertInto, FinishWrite, FlushWait, MaySwitch, AtHead
  <2>2. UNCHANGED mode
    BY <1>2 DEF Write, Wake, HeadError, HeadDelay, HeadWait, HeadSwitch, HeadSwitchFails,
        HeadProceeds, AddRecord, SyncLog, InsertInto, FinishWrite, FlushWait, writeUnchanged
  <2> QED
    BY <2>1, <2>2 DEF ClosedInv
<1>3. CASE Background
  <2>1. bgpc # "idle" \/ scheduled
    BY <1>3 DEF Background, BackgroundSkip, CompactMemTable, BuildTable, FlushEdit, FlushFails,
        WriteManifest, Install, InstallFails, RemoveFile, RemoveDone, BackgroundEnd,
        StartCompaction, OpenCompactionOutputFile, FinishCompaction, AbandonCompaction
  <2>2. UNCHANGED mode
    BY <1>3 DEF Background, BackgroundSkip, CompactMemTable, BuildTable, FlushEdit, FlushFails,
        WriteManifest, Install, InstallFails, RemoveFile, RemoveDone, BackgroundEnd,
        StartCompaction, OpenCompactionOutputFile, FinishCompaction, AbandonCompaction, bgUnchanged
  <2> QED
    BY <2>1, <2>2 DEF ClosedInv
<1>4. CASE StartClose
  BY <1>4 DEF StartClose, ClosedInv
<1>5. CASE Down
  <2>1. /\ pc' = [t \in Threads |-> "idle"] /\ writers_' = << >> /\ imm_' = None
        /\ pending_outputs_' = {} /\ shutting_down_' = FALSE /\ scheduled' = FALSE
        /\ bgpc' = "idle"
    BY <1>5 DEF Down
  <2> QED
    BY <2>1 DEF ClosedInv
<1>6. CASE StartRecover \/ RecoverLogFile \/ NewLog \/ OpenFails
  <2>1. /\ mode # "open"
        /\ UNCHANGED <<pc, writers_, imm_, pending_outputs_, shutting_down_, scheduled, bgpc>>
    BY <1>6 DEF StartRecover, RecoverLogFile, NewLog, OpenFails, callVars, queueVars, bgVars, flagVars
  <2> QED
    BY <2>1 DEF ClosedInv
<1>7. CASE FinishOpen
  BY <1>7 DEF FinishOpen, ClosedInv
<1>8. CASE UNCHANGED vars
  BY <1>8 DEF vars, callVars, queueVars, memVars, bgVars, flagVars, ClosedInv
<1> QED
  BY <1>1, <1>2, <1>3, <1>4, <1>5, <1>6, <1>7, <1>8 DEF Next, Open, FinishClose, Crash

\* Every step keeps the files the versions name.
LEMMA FilesPartKept ==
    ASSUME ThreadInv, FilesInv, [Next]_vars PROVE FilesPart'
<1> USE DEF otherFileVars
<1>100. /\ FilesPart /\ bg_error_ \in BOOLEAN /\ shutting_down_ \in BOOLEAN /\ scheduled \in BOOLEAN
  BY DEF FilesInv, FilesPart, FileTypes
<1>1. ASSUME NEW t \in Threads, NEW k \in 0..MaxCount, NEW s \in BOOLEAN, Enqueue(t, k, s)
      PROVE  FilesPart'
  <2>1. /\ UNCHANGED otherFileVars
        /\ UNCHANGED <<bg_error_, shutting_down_, scheduled>>
    BY <1>1 DEF Enqueue, memVars, versionVars, bgVars, flagVars, openVars, diskVars
  <2> QED
    BY <1>100, <2>1, Frame
<1>2. ASSUME NEW t \in Threads, Wake(t) PROVE FilesPart'
  <2>1. /\ UNCHANGED otherFileVars
        /\ UNCHANGED <<bg_error_, shutting_down_, scheduled>>
    BY <1>2 DEF Wake, memVars, versionVars, bgVars, flagVars, openVars, diskVars
  <2> QED
    BY <1>100, <2>1, Frame
<1>3. ASSUME NEW t \in Threads, HeadError(t) PROVE FilesPart'
  <2>1. /\ UNCHANGED otherFileVars
        /\ UNCHANGED <<bg_error_, shutting_down_, scheduled>>
    BY <1>3 DEF HeadError, memVars, versionVars, bgVars, flagVars, openVars, diskVars
  <2> QED
    BY <1>100, <2>1, Frame
<1>4. ASSUME NEW t \in Threads, HeadDelay(t) PROVE FilesPart'
  <2>1. /\ UNCHANGED otherFileVars
        /\ UNCHANGED <<bg_error_, shutting_down_, scheduled>>
    BY <1>4 DEF HeadDelay, memVars, versionVars, bgVars, flagVars, openVars, diskVars
  <2> QED
    BY <1>100, <2>1, Frame
<1>5. ASSUME NEW t \in Threads, HeadWait(t) PROVE FilesPart'
  <2>1. /\ UNCHANGED otherFileVars
        /\ UNCHANGED <<bg_error_, shutting_down_, scheduled>>
    BY <1>5 DEF HeadWait, memVars, versionVars, bgVars, flagVars, openVars, diskVars
  <2> QED
    BY <1>100, <2>1, Frame
<1>6. ASSUME NEW t \in Threads, HeadProceeds(t) PROVE FilesPart'
  <2>1. /\ UNCHANGED otherFileVars
        /\ UNCHANGED <<bg_error_, shutting_down_, scheduled>>
    BY <1>6 DEF HeadProceeds, memVars, versionVars, bgVars, flagVars, openVars, diskVars
  <2> QED
    BY <1>100, <2>1, Frame
<1>7. ASSUME NEW t \in Threads, AddRecord(t) PROVE FilesPart'
  <2>1. /\ UNCHANGED otherFileVars
        /\ UNCHANGED <<bg_error_, shutting_down_, scheduled>>
    BY <1>7 DEF AddRecord, memVars, versionVars, bgVars, flagVars, openVars, diskVars, writeUnchanged
  <2> QED
    BY <1>100, <2>1, Frame
<1>8. ASSUME NEW t \in Threads, SyncLog(t) PROVE FilesPart'
  <2>1. /\ UNCHANGED otherFileVars
        /\ UNCHANGED <<bg_error_, shutting_down_, scheduled>>
    BY <1>8 DEF SyncLog, memVars, versionVars, bgVars, flagVars, openVars, diskVars, writeUnchanged
  <2> QED
    BY <1>100, <2>1, Frame
<1>9. ASSUME NEW t \in Threads, InsertInto(t) PROVE FilesPart'
  <2>1. /\ UNCHANGED otherFileVars
        /\ UNCHANGED <<bg_error_, shutting_down_, scheduled>>
    BY <1>9 DEF InsertInto, memVars, versionVars, bgVars, flagVars, openVars, diskVars
  <2> QED
    BY <1>100, <2>1, Frame
<1>10. ASSUME NEW t \in Threads, FlushWait(t) PROVE FilesPart'
  <2>1. /\ UNCHANGED otherFileVars
        /\ UNCHANGED <<bg_error_, shutting_down_, scheduled>>
    BY <1>10 DEF FlushWait, memVars, versionVars, bgVars, flagVars, openVars, diskVars
  <2> QED
    BY <1>100, <2>1, Frame
<1>11. ASSUME NEW t \in Threads, HeadSwitchFails(t) PROVE FilesPart'
  <2>1. /\ UNCHANGED otherFileVars
        /\ UNCHANGED <<bg_error_, shutting_down_, scheduled>>
    BY <1>11 DEF HeadSwitchFails, memVars, versionVars, bgVars, flagVars, openVars, diskVars
  <2> QED
    BY <1>100, <2>1, Frame
<1>12. ASSUME NEW t \in Threads, FinishWrite(t) PROVE FilesPart'
  <2>1. /\ UNCHANGED otherFileVars /\ UNCHANGED <<shutting_down_, scheduled>>
        /\ bg_error_' = bg_error_ \/ bg_error_' = TRUE
    BY <1>12 DEF FinishWrite, RecordBackgroundError, memVars, versionVars, bgVars, flagVars, openVars, diskVars
  <2> QED
    BY <1>100, <2>1, Frame
<1>13. ASSUME NEW t \in Threads, HeadSwitch(t) PROVE FilesPart'
  BY <1>13, HeadSwitchFiles
<1>14. CASE BackgroundSkip
  <2>1. UNCHANGED otherFileVars /\ UNCHANGED <<bg_error_, shutting_down_>> /\ scheduled' = FALSE
    BY <1>14 DEF BackgroundSkip, bgUnchanged, memVars, versionVars, bgVars, flagVars, openVars, diskVars
  <2> QED
    BY <1>100, <2>1, Frame
<1>15. CASE Background /\ ~BackgroundSkip
  BY <1>15, CompactMemTableFiles, BuildTableFiles, FlushFailsFiles, WriteManifestFiles,
      InstallFiles, InstallFailsFiles, RemoveFileFiles, RemoveDoneFiles,
      BackgroundEndFiles, StartCompactionFiles, OpenCompactionOutputFileFiles, FinishCompactionFiles,
      AbandonCompactionFiles,
      FlushEditFiles DEF Background
<1>16. CASE StartClose
  <2>1. UNCHANGED otherFileVars /\ UNCHANGED <<bg_error_, scheduled>> /\ shutting_down_' = TRUE
    BY <1>16 DEF StartClose, memVars, versionVars, bgVars, flagVars, openVars, diskVars
  <2> QED
    BY <1>100, <2>1, Frame
<1>17. CASE FinishClose
  <2>1. Down /\ DOMAIN logs' = DOMAIN logs /\ manifest' = manifest
    BY <1>17 DEF FinishClose
  <2> QED
    BY <2>1, DownFiles
<1>18. ASSUME NEW machine \in BOOLEAN, Crash(machine) PROVE FilesPart'
  <2>1. /\ Down /\ DOMAIN logs' = DOMAIN logs
        /\ manifest' = manifest \/ (manifest' = TornManifest /\ "tear" \in Faults)
    BY <1>18 DEF Crash, ManifestKept
  <2> QED
    BY <2>1, DownFiles
<1>19. CASE Open \/ OpenFails
  BY <1>19, StartRecoverFiles, RecoverLogFileFiles, NewLogFiles, FinishOpenFiles, OpenFailsFiles DEF Open
<1>20. CASE UNCHANGED vars
  <2>1. /\ UNCHANGED otherFileVars
        /\ UNCHANGED <<bg_error_, shutting_down_, scheduled>>
    BY <1>20 DEF vars, memVars, versionVars, bgVars, flagVars, openVars, diskVars
  <2> QED
    BY <1>100, <2>1, Frame
<1> QED
  BY <1>1, <1>2, <1>3, <1>4, <1>5, <1>6, <1>7, <1>8, <1>9, <1>10, <1>11, <1>12, <1>13, <1>14, <1>15, <1>16, <1>17, <1>18, <1>19, <1>20 DEF Next, Write

\* The inductive invariant: the queue and its group; the files and versions.
WritePathInv == ThreadInv /\ FilesInv

\* It holds of a new DB.
LEMMA WritePathInit == Init => WritePathInv
<1> SUFFICES ASSUME Init PROVE WritePathInv
  OBVIOUS
<1>1. /\ calls = << >> /\ pc = [t \in Threads |-> "idle"] /\ call = [t \in Threads |-> 0]
      /\ writers_ = << >> /\ done = {} /\ cv = {} /\ group = << >> /\ write_batch = {}
      /\ status = "ok"
  BY DEF Init
<1>2. /\ imm_ = None /\ logfile_number_ = 3 /\ next_file_number_ = 4 /\ log_number_ = 3
      /\ current = EmptyVersion /\ pending_outputs_ = {} /\ bg_error_ = FALSE
      /\ shutting_down_ = FALSE /\ scheduled = FALSE /\ bgpc = "idle" /\ flushing = NoFile
      /\ compacting = None /\ edit = NoEdit /\ garbage = {} /\ mode = "open" /\ rlogs = {}
      /\ tables = << >> /\ DOMAIN logs = {3}
      /\ manifest.version = EmptyVersion /\ manifest.log_number = 3 /\ manifest.next_file = 4
      /\ manifest.torn = "no"
      /\ manifest = [version |-> manifest.version, log_number |-> manifest.log_number,
                     next_file |-> manifest.next_file, last_sequence |-> 0, torn |-> "no"]
  BY DEF Init
<1>3. DOMAIN tables = {}
  BY <1>2
<1>4. /\ EmptyVersion \in Version /\ Files(EmptyVersion) = {} /\ NoEdit \in EditT
  BY DEF EmptyVersion, Version, Files, NoEdit, EditT, NoFile
<1>5. \A t \in Threads : pc[t] = "idle" /\ pc[t] \notin Active /\ pc[t] \notin Writing
  BY <1>1 DEF Active, Writing
<1>6. ThreadTypes
  BY <1>1 DEF ThreadTypes, ThreadPcs
<1>7. QueueInv
  BY <1>1, <1>5 DEF QueueInv
<1>8. GroupInv
  BY <1>1, <1>5 DEF GroupInv
<1>9. FileTypes
  <2>1. bgpc \in BgPcs /\ flushing \in Nat
    BY <1>2 DEF BgPcs, NoFile
  <2>2. DOMAIN logs \subseteq Nat /\ DOMAIN tables \subseteq Nat
    BY <1>2, <1>3
  <2>3. /\ logfile_number_ \in Nat /\ next_file_number_ \in Nat /\ log_number_ \in Nat
        /\ manifest.log_number \in Nat /\ manifest.next_file \in Nat
        /\ current \in Version /\ edit \in EditT /\ manifest.version \in Version
    BY <1>2, <1>4
  <2>4. /\ pending_outputs_ \subseteq Nat /\ bg_error_ \in BOOLEAN /\ shutting_down_ \in BOOLEAN
        /\ scheduled \in BOOLEAN /\ mode \in {"open", "recover", "down"} /\ rlogs \subseteq Nat
        /\ imm_ = None /\ compacting = None
    BY <1>2
  <2> QED
    BY <2>1, <2>2, <2>3, <2>4, <1>2 DEF FileTypes
<1>10. ManifestInv /\ DownInv /\ RecoverInv /\ ClosedInv /\ GarbageInv
  BY <1>2, <1>3, <1>4 DEF ManifestInv, DownInv, RecoverInv, ClosedInv, GarbageInv
<1>11. OpenInv
  BY <1>2, <1>3, <1>4 DEF OpenInv
<1>12. BackgroundInv /\ AgreeInv
  BY <1>2, <1>3, <1>4 DEF BackgroundInv, AgreeInv, Busy, OutOpen
<1> QED
  BY <1>6, <1>7, <1>8, <1>9, <1>10, <1>11, <1>12 DEF WritePathInv, ThreadInv, FilesInv, FilesPart

\* Every step of the write path, the background thread and an open keeps it.
LEMMA WritePathNext == WritePathInv /\ [Next]_vars => WritePathInv'
<1> SUFFICES ASSUME WritePathInv, [Next]_vars PROVE WritePathInv'
  OBVIOUS
<1>1. ThreadInv /\ FilesInv /\ ClosedInv
  BY DEF WritePathInv, FilesInv
<1> QED
  BY <1>1, ThreadInvKept, ClosedInvKept, FilesPartKept DEF WritePathInv, FilesInv

\* So it always holds.
LEMMA WritePathInvariant == Spec => []WritePathInv
  BY WritePathInit, WritePathNext, PTL DEF Spec

\* The state of DBImpl keeps its types, and an open DB's next file number is
\* above every file on the disk, whatever fails or crashes (NewFileNumber,
\* MarkFileNumberUsed).
THEOREM WritePathTypes == Spec => []TypeOK
<1>1. WritePathInv => TypeOK
  <2> SUFFICES ASSUME WritePathInv PROVE TypeOK
    OBVIOUS
  <2>1. ThreadTypes /\ FileTypes /\ OpenInv
    BY DEF WritePathInv, ThreadInv, FilesInv, FilesPart
  <2>2. \A i \in DOMAIN calls :
          /\ calls[i].count \in 0..MaxCount /\ calls[i].sync \in BOOLEAN
          /\ calls[i].res \in Results
    <3>1. \A i \in DOMAIN calls : calls[i] \in CallT
      BY <2>1 DEF ThreadTypes
    <3> QED
      BY <3>1 DEF CallT
  <2>3. pc \in [Threads -> ThreadPcs] /\ call \in [Threads -> 0..Len(calls)]
    BY <2>1 DEF ThreadTypes
  <2>4. Len(imm_) <= 1 /\ Len(compacting) <= 1
    <3>1. imm_ = << >> \/ \E m : imm_ = <<m>>
      BY <2>1 DEF FileTypes, None
    <3>2. compacting = << >> \/ \E m : compacting = <<m>>
      BY <2>1 DEF FileTypes, None
    <3>4. Len(imm_) <= 1
      <4>1. CASE imm_ = << >>
        BY <4>1
      <4>2. ASSUME NEW m, imm_ = <<m>> PROVE Len(imm_) <= 1
        BY <4>2
      <4> QED
        BY <3>1, <4>1, <4>2
    <3>5. Len(compacting) <= 1
      <4>1. CASE compacting = << >>
        BY <4>1
      <4>2. ASSUME NEW m, compacting = <<m>> PROVE Len(compacting) <= 1
        BY <4>2
      <4> QED
        BY <3>2, <4>1, <4>2
    <3> QED
      BY <3>4, <3>5
  <2>5. /\ \A i \in DOMAIN writers_ : writers_[i] \in Threads
        /\ done \subseteq Threads /\ cv \subseteq Threads
    BY <2>1 DEF ThreadTypes
  <2>6. bgpc \in BgPcs /\ mode \in {"open", "recover", "down"}
        /\ (mode = "open" => \A n \in DOMAIN logs \cup DOMAIN tables : n < next_file_number_)
    BY <2>1 DEF FileTypes, OpenInv
  <2> QED
    BY <2>2, <2>3, <2>4, <2>5, <2>6 DEF TypeOK, Results, ThreadPcs, BgPcs
<1> QED
  BY <1>1, WritePathInvariant, PTL

\* The invariant holds the files a version names.
LEMMA LiveFromInv == NewManifests /\ WritePathInv => LiveFilesExist
<1> SUFFICES ASSUME NewManifests, WritePathInv PROVE LiveFilesExist
  OBVIOUS
<1>1. FilesPart
  BY DEF WritePathInv, FilesInv
<1>2. Files(manifest.version) \subseteq DOMAIN tables
  BY <1>1 DEF FilesPart, ManifestInv
<1>3. Files(current) \subseteq DOMAIN tables
  <2>1. CASE mode = "open"
    BY <1>1, <2>1 DEF FilesPart, OpenInv
  <2>2. CASE mode = "recover"
    BY <1>1, <1>2, <2>2 DEF FilesPart, RecoverInv
  <2>3. CASE mode = "down"
    BY <1>1, <2>3 DEF FilesPart, DownInv, EmptyVersion, Files
  <2> QED
    BY <1>1, <2>1, <2>2, <2>3 DEF FilesPart, FileTypes
<1>4. mode = "open" => logfile_number_ \in DOMAIN logs
  BY <1>1 DEF FilesPart, OpenInv
<1>5. bgpc \in {"manifest", "install"} => edit.add \subseteq DOMAIN tables
  BY <1>1 DEF FilesPart, BackgroundInv, Busy
<1> QED
  BY <1>2, <1>3, <1>4, <1>5 DEF LiveFilesExist

\* RemoveObsoleteFiles never deletes a table of the version or of the manifest,
\* the log in use or an output being installed, whatever fails, crashes or runs
\* meanwhile (pending_outputs_, log_number_), as long as no manifest torn by a
\* crash or a failed append is appended to by a later opening (reuse_logs).
THEOREM NoLiveFileIsDeleted ==
    ASSUME NewManifests
    PROVE  Spec => []LiveFilesExist
<1>1. WritePathInv => LiveFilesExist
  BY LiveFromInv
<1> QED
  BY <1>1, WritePathInvariant, PTL
=============================================================================
