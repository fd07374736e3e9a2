----------------------------- MODULE Compaction -----------------------------
(***************************************************************************)
(* The levels of tables of the on-device leveldb: how memtables are placed *)
(* in levels, how compactions are picked and carried out, how manual       *)
(* compaction interacts with them, and what a reader finds meanwhile       *)
(* (db/version_set.cc and the compaction half of db/db_impl.cc).           *)
(*                                                                         *)
(* Only the background thread installs versions, so what it does between   *)
(* two installations is one step per installation; the steps in which it   *)
(* has released the mutex (a compaction under way) are separate phases in  *)
(* which writers, readers, snapshots and memtable flushes run.  A table is *)
(* the set of entries it holds, a size is a number of entries.  The write  *)
(* queue, the log and the manifest are the subject of WritePath.           *)
(***************************************************************************)
EXTENDS Integers, Sequences, FiniteSets, FiniteSetsExt, SequencesExt

CONSTANTS
    MaxKey,                 \* user keys are 1..MaxKey, in comparator order
    MaxSequence,            \* bound: sequence numbers are 1..MaxSequence
    NumLevels,              \* config::kNumLevels
    MaxMemCompactLevel,     \* config::kMaxMemCompactLevel
    L0_CompactionTrigger,   \* config::kL0_CompactionTrigger
    MaxBytesForLevel,       \* size limit of levels 1 and up
    TargetFileSize,         \* options.max_file_size
    MaxGrandParentOverlap,  \* MaxGrandParentOverlapBytes
    ExpandedCompactionLimit,\* ExpandedCompactionByteSizeLimit
    AllowedSeeks,           \* reads that charge a file before it is compacted
    ManualRanges,           \* the ranges <<begin, end>> CompactRange is called with
    Starts                  \* the levels when the database is opened, with how many
                            \* writes, reads, snapshots, manual calls, failures and
                            \* restarts follow (bound)

ASSUME CompactionAssumption ==
    /\ {MaxKey, MaxSequence, TargetFileSize, AllowedSeeks} \subseteq Nat \ {0}
    /\ NumLevels \in Nat /\ MaxMemCompactLevel \in 1..(NumLevels - 2)
    /\ \A r \in ManualRanges : r \in (0..MaxKey) \X (1..(MaxKey + 1))

VARIABLES
    mem,            \* entries of mem_
    imm,            \* << >> when imm_ is null, else << its entries >>
    last_sequence,  \* VersionSet::last_sequence_
    current,        \* VersionSet::current_: for each level its set of files
    compact_pointer,\* compact_pointer_[level]: << >> or << internal key >>
    file_to_compact,\* file_to_compact_ of current: << >> or << level, file >>
    seeks,          \* allowed_seeks of the files that were charged
    next_file,      \* next_file_number_
    disk,           \* numbers of the table files in the directory
    pending,        \* pending_outputs_
    bg,             \* the background thread: idle, or its compaction and phase
    manual,         \* manual_compaction_: << >> or << range of one level >>
    caller,         \* the thread inside CompactRange
    readers,        \* reads in progress, with the state they hold references to
    snapshots,      \* sequence numbers of snapshots_, oldest first
    budget,         \* how many of each are left (the bounds)
    written         \* every entry ever written (specification only)

vars == <<mem, imm, last_sequence, current, compact_pointer, file_to_compact,
          seeks, next_file, disk, pending, bg, manual, caller, readers,
          snapshots, budget, written>>

Keys   == 1..MaxKey
Levels == 0..(NumLevels - 1)
Entry  == [k : Keys, s : 1..MaxSequence, del : BOOLEAN]

-----------------------------------------------------------------------------
(* Internal keys, files and versions. *)

\* InternalKeyComparator::Compare: user keys ascending, sequences descending.
Before(a, b) == a.k < b.k \/ (a.k = b.k /\ a.s > b.s)
AtMost(a, b) == ~Before(b, a)

Smallest(f) == CHOOSE e \in f.data : \A x \in f.data : AtMost(e, x)
Largest(f)  == CHOOSE e \in f.data : \A x \in f.data : AtMost(x, e)

\* Builder::BySmallestKey
BySmallestKey(f, g) ==
    \/ Before(Smallest(f), Smallest(g))
    \/ Smallest(f) = Smallest(g) /\ f.num < g.num

\* The vector files_[level] of a version.
FilesOf(v, level) == SetToSortSeq(v[level], BySmallestKey)

FileNumbers(v) == {f.num : f \in UNION {v[l] : l \in Levels}}

TotalFileSize(files) == MapThenSumSet(LAMBDA f : Cardinality(f.data), files)

\* FindFile: binary search for the first file whose largest key is >= ikey
\* (an index from 0, Len(files) when there is none).
FindFile(files, ikey) ==
    LET Search[lr \in (0..Len(files)) \X (0..Len(files))] ==
            LET mid == (lr[1] + lr[2]) \div 2 IN
            IF lr[1] >= lr[2] THEN lr[2]
            ELSE IF Before(Largest(files[mid + 1]), ikey)
                 THEN Search[<<mid + 1, lr[2]>>]
                 ELSE Search[<<lr[1], mid>>]
    IN  Search[<<0, Len(files)>>]

\* A null begin is 0, a null end is MaxKey + 1.
AfterFile(begin, f) == begin > Largest(f).k
BeforeFile(end, f)  == end < Smallest(f).k

\* SomeFileOverlapsRange: every file of level 0, a binary search elsewhere.
OverlapInLevel(v, level, begin, end) ==
    LET files == FilesOf(v, level)
        index == FindFile(files, [k |-> begin, s |-> MaxSequence + 1])
    IN  IF level = 0
        THEN \E f \in v[0] : ~AfterFile(begin, f) /\ ~BeforeFile(end, f)
        ELSE index < Len(files) /\ ~BeforeFile(end, files[index + 1])

\* GetOverlappingInputs: on level 0 the range grows with every file it takes in.
GetOverlappingInputs(v, level, begin, end) ==
    LET In(b, e) == {f \in v[level] : ~AfterFile(b, f) /\ ~BeforeFile(e, f)}
        Grow[r \in (0..MaxKey) \X (0..(MaxKey + 1))] ==
            LET fs == In(r[1], r[2])
                nb == Min({r[1]} \cup {Smallest(f).k : f \in fs})
                ne == Max({r[2]} \cup {Largest(f).k : f \in fs})
            IN  IF level = 0 /\ <<nb, ne>> # r THEN Grow[<<nb, ne>>] ELSE fs
    IN  SetToSortSeq(Grow[<<begin, end>>], BySmallestKey)

OverlappingBytes(v, level, begin, end) ==
    TotalFileSize(ToSet(GetOverlappingInputs(v, level, begin, end)))

\* Mutant: as deep as possible whenever level 0 allows it.
PickLevelUnchecked(v, begin, end) ==
    IF OverlapInLevel(v, 0, begin, end) THEN 0 ELSE MaxMemCompactLevel

\* PickLevelForMemTableOutput
PickLevelForMemTableOutput(v, begin, end) ==
    LET MayPush(level) ==
            /\ ~OverlapInLevel(v, level + 1, begin, end)
            /\ level + 2 < NumLevels =>
                 OverlappingBytes(v, level + 2, begin, end) <= MaxGrandParentOverlap
        Reach == {l \in 0..MaxMemCompactLevel : \A m \in 0..(l - 1) : MayPush(m)}
    IN  IF OverlapInLevel(v, 0, begin, end) THEN 0 ELSE Max(Reach)

\* VersionSet::Builder: deleted files leave, added files enter (an added file
\* is no longer counted as deleted).
ApplyEdit(v, deleted, added) ==
    [l \in Levels |->
        {f \in v[l] : <<l, f.num>> \notin deleted} \cup {a[2] : a \in {x \in added : x[1] = l}}]

\* VersionSet::Finalize: the first level with the greatest score.
Score(v, level) ==
    IF level = 0 THEN [n |-> Cardinality(v[0]), of |-> L0_CompactionTrigger]
                 ELSE [n |-> TotalFileSize(v[level]), of |-> MaxBytesForLevel]
Exceeds(a, b) == a.n * b.of > b.n * a.of
CompactionLevel(v) ==
    CHOOSE l \in 0..(NumLevels - 2) :
        /\ \A m \in 0..(NumLevels - 2) : ~Exceeds(Score(v, m), Score(v, l))
        /\ \A m \in 0..(l - 1) : Exceeds(Score(v, l), Score(v, m))
SizeCompaction(v) == LET s == Score(v, CompactionLevel(v)) IN s.n >= s.of

-----------------------------------------------------------------------------
(* Picking a compaction. *)

\* GetRange: the smallest and the largest internal key of a list of files.
GetRange(files) ==
    LET fs == ToSet(files) IN
    [smallest |-> Smallest(CHOOSE f \in fs : \A g \in fs : AtMost(Smallest(f), Smallest(g))),
     largest  |-> Largest(CHOOSE f \in fs : \A g \in fs : AtMost(Largest(g), Largest(f)))]

\* FindSmallestBoundaryFile: files that continue the user key largest ends with.
BoundaryFiles(level_files, largest) ==
    {f \in level_files : Before(largest, Smallest(f)) /\ Smallest(f).k = largest.k}

\* Mutant: files that continue a user key are left behind.
NoBoundaryInputs(level_files, files) == files

\* AddBoundaryInputs
AddBoundaryInputs(level_files, files) ==
    LET Found(largest) ==
            LET found == BoundaryFiles(level_files, largest) IN
            IF found = {} THEN <<>>
            ELSE <<CHOOSE f \in found : \A g \in found : AtMost(Smallest(f), Smallest(g))>>
        Extend[n \in 0..Cardinality(level_files)] ==
            IF n = 0 THEN files
            ELSE LET fs == Extend[n - 1] IN fs \o Found(GetRange(fs).largest)
    IN  IF files = <<>> THEN files ELSE Extend[Cardinality(level_files)]

Overlapping(v, level, r) == GetOverlappingInputs(v, level, r.smallest.k, r.largest.k)

\* The compaction with these inputs; all is the range of both.
CompactionOf(v, level, in0, in1, all) ==
    [level |-> level, in0 |-> in0, in1 |-> in1, version |-> v,
     largest |-> GetRange(in0).largest,
     grandparents |-> IF level + 2 < NumLevels THEN Overlapping(v, level + 2, all) ELSE <<>>]

\* The inputs exp0 and exp1 replace in0 and in1 if that is more of level for the
\* same files of level + 1.
Grown(v, level, in0, in1, exp0, exp1) ==
    LET grow == /\ in1 # <<>>
                /\ Len(exp0) > Len(in0)
                /\ TotalFileSize(ToSet(in1 \o exp0)) < ExpandedCompactionLimit
                /\ Len(exp1) = Len(in1)
        With(i0, i1) == CompactionOf(v, level, i0, i1, GetRange(i0 \o i1))
    IN  IF grow THEN With(exp0, exp1) ELSE With(in0, in1)

\* SetupOtherInputs: the files of level + 1, and more of level when that adds
\* none of level + 1.
SetupOtherInputs(v, level, picked) ==
    LET Expand(in0, in1, exp0) ==
            Grown(v, level, in0, in1, exp0, Overlapping(v, level + 1, GetRange(exp0)))
        Parents(in0, in1) ==
            Expand(in0, in1,
                   AddBoundaryInputs(v[level], Overlapping(v, level, GetRange(in0 \o in1))))
        Children(in0) == Parents(in0, Overlapping(v, level + 1, GetRange(in0)))
    IN  Children(AddBoundaryInputs(v[level], picked))

\* Mutant: only reads trigger compactions.
NeedsSeekCompaction == file_to_compact # <<>>

\* PickCompaction: by size (the first file after the compaction pointer), else
\* the file that was read past too often.
NeedsCompaction == SizeCompaction(current) \/ file_to_compact # <<>>
FileAfterPointer(level, files) ==
    LET After == {i \in 1..Len(files) :
                    \/ compact_pointer[level] = <<>>
                    \/ Before(compact_pointer[level][1], Largest(files[i]))}
    IN  IF After = {} THEN files[1] ELSE files[Min(After)]
CompactionFrom(level, file) ==
    SetupOtherInputs(current, level,
        IF level = 0 THEN Overlapping(current, 0, GetRange(<<file>>)) ELSE <<file>>)
PickCompaction ==
    LET level == IF SizeCompaction(current) THEN CompactionLevel(current) ELSE file_to_compact[1]
        From(l) == CompactionFrom(l, IF SizeCompaction(current)
                                     THEN FileAfterPointer(l, FilesOf(current, l))
                                     ELSE file_to_compact[2])
    IN  From(level)

\* VersionSet::CompactRange: above level 0 at most about one file's worth.
Truncated(level, files) ==
    LET Size(n) == TotalFileSize({files[i] : i \in 1..n})
        Enough  == {n \in 1..Len(files) : Size(n) >= TargetFileSize}
    IN  IF level = 0 \/ Enough = {} THEN files ELSE SubSeq(files, 1, Min(Enough))

\* IsTrivialMove
IsTrivialMove(c) ==
    /\ Len(c.in0) = 1 /\ c.in1 = <<>>
    /\ TotalFileSize(ToSet(c.grandparents)) <= MaxGrandParentOverlap

-----------------------------------------------------------------------------
(* Carrying a compaction out. *)

\* IsBaseLevelForKey: no file below the outputs can hold the key.
IsBaseLevelForKey(c, key) ==
    \A l \in (c.level + 2)..(NumLevels - 1) : \A f \in c.version[l] :
        ~(Smallest(f).k <= key /\ key <= Largest(f).k)

\* ShouldStopBefore: st.gp grandparents were passed, st.bytes of them since the
\* current output began.
ShouldStopBefore(c, e, st) ==
    LET passed == {i \in (st.gp + 1)..Len(c.grandparents) :
                     \A j \in (st.gp + 1)..i : Before(Largest(c.grandparents[j]), e)}
        bytes  == st.bytes + (IF st.seen
                              THEN TotalFileSize({c.grandparents[i] : i \in passed}) ELSE 0)
    IN  [gp |-> st.gp + Cardinality(passed), stop |-> bytes > MaxGrandParentOverlap,
         bytes |-> IF bytes > MaxGrandParentOverlap THEN 0 ELSE bytes]

\* Mutant: rule (A) looks at the entry instead of the one that hides it.
DropIfOld(c, snap, e, st) ==
    \/ st.key = e.k /\ e.s <= snap
    \/ e.del /\ e.s <= snap /\ IsBaseLevelForKey(c, e.k)

\* Rule (A) and the tombstone rule of DoCompactionWork.
Drop(c, snap, e, st) ==
    \/ st.key = e.k /\ st.last <= snap
    \/ e.del /\ e.s <= snap /\ IsBaseLevelForKey(c, e.k)

\* DoCompactionWork: the loop over the merged inputs, as the entries of every
\* output file in turn.
DoCompactionWork(c, snap) ==
    LET input == SetToSortSeq(UNION {f.data : f \in ToSet(c.in0 \o c.in1)}, Before)
        Start == [outs |-> <<>>, open |-> {}, key |-> 0, last |-> MaxSequence + 1,
                  gp |-> 0, seen |-> FALSE, bytes |-> 0]
        Close(st) == IF st.open = {} THEN st
                     ELSE [st EXCEPT !.outs = Append(@, st.open), !.open = {}]
        Step(st, e) ==
            LET b  == ShouldStopBefore(c, e, st)
                s1 == [IF b.stop THEN Close(st) ELSE st
                         EXCEPT !.gp = b.gp, !.bytes = b.bytes, !.seen = TRUE]
                s2 == [s1 EXCEPT !.key = e.k, !.last = e.s,
                         !.open = IF Drop(c, snap, e, st) THEN @ ELSE @ \cup {e}]
            IN  IF Cardinality(s2.open) >= TargetFileSize THEN Close(s2) ELSE s2
    IN  Close(FoldLeft(Step, Start, input)).outs

-----------------------------------------------------------------------------
(* Reading. *)

\* The entry a table yields for a lookup: the newest one the snapshot may see.
Visible(data, k, s) == {e \in data : e.k = k /\ e.s <= s}
Newest(es) == CHOOSE e \in es : \A x \in es : x.s <= e.s

\* ForEachOverlapping: level 0 newest first, then one file of each level.
ForEachOverlapping(v, k, s) ==
    LET level0 == SetToSortSeq({f \in v[0] : Smallest(f).k <= k /\ k <= Largest(f).k},
                               LAMBDA f, g : f.num > g.num)
        Probe(l) == LET files == FilesOf(v, l)
                        index == FindFile(files, [k |-> k, s |-> s])
                    IN  IF index < Len(files) /\ Smallest(files[index + 1]).k <= k
                        THEN << <<l, files[index + 1]>> >> ELSE <<>>
    IN  [i \in 1..Len(level0) |-> <<0, level0[i]>>]
            \o FlattenSeq([l \in 1..(NumLevels - 1) |-> Probe(l)])

\* Version::Get stops at the first file that has the key; a file that is not in
\* the directory is an error.  The files it reads:
Probed(v, k, s) ==
    LET probes == ForEachOverlapping(v, k, s)
        hits   == {i \in 1..Len(probes) : Visible(probes[i][2].data, k, s) # {}}
    IN  IF hits = {} THEN probes ELSE SubSeq(probes, 1, Min(hits))

\* Entries as answers: the sequence number of the value, 0 for NotFound.
Answer(es) == IF es = {} \/ Newest(es).del THEN 0 ELSE Newest(es).s

\* DBImpl::Get: the memtable, the immutable one, then the version.
Lookup(m, i, v, k, s) ==
    LET Read(probed) ==
            IF \E p \in ToSet(probed) : p[2].num \notin disk THEN -1
            ELSE IF probed = <<>> THEN 0
            ELSE Answer(Visible(Last(probed)[2].data, k, s)) IN
    IF Visible(m, k, s) # {} THEN Answer(Visible(m, k, s))
    ELSE IF i # <<>> /\ Visible(i[1], k, s) # {} THEN Answer(Visible(i[1], k, s))
    ELSE Read(Probed(v, k, s))

-----------------------------------------------------------------------------
Idle == [phase |-> "idle"]

Init ==
    /\ \E st \in Starts : current = st.tree /\ budget = st.budget
    /\ written = UNION {f.data : f \in UNION {current[l] : l \in Levels}}
    /\ last_sequence = Max({0} \cup {e.s : e \in written})
    /\ mem = {} /\ imm = <<>>
    /\ compact_pointer = [l \in Levels |-> <<>>]
    /\ file_to_compact = <<>> /\ seeks = <<>>
    /\ disk = FileNumbers(current) /\ next_file = 1 + Max({0} \cup disk)
    /\ pending = {}
    /\ bg = Idle /\ manual = <<>> /\ caller = [pc |-> "out"]
    /\ readers = {} /\ snapshots = <<>>

Spend(what) == budget[what] > 0 /\ budget' = [budget EXCEPT ![what] = @ - 1]

\* DB::Put and DB::Delete, as the write path carries them out.
Write(k, del) ==
    LET e == [k |-> k, s |-> last_sequence + 1, del |-> del] IN
    /\ last_sequence < MaxSequence /\ Spend("writes")
    /\ mem' = mem \cup {e} /\ last_sequence' = e.s /\ written' = written \cup {e}
    /\ UNCHANGED <<imm, current, compact_pointer, file_to_compact, seeks, next_file,
                   disk, pending, bg, manual, caller, readers, snapshots>>

\* MakeRoomForWrite turns a full memtable into the immutable one.
SwitchMemTable ==
    /\ imm = <<>> /\ mem # {}
    /\ imm' = <<mem>> /\ mem' = {}
    /\ UNCHANGED <<last_sequence, current, compact_pointer, file_to_compact, seeks,
                   next_file, disk, pending, bg, manual, caller, readers, snapshots,
                   budget, written>>

\* GetSnapshot and ReleaseSnapshot
GetSnapshot ==
    /\ Spend("snapshots")
    /\ snapshots' = Append(snapshots, last_sequence)
    /\ UNCHANGED <<mem, imm, last_sequence, current, compact_pointer, file_to_compact,
                   seeks, next_file, disk, pending, bg, manual, caller, readers, written>>

ReleaseSnapshot(i) ==
    /\ i \in 1..Len(snapshots)
    /\ \A r \in readers : r.snap # snapshots[i]
    /\ snapshots' = RemoveAt(snapshots, i)
    /\ UNCHANGED <<mem, imm, last_sequence, current, compact_pointer, file_to_compact,
                   seeks, next_file, disk, pending, bg, manual, caller, readers,
                   budget, written>>

-----------------------------------------------------------------------------
(* Files in the directory. *)

\* AddLiveFiles: the files of every version something refers to.
LiveFiles(v, rs, b) ==
    UNION {FileNumbers(x) : x \in {v} \cup {r.version : r \in rs}
                                      \cup (IF b.phase = "idle" THEN {} ELSE {b.c.version})}

\* LogAndApply installs a version: the file to compact was the old one's, added
\* files start with a full allowance of seeks, readers now hold an old version.
Install(v, added) ==
    /\ current' = v /\ file_to_compact' = <<>>
    /\ seeks' = [n \in (DOMAIN seeks \cap FileNumbers(v)) \ added |-> seeks[n]]
    /\ readers' = {[r EXCEPT !.current = FALSE] : r \in readers}

\* CompactMemTable and WriteLevel0Table, run by the background thread alone or
\* from inside a compaction; an empty memtable leaves no file.
CompactMemTable ==
    /\ imm # <<>> /\ bg.phase # "failed"
    /\ LET f     == [num |-> next_file, data |-> imm[1]]
           level == PickLevelForMemTableOutput(current, Smallest(f).k, Largest(f).k)
           v     == IF imm[1] = {} THEN current ELSE ApplyEdit(current, {}, {<<level, f>>})
       IN  /\ Install(v, {next_file})
           /\ disk' = ({next_file} \cup disk) \cap (LiveFiles(v, readers, bg) \cup pending)
    /\ next_file' = next_file + 1
    /\ imm' = <<>>
    /\ UNCHANGED <<mem, last_sequence, compact_pointer, pending, bg, manual,
                   caller, snapshots, budget, written>>

-----------------------------------------------------------------------------
(* The background thread: BackgroundCompaction. *)

Begin(c, is_manual) ==
    /\ compact_pointer' = [compact_pointer EXCEPT ![c.level] = <<c.largest>>]
    /\ bg' = [phase |-> "merging", c |-> c, is_manual |-> is_manual,
              old |-> compact_pointer[c.level],
              snap |-> IF snapshots = <<>> THEN last_sequence ELSE snapshots[1],
              outs |-> <<>>]

\* A manual compaction picks its inputs, or finds that its level has none.
StartManualCompaction ==
    /\ bg.phase = "idle" /\ imm = <<>> /\ manual # <<>>
    /\ LET m     == manual[1]
           files == GetOverlappingInputs(current, m.level, m.begin, m.end)
       IN  IF files = <<>>
           THEN /\ caller' = [caller EXCEPT !.done = TRUE] /\ manual' = <<>>
                /\ UNCHANGED <<compact_pointer, bg>>
           ELSE /\ Begin(SetupOtherInputs(current, m.level, Truncated(m.level, files)), TRUE)
                /\ UNCHANGED <<caller, manual>>
    /\ UNCHANGED <<mem, imm, last_sequence, current, file_to_compact, seeks, next_file,
                   disk, pending, readers, snapshots, budget, written>>

\* A compaction the versions call for, unless it only moves a file.
StartCompaction ==
    /\ bg.phase = "idle" /\ imm = <<>> /\ manual = <<>> /\ NeedsCompaction
    /\ \E c \in {PickCompaction} : ~IsTrivialMove(c) /\ Begin(c, FALSE)
    /\ UNCHANGED <<mem, imm, last_sequence, current, file_to_compact, seeks, next_file,
                   disk, pending, manual, caller, readers, snapshots, budget, written>>

TrivialMove ==
    /\ bg.phase = "idle" /\ imm = <<>> /\ manual = <<>> /\ NeedsCompaction
    /\ \E c \in {PickCompaction} : \E f \in {c.in0[1]} :
           /\ IsTrivialMove(c)
           /\ Install(ApplyEdit(current, {<<c.level, f.num>>}, {<<c.level + 1, f>>}), {f.num})
           /\ compact_pointer' = [compact_pointer EXCEPT ![c.level] = <<c.largest>>]
    /\ UNCHANGED <<mem, imm, last_sequence, next_file, disk, pending, bg, manual,
                   caller, snapshots, budget, written>>

\* OpenCompactionOutputFile and FinishCompactionOutputFile for every output.
BuildOutputs ==
    /\ bg.phase = "merging"
    /\ LET outs == DoCompactionWork(bg.c, bg.snap)
           nums == {next_file + i - 1 : i \in 1..Len(outs)}
       IN  /\ bg' = [bg EXCEPT !.phase = "built",
                       !.outs = [i \in 1..Len(outs) |-> [num |-> next_file + i - 1,
                                                         data |-> outs[i]]]]
           /\ next_file' = next_file + Len(outs)
           /\ disk' = disk \cup nums /\ pending' = pending \cup nums
    /\ UNCHANGED <<mem, imm, last_sequence, current, compact_pointer, file_to_compact,
                   seeks, manual, caller, readers, snapshots, budget, written>>

\* What BackgroundCompaction does for the caller of a manual compaction.
ManualRoundEnds(failed) ==
    /\ manual' = IF bg.is_manual THEN <<>> ELSE manual
    /\ caller' = IF ~bg.is_manual THEN caller
                 ELSE IF failed THEN [caller EXCEPT !.done = TRUE]
                 ELSE [caller EXCEPT !.begin = Largest(Last(bg.c.in0)).k]

\* InstallCompactionResults, CleanupCompaction, ReleaseInputs and
\* RemoveObsoleteFiles.
InstallCompactionResults ==
    /\ bg.phase = "built"
    /\ LET deleted == {<<bg.c.level, f.num>> : f \in ToSet(bg.c.in0)}
                        \cup {<<bg.c.level + 1, f.num>> : f \in ToSet(bg.c.in1)}
           v       == ApplyEdit(current, deleted,
                                {<<bg.c.level + 1, f>> : f \in ToSet(bg.outs)})
       IN  /\ Install(v, {f.num : f \in ToSet(bg.outs)})
           /\ disk' = disk \cap LiveFiles(v, readers, Idle)
    /\ pending' = {} /\ bg' = Idle
    /\ ManualRoundEnds(FALSE)
    /\ UNCHANGED <<mem, imm, last_sequence, compact_pointer, next_file, snapshots,
                   budget, written>>

\* An error in the compaction ends background work; its outputs stay on disk.
CompactionFails ==
    /\ bg.phase \in {"merging", "built"} /\ Spend("failures")
    /\ bg' = [bg EXCEPT !.phase = "failed"] /\ pending' = {}
    /\ ManualRoundEnds(TRUE)
    /\ UNCHANGED <<mem, imm, last_sequence, current, compact_pointer, file_to_compact,
                   seeks, next_file, disk, readers, snapshots, written>>

-----------------------------------------------------------------------------
(* DBImpl::CompactRange, called by one thread. *)

\* The deepest level that overlaps the range decides how many levels are compacted.
StartCompactRange(begin, end) ==
    /\ caller.pc = "out" /\ Spend("manual")
    /\ caller' = [pc |-> "force", begin0 |-> begin, begin |-> begin, end |-> end,
                  level |-> 0, done |-> FALSE,
                  max |-> Max({1} \cup {l \in 1..(NumLevels - 1) :
                                          OverlapInLevel(current, l, begin, end)})]
    /\ UNCHANGED <<mem, imm, last_sequence, current, compact_pointer, file_to_compact,
                   seeks, next_file, disk, pending, bg, manual, readers, snapshots, written>>

\* TEST_CompactMemTable: switch the memtable, then wait for it to be flushed.
ForceMemTable ==
    /\ caller.pc = "force"
    /\ \/ /\ bg.phase = "failed" /\ caller' = [caller EXCEPT !.pc = "level"]
          /\ UNCHANGED <<mem, imm>>
       \/ /\ bg.phase # "failed" /\ imm = <<>>
          /\ imm' = <<mem>> /\ mem' = {}
          /\ caller' = [caller EXCEPT !.pc = "wait"]
    /\ UNCHANGED <<last_sequence, current, compact_pointer, file_to_compact, seeks,
                   next_file, disk, pending, bg, manual, readers, snapshots, budget, written>>

MemTableForced ==
    /\ caller.pc = "wait" /\ (imm = <<>> \/ bg.phase = "failed")
    /\ caller' = [caller EXCEPT !.pc = "level"]
    /\ UNCHANGED <<mem, imm, last_sequence, current, compact_pointer, file_to_compact,
                   seeks, next_file, disk, pending, bg, manual, readers, snapshots,
                   budget, written>>

\* Mutant: the wait does not look at the background error.
CompactLevelIgnoringError ==
    /\ caller.pc = "level"
    /\ \/ /\ ~caller.done /\ manual = <<>>
          /\ manual' = <<[level |-> caller.level, begin |-> caller.begin, end |-> caller.end]>>
          /\ UNCHANGED caller
       \/ /\ caller.done
          /\ manual' = <<>>
          /\ caller' = IF caller.level + 1 < caller.max
                       THEN [caller EXCEPT !.level = @ + 1, !.done = FALSE, !.begin = caller.begin0]
                       ELSE [pc |-> "out"]
    /\ UNCHANGED <<mem, imm, last_sequence, current, compact_pointer, file_to_compact,
                   seeks, next_file, disk, pending, bg, readers, snapshots, budget, written>>

\* TEST_CompactRange: ask for one more round of its level, or go on to the next.
CompactLevel ==
    /\ caller.pc = "level"
    /\ \/ /\ ~caller.done /\ bg.phase # "failed" /\ manual = <<>>
          /\ manual' = <<[level |-> caller.level, begin |-> caller.begin, end |-> caller.end]>>
          /\ UNCHANGED caller
       \/ /\ caller.done \/ bg.phase = "failed"
          /\ manual' = <<>>
          /\ caller' = IF caller.level + 1 < caller.max
                       THEN [caller EXCEPT !.level = @ + 1, !.done = FALSE, !.begin = caller.begin0]
                       ELSE [pc |-> "out"]
    /\ UNCHANGED <<mem, imm, last_sequence, current, compact_pointer, file_to_compact,
                   seeks, next_file, disk, pending, bg, readers, snapshots, budget, written>>

-----------------------------------------------------------------------------
(* Readers: Get and the iterators. *)

\* Both take references to mem_, imm_ and current_ under the mutex.
StartRead(snap) ==
    /\ Spend("reads")
    /\ snap \in {last_sequence} \cup ToSet(snapshots)
    /\ readers' = readers \cup {[snap |-> snap, mem |-> mem, imm |-> imm,
                                 version |-> current, current |-> TRUE]}
    /\ UNCHANGED <<mem, imm, last_sequence, current, compact_pointer, file_to_compact,
                   seeks, next_file, disk, pending, bg, manual, caller, snapshots, written>>

\* Version::UpdateStats on the version the read used; what it does to a version
\* or to file data that is no longer current has no effect.
UpdateStats(level, f, isCurrent) ==
    LET left == (IF f.num \in DOMAIN seeks THEN seeks[f.num] ELSE AllowedSeeks) - 1 IN
    IF f \notin current[level] THEN UNCHANGED <<seeks, file_to_compact>>
    ELSE /\ seeks' = [n \in DOMAIN seeks \cup {f.num} |->
                        IF n = f.num THEN Max({left, 0}) ELSE seeks[n]]
         /\ file_to_compact' = IF left <= 0 /\ file_to_compact = <<>> /\ isCurrent
                               THEN <<level, f>> ELSE file_to_compact

\* The read ends: the first of several files it went through is charged.
FinishRead(r, k) ==
    LET probed == Probed(r.version, k, r.snap)
        inMem  == \/ Visible(r.mem, k, r.snap) # {}
                  \/ r.imm # <<>> /\ Visible(r.imm[1], k, r.snap) # {}
    IN  /\ r \in readers
        /\ readers' = readers \ {r}
        /\ IF ~inMem /\ Len(probed) > 1
           THEN UpdateStats(probed[1][1], probed[1][2], r.current)
           ELSE UNCHANGED <<seeks, file_to_compact>>
        /\ UNCHANGED <<mem, imm, last_sequence, current, compact_pointer, next_file, disk,
                       pending, bg, manual, caller, snapshots, budget, written>>

\* RecordReadSample: an iterator charges the first of the files that overlap a key.
RecordReadSample(r, e) ==
    LET probes == ForEachOverlapping(current, e.k, e.s) IN
    /\ r \in readers /\ e.s <= r.snap /\ Len(probes) > 1
    /\ UpdateStats(probes[1][1], probes[1][2], TRUE)
    /\ UNCHANGED <<mem, imm, last_sequence, current, compact_pointer, next_file, disk,
                   pending, bg, manual, caller, readers, snapshots, budget, written>>

\* The process ends and the database is opened again: each log becomes a table
\* of level 0 (WriteLevel0Table with no base version), an unfinished compaction
\* and its pointer are forgotten, files no version names are removed, and their
\* numbers may be given out again (the manifest never recorded them).
Reopen ==
    LET tables == SelectSeq(imm \o <<mem>>, LAMBDA d : d # {})
        next   == 1 + Max({0} \cup FileNumbers(current))
        new    == {<<0, [num |-> next + i - 1, data |-> tables[i]]>> : i \in 1..Len(tables)}
        v      == ApplyEdit(current, {}, new)
    IN  /\ Spend("restarts")
        /\ mem' = {} /\ imm' = <<>>
        /\ current' = v /\ next_file' = next + Len(tables)
        /\ disk' = (disk \cup {a[2].num : a \in new}) \cap FileNumbers(v)
        /\ compact_pointer' = IF bg.phase = "idle" THEN compact_pointer
                              ELSE [compact_pointer EXCEPT ![bg.c.level] = bg.old]
        /\ bg' = Idle /\ manual' = <<>> /\ caller' = [pc |-> "out"]
        /\ readers' = {} /\ snapshots' = <<>> /\ pending' = {}
        /\ file_to_compact' = <<>> /\ seeks' = <<>>
        /\ UNCHANGED <<last_sequence, written>>

-----------------------------------------------------------------------------
Background == \/ CompactMemTable \/ StartManualCompaction \/ StartCompaction
              \/ TrivialMove \/ BuildOutputs \/ InstallCompactionResults

Caller == ForceMemTable \/ MemTableForced \/ CompactLevel

Next ==
    \/ \E k \in Keys, del \in BOOLEAN : Write(k, del)
    \/ SwitchMemTable
    \/ GetSnapshot
    \/ \E i \in 1..Len(snapshots) : ReleaseSnapshot(i)
    \/ Background
    \/ CompactionFails
    \/ \E r \in ManualRanges : StartCompactRange(r[1], r[2])
    \/ Caller
    \/ \E s \in 0..MaxSequence : StartRead(s)
    \/ \E r \in readers, k \in Keys : FinishRead(r, k)
    \/ \E r \in readers, e \in written : RecordReadSample(r, e)
    \/ Reopen

Spec == Init /\ [][Next]_vars

\* MaybeScheduleCompaction: the background thread has been scheduled, which is
\* when one of its steps is possible.
Scheduled ==
    \/ bg.phase \in {"merging", "built"}
    \/ bg.phase = "idle" /\ (imm # <<>> \/ manual # <<>> \/ NeedsCompaction)

\* Once scheduled the background thread runs (weak fairness of Background, with
\* Scheduled for its enabling condition), and so does the thread inside
\* CompactRange.
FairSpec ==
    /\ Spec
    /\ []<>~Scheduled \/ []<><<Background>>_vars
    /\ WF_vars(Caller)

-----------------------------------------------------------------------------
(* Properties. *)

\* What a read at a snapshot must find: the newest entry of the key it may see.
Reference(k, s) == Answer(Visible(written, k, s))

\* Reads are right: whatever flushes, compactions, moves and removals of files
\* have happened, a lookup at the current sequence number or at any snapshot
\* held, and one that began earlier and still holds an old version, finds
\* exactly what was written (DBImpl::Get, Version::Get, DoCompactionWork's drop
\* rules, RemoveObsoleteFiles).
ReadsAgree ==
    /\ \A k \in Keys : \A s \in {last_sequence} \cup ToSet(snapshots) :
          Lookup(mem, imm, current, k, s) = Reference(k, s)
    /\ \A r \in readers : \A k \in Keys :
          Lookup(r.mem, r.imm, r.version, k, r.snap) = Reference(k, r.snap)

\* Adjacent files of a level above 0 do not overlap: what SaveTo's debug check
\* and the assert of MaybeAddFile ("Must not overlap") say of every version.
LevelsDisjoint ==
    \A l \in 1..(NumLevels - 1) : \A f, g \in current[l] :
        f = g \/ Before(Largest(f), Smallest(g)) \/ Before(Largest(g), Smallest(f))

\* Older entries of a key are never above newer ones: searching level by level,
\* and level 0 by file number, meets the newest entry first.
NewerAbove ==
    \A l, m \in Levels : \A f \in current[l], g \in current[m] :
        (l < m \/ (l = 0 /\ m = 0 /\ f.num > g.num)) =>
            \A e \in f.data, x \in g.data : e.k = x.k => e.s > x.s

\* A call of CompactRange returns: its rounds move files down and come to an
\* end, whatever flushes and other compactions run between them.
CompactRangeReturns == caller.pc # "out" ~> caller.pc = "out"

\* Background work catches up: once writes have stopped, no level stays over
\* its limit and no immutable memtable stays unflushed, unless an error has
\* stopped the background thread.
CompactionCatchesUp ==
    []<>(bg.phase = "failed" \/ (imm = <<>> /\ ~SizeCompaction(current)))
=============================================================================
