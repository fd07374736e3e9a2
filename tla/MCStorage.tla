----------------------------- MODULE MCStorage -----------------------------
(* Instances of the parts of the on-device database for TLC.  The parts    *)
(* share no state, so a behaviour exercises one of them, chosen at the     *)
(* start, and leaves the others in one initial state.                      *)
EXTENDS LogFormat, Iterators, TableFormat, Records, TableCache, MemTable, EnvPosix, Repair

CONSTANTS
    StorageParts,           \* the parts a run exercises
    r1, r2, t1, t2, p1, p2

VARIABLE part

TwoReaders == {r1, r2}
TwoThreads == {t1, t2}
TwoProcesses == {p1, p2}

E(k, s, del) == [k |-> k, s |-> s, del |-> del]
Blk(data, sep) == [data |-> data, sep |-> sep]
\* Two overlapping tables under a memtable, whose index keys are a last key or a
\* shortened separator; and one table with a key split over its blocks.
LayoutsMC == {
    [mem |-> {E(2, 6, TRUE)}, seq |-> 7,
     tables |-> << <<Blk({E(1, 4, FALSE), E(2, 5, FALSE)}, E(2, 5, FALSE)),
                     Blk({E(2, 3, FALSE), E(3, 7, FALSE)}, E(3, 7, FALSE))>>,
                   <<Blk({E(1, 1, FALSE)}, E(1, 0, FALSE)),
                     Blk({E(3, 2, TRUE), E(4, 2, FALSE)}, E(5, 0, FALSE))>> >>],
    [mem |-> {E(1, 4, FALSE), E(3, 5, TRUE)}, seq |-> 5,
     tables |-> << <<Blk({E(2, 3, FALSE)}, E(2, 0, FALSE)), Blk({E(3, 2, FALSE)}, E(3, 2, FALSE))>> >>]}

K(u, s) == [u |-> u, s |-> s]
TableKeysMC == {K(<<0>>, 3), K(<<0>>, 1), K(<<0, 1>>, 2), K(<<0, 1, 2>>, 4), K(<<2>>, 5),
                K(<<2, 3, 1>>, 2), K(<<3, 3>>, 4)}
LookupKeysMC == TableKeysMC \cup {K(<<0>>, 2), K(<<1>>, 5), K(<<2, 3, 1>>, 5), K(<<3, 3>>, 5), K(<<3, 3>>, 2)}

StringsMC == {<<>>, <<1>>, <<5, 1, 0>>}

\* Damaged, empty and orphaned files, before and after an interrupted repair.
Manifest == [tables |-> {}, next |-> 9, last |-> 0]
RepairDirsMC == {
    (<<"log", 6>> :> Content({5}, TRUE)) @@ (<<"log", 7>> :> Content({6}, FALSE))
      @@ (<<"ldb", 5>> :> Content({3}, TRUE)) @@ (<<"manifest", 1>> :> Manifest) @@ (<<"current", 0>> :> 1),
    (<<"log", 4>> :> Content({}, TRUE)) @@ (<<"ldb", 2>> :> Content({}, TRUE))
      @@ (<<"sst", 3>> :> Content({1}, TRUE)) @@ (<<"tmp", 1>> :> Manifest),
    (<<"ldb", 3>> :> Content({1, 2}, FALSE)),
    (<<"manifest", 2>> :> Manifest) @@ (<<"current", 0>> :> 2),
    <<>>}

StorageInit ==
    /\ part \in StorageParts
    /\ LogInit /\ IterInit /\ TableInit /\ BatchInit /\ EditInit /\ NameInit /\ CacheInit /\ MemInit
    /\ LimInit /\ LockInit /\ FileInit /\ SchInit /\ RepairInit
    /\ part # "iterator" => it_db = CHOOSE d \in Layouts : TRUE
    /\ part # "table" => ~tb.filtered
    /\ part # "cache" => lru.capacity = Max(Capacities)
    /\ part # "file" => ~wf.manifest
    /\ part # "repair" => DOMAIN rdir = {}

\* The parts are taken in groups, to say once what each leaves alone.
format_vars == <<log_vars, tb_vars, bt, ed, fname>>
memory_vars == <<it_vars, cache_vars, mem_vars>>
env_vars    == <<lim, lk, wf, sch>>

FormatNext ==
    \/ part = "log" /\ LogNext /\ UNCHANGED <<tb_vars, bt, ed, fname>>
    \/ part = "table" /\ TableNext /\ UNCHANGED <<log_vars, bt, ed, fname>>
    \/ part = "batch" /\ BatchNext /\ UNCHANGED <<log_vars, tb_vars, ed, fname>>
    \/ part = "edit" /\ EditNext /\ UNCHANGED <<log_vars, tb_vars, bt, fname>>
    \/ part = "name" /\ NameNext /\ UNCHANGED <<log_vars, tb_vars, bt, ed>>
MemoryNext ==
    \/ part = "iterator" /\ IterNext /\ UNCHANGED <<cache_vars, mem_vars>>
    \/ part = "cache" /\ CacheNext /\ UNCHANGED <<it_vars, mem_vars>>
    \/ part = "memtable" /\ MemNext /\ UNCHANGED <<it_vars, cache_vars>>
EnvNext ==
    \/ part = "limits" /\ LimNext /\ UNCHANGED <<lk, wf, sch>>
    \/ part = "lock" /\ LockNext /\ UNCHANGED <<lim, wf, sch>>
    \/ part = "file" /\ FileNext /\ UNCHANGED <<lim, lk, sch>>
    \/ part = "schedule" /\ SchNext /\ UNCHANGED <<lim, lk, wf>>

StorageNext ==
    /\ UNCHANGED part
    /\ \/ FormatNext /\ UNCHANGED <<memory_vars, env_vars, repair_vars>>
       \/ MemoryNext /\ UNCHANGED <<format_vars, env_vars, repair_vars>>
       \/ EnvNext /\ UNCHANGED <<format_vars, memory_vars, repair_vars>>
       \/ part = "repair" /\ RepairNext /\ UNCHANGED <<format_vars, memory_vars, env_vars>>

storage_vars == <<part, format_vars, memory_vars, env_vars, repair_vars>>

StorageSpec == StorageInit /\ [][StorageNext]_storage_vars /\ (part = "schedule" => SchFair)
=============================================================================
