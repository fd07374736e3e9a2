----------------------------- MODULE TableCache -----------------------------
(***************************************************************************)
(* The cache of open tables (db/table_cache.cc) on one shard of the LRU    *)
(* cache (util/cache.cc).  Reading threads look tables up, open and insert *)
(* them, and release them; the background thread evicts the tables it      *)
(* deletes.  Each cache operation holds the shard's mutex from start to    *)
(* end; looking a table up and inserting it are two operations.            *)
(***************************************************************************)
EXTENDS Integers, Sequences, FiniteSets, FiniteSetsExt, SequencesExt

CONSTANTS
    Readers,      \* reading threads
    Files,        \* file numbers, which also are the hashes of the cache keys
    Capacities,   \* capacities of the shard, in tables
    FirstLength,  \* buckets of a new hash table: 4 in the code
    MaxHandles    \* bound: handles allocated

\* A file number is its own hash; a new hash table has buckets.
ASSUME CacheConstants ==
    /\ IsFiniteSet(Readers) /\ Files \subseteq Nat /\ Capacities \subseteq Nat
    /\ FirstLength \in Nat \ {0} /\ MaxHandles \in Nat

VARIABLES
    lru,      \* the shard
    handle,   \* the entries allocated: key, refs, in_cache, times the deleter ran
    held,     \* handles each reader has to release
    finding   \* what each reader is opening: {} or {file}

cache_vars == <<lru, handle, held, finding>>

Handles == 1..Len(handle)

CacheInit ==
    /\ \E c \in Capacities :
          lru = [capacity |-> c, usage |-> 0, lru |-> <<>>, in_use |-> {}, elems |-> 0,
                 buckets |-> [i \in 0..(FirstLength - 1) |-> {}]]
    /\ handle = <<>>
    /\ held = [r \in Readers |-> {}] /\ finding = [r \in Readers |-> {}]

-----------------------------------------------------------------------------
(* HandleTable: the handles by hash, whatever their order in a chain.  c is *)
(* the cache and h the handles in the operators below.                     *)

Bucket(c, key) == key % Cardinality(DOMAIN c.buckets)

\* FindPointer: the handle of a key, or none.
FindPointer(c, h, key) == {x \in c.buckets[Bucket(c, key)] : h[x].key = key}

\* Resize: the chains are taken apart and their handles put into the new ones.
Resize(c, h) ==
    LET lengths[n \in 0..c.elems] == IF n = 0 THEN FirstLength ELSE 2 * lengths[n - 1]
        length == Min({lengths[n] : n \in {m \in 0..c.elems : lengths[m] >= c.elems}})
        all    == UNION {c.buckets[b] : b \in DOMAIN c.buckets}
    IN  [c EXCEPT !.buckets = [i \in 0..(length - 1) |-> {x \in all : h[x].key % length = i}]]

\* HandleTable::Insert: the new handle takes the place of the one with its key.
TableInsert(c, h, new) ==
    LET old == FindPointer(c, h, h[new].key)
        d   == [c EXCEPT !.buckets[Bucket(c, h[new].key)] = (@ \ old) \cup {new},
                         !.elems = IF old = {} THEN @ + 1 ELSE @]
    IN  IF old = {} /\ d.elems > Cardinality(DOMAIN c.buckets) THEN Resize(d, h) ELSE d
TableRemove(c, h, key) ==
    LET old == FindPointer(c, h, key)
    IN  [c EXCEPT !.buckets[Bucket(c, key)] = @ \ old, !.elems = IF old = {} THEN @ ELSE @ - 1]

-----------------------------------------------------------------------------
(* LRUCache: state st = [c, h] *)

Ref(st, x) ==
    LET move == st.h[x].refs = 1 /\ st.h[x].in_cache
    IN  [c |-> IF move THEN [st.c EXCEPT !.lru = RemoveFirst(@, x), !.in_use = @ \cup {x}] ELSE st.c,
         h |-> [st.h EXCEPT ![x].refs = @ + 1]]

\* Unref: the last reference runs the deleter; the last but the cache's puts the
\* entry at the newest end of the LRU list.
Unref(st, x) ==
    LET n == st.h[x].refs - 1
    IN  [c |-> IF n = 1 /\ st.h[x].in_cache
               THEN [st.c EXCEPT !.in_use = @ \ {x}, !.lru = Append(@, x)] ELSE st.c,
         h |-> [st.h EXCEPT ![x].refs = n, ![x].deleted = @ + (IF n = 0 THEN 1 ELSE 0)]]

\* Mutant: an entry that leaves the cache keeps the cache's reference.
FinishEraseKeepsRef(st, x) ==
    [c |-> [st.c EXCEPT !.lru = RemoveFirst(@, x), !.in_use = @ \ {x}, !.usage = @ - 1],
     h |-> [st.h EXCEPT ![x].in_cache = FALSE]]

\* FinishErase of a handle that is out of the hash table.
FinishErase(st, x) ==
    Unref([c |-> [st.c EXCEPT !.lru = RemoveFirst(@, x), !.in_use = @ \ {x}, !.usage = @ - 1],
           h |-> [st.h EXCEPT ![x].in_cache = FALSE]], x)

EraseKey(st, key) ==
    LET old == FindPointer(st.c, st.h, key)
        out == [c |-> TableRemove(st.c, st.h, key), h |-> st.h]
    IN  IF old = {} THEN st ELSE FinishErase(out, CHOOSE x \in old : TRUE)

\* Evict from the oldest end of the LRU list: all of it, or what is over the capacity.
EvictOldest(st, all) ==
    LET Run[n \in 0..Len(st.c.lru)] ==
            IF n = 0 THEN st
            ELSE LET s == Run[n - 1]
                 IN  IF s.c.lru # <<>> /\ (all \/ s.c.usage > s.c.capacity)
                     THEN EraseKey(s, s.h[Head(s.c.lru)].key) ELSE s
    IN  Run[Len(st.c.lru)]

\* LRUCache::Insert, which returns the handle Len(h) + 1.
InsertEntry(st, key) ==
    LET new   == Len(st.h) + 1
        cache == st.c.capacity > 0
        h     == Append(st.h, [key |-> key, refs |-> IF cache THEN 2 ELSE 1, in_cache |-> cache,
                               deleted |-> 0])
        old   == FindPointer(st.c, st.h, key)
        c     == [st.c EXCEPT !.in_use = @ \cup {new}, !.usage = @ + 1]
        in    == [c |-> TableInsert(c, h, new), h |-> h]
        once  == IF ~cache THEN [c |-> st.c, h |-> h]
                 ELSE IF old = {} THEN in ELSE FinishErase(in, CHOOSE x \in old : TRUE)
    IN  EvictOldest(once, FALSE)

Become(st) == lru' = st.c /\ handle' = st.h
Cache == [c |-> lru, h |-> handle]

-----------------------------------------------------------------------------
(* TableCache *)

\* FindTable: the table is in the cache.  Bound: a reader holds a handle once.
FindTableHit(r, f) ==
    LET x == FindPointer(lru, handle, f)
    IN  /\ finding[r] = {} /\ x # {}
        /\ Become(Ref(Cache, CHOOSE y \in x : TRUE))
        /\ \A y \in x : y \notin held[r]
        /\ held' = [held EXCEPT ![r] = @ \cup x]
        /\ UNCHANGED finding

\* FindTable: it is not, and the file is opened without the cache's mutex.
FindTableMiss(r, f) ==
    /\ finding[r] = {} /\ FindPointer(lru, handle, f) = {}
    /\ finding' = [finding EXCEPT ![r] = {f}]
    /\ UNCHANGED <<lru, handle, held>>

\* The file cannot be opened: nothing is cached.
OpenFails(r) ==
    /\ finding[r] # {}
    /\ finding' = [finding EXCEPT ![r] = {}]
    /\ UNCHANGED <<lru, handle, held>>

\* FindTable: the opened table is inserted, whatever was inserted since.
InsertTable(r) ==
    /\ Len(handle) < MaxHandles
    /\ \E f \in finding[r] : Become(InsertEntry(Cache, f))
    /\ held' = [held EXCEPT ![r] = @ \cup {Len(handle) + 1}]
    /\ finding' = [finding EXCEPT ![r] = {}]

\* TableCache::Get is over, or an iterator on the table is deleted (UnrefEntry).
ReleaseTable(r, x) ==
    /\ x \in held[r]
    /\ Become(Unref(Cache, x))
    /\ held' = [held EXCEPT ![r] = @ \ {x}]
    /\ UNCHANGED finding

\* TableCache::Evict.
Evict(f) == FindPointer(lru, handle, f) # {} /\ Become(EraseKey(Cache, f)) /\ UNCHANGED <<held, finding>>

\* LRUCache::Prune.
Prune ==
    /\ lru.lru # <<>>
    /\ Become(EvictOldest(Cache, TRUE))
    /\ UNCHANGED <<held, finding>>

CacheNext ==
    \/ \E r \in Readers, f \in Files : FindTableHit(r, f) \/ FindTableMiss(r, f)
    \/ \E r \in Readers : OpenFails(r) \/ InsertTable(r)
    \/ \E r \in Readers, x \in Handles : ReleaseTable(r, x)
    \/ \E f \in Files : Evict(f)
    \/ Prune

CacheSpec == CacheInit /\ [][CacheNext]_cache_vars

-----------------------------------------------------------------------------
\* A table a reader holds is never closed under it, however it was evicted or
\* replaced by a second opening of the same file; one nobody holds and the cache
\* has dropped is closed exactly once; what the cache keeps, and charges for, is
\* what lookups find, and only tables nobody holds wait to be evicted.
CacheSound ==
    LET kept == {x \in Handles : handle[x].in_cache}
        holders(x) == Cardinality({r \in Readers : x \in held[r]})
    IN  /\ \A x \in Handles :
              /\ handle[x].refs = holders(x) + (IF x \in kept THEN 1 ELSE 0)
              /\ handle[x].deleted = (IF handle[x].refs = 0 THEN 1 ELSE 0)
              /\ x \in kept => FindPointer(lru, handle, handle[x].key) = {x}
        /\ UNION {lru.buckets[b] : b \in DOMAIN lru.buckets} = kept
        /\ ToSet(lru.lru) = {x \in kept : holders(x) = 0}
        /\ lru.in_use = {x \in kept : holders(x) > 0}
        /\ lru.usage = Cardinality(kept) /\ lru.elems = lru.usage
=============================================================================
