----------------------------- MODULE Iterators ------------------------------
(***************************************************************************)
(* Iterating over the on-device leveldb: DBIter (db/db_iter.cc) on top of  *)
(* a MergingIterator (table/merger.cc) whose children are the memtable and *)
(* TwoLevelIterators (table/two_level_iterator.cc) over the blocks of      *)
(* tables or the files of a level.                                         *)
(*                                                                         *)
(* The user calls Seek, SeekToFirst, SeekToLast, Next and Prev in any      *)
(* order; between any two steps of the iterator another thread may add to  *)
(* the memtable, and any read of a block may fail.                         *)
(***************************************************************************)
EXTENDS Integers, FiniteSets, Sequences

CONSTANTS
    Layouts,       \* databases: memtable, tables as sequences of blocks, sequence number read at
    MaxIterWrites, \* bound: entries added while iterating
    MaxIterFaults  \* bound: block reads that fail

VARIABLES
    it_db,      \* the tables and the sequence number of the iterator
    it_mem,     \* entries of the memtable
    it,         \* the iterator
    it_ref,     \* {} or {k}: where the user must be (specification only)
    it_faults   \* block reads that failed

it_vars == <<it_db, it_mem, it, it_ref, it_faults>>

\* InternalKeyComparator::Compare: increasing user key, then decreasing sequence.
Before(a, b) == a.k < b.k \/ (a.k = b.k /\ a.s > b.s)

\* A position is the entry an iterator is at, or nothing: a set of at most one entry.
FirstOf(S) == {e \in S : \A x \in S : ~Before(x, e)}
LastOf(S)  == {e \in S : \A x \in S : ~Before(e, x)}
From(S, t) == FirstOf({e \in S : ~Before(e, t)})
After(S, p)    == FirstOf({e \in S : \E x \in p : Before(x, e)})
Preceding(S, p) == LastOf({e \in S : \E x \in p : Before(e, x)})
The(p) == CHOOSE e \in p : TRUE

-----------------------------------------------------------------------------
(* TwoLevelIterator.  idx: index_iter_ (0 when not valid); b: the block of *)
(* data_iter_ (0 for nullptr); at: its position; err: its status; st: the  *)
(* saved status.  bad is the set of blocks that cannot be read now.        *)

NoData == [idx |-> 0, b |-> 0, at |-> {}, err |-> FALSE, st |-> FALSE]

\* Mutant: the status of the iterator being replaced is not kept.
SetDataIteratorForgets(c, b, err) == [c EXCEPT !.b = b, !.at = {}, !.err = err]

SetDataIterator(c, b, err) ==
    [c EXCEPT !.b = b, !.at = {}, !.err = err, !.st = c.st \/ (c.b # 0 /\ c.err)]

InitDataBlock(c, bad) ==
    IF c.idx = 0 THEN SetDataIterator(c, 0, FALSE)
    ELSE IF c.b # 0 /\ c.b = c.idx THEN c
    ELSE SetDataIterator(c, c.idx, c.idx \in bad)

\* A data iterator that could not be made is never valid.
Data(c, blocks) == IF c.b = 0 \/ c.err THEN {} ELSE blocks[c.b].data

SkipEmptyDataBlocks(c0, blocks, bad, Move(_), End(_)) ==
    LET Skip[n \in 0..(Len(blocks) + 1)] ==
            IF n = 0 THEN c0
            ELSE LET c == Skip[n - 1]
                     moved == InitDataBlock([c EXCEPT !.idx = Move(c.idx)], bad)
                 IN  IF c.at # {} THEN c
                     ELSE IF c.idx = 0 THEN SetDataIterator(c, 0, FALSE)
                     ELSE [moved EXCEPT !.at = End(Data(moved, blocks))]
    IN  Skip[Len(blocks) + 1]

SkipEmptyDataBlocksForward(c, blocks, bad) ==
    LET Up(i) == IF i = Len(blocks) THEN 0 ELSE i + 1
    IN  SkipEmptyDataBlocks(c, blocks, bad, Up, FirstOf)
SkipEmptyDataBlocksBackward(c, blocks, bad) ==
    LET Down(i) == i - 1
    IN  SkipEmptyDataBlocks(c, blocks, bad, Down, LastOf)

\* The index entry Seek(target) finds: the first whose key is not before the target.
IndexSeek(blocks, t) ==
    LET S == {i \in 1..Len(blocks) : ~Before(blocks[i].sep, t)}
    IN  IF S = {} THEN 0 ELSE CHOOSE i \in S : \A j \in S : i <= j

TwoLevelSeek(c, blocks, t, bad) ==
    LET d == InitDataBlock([c EXCEPT !.idx = IndexSeek(blocks, t)], bad)
    IN  SkipEmptyDataBlocksForward([d EXCEPT !.at = From(Data(d, blocks), t)], blocks, bad)
TwoLevelFirst(c, blocks, bad) ==
    LET d == InitDataBlock([c EXCEPT !.idx = 1], bad)
    IN  SkipEmptyDataBlocksForward([d EXCEPT !.at = FirstOf(Data(d, blocks))], blocks, bad)
TwoLevelLast(c, blocks, bad) ==
    LET d == InitDataBlock([c EXCEPT !.idx = Len(blocks)], bad)
    IN  SkipEmptyDataBlocksBackward([d EXCEPT !.at = LastOf(Data(d, blocks))], blocks, bad)
TwoLevelNext(c, blocks, bad) ==
    SkipEmptyDataBlocksForward([c EXCEPT !.at = After(Data(c, blocks), c.at)], blocks, bad)
TwoLevelPrev(c, blocks, bad) ==
    SkipEmptyDataBlocksBackward([c EXCEPT !.at = Preceding(Data(c, blocks), c.at)], blocks, bad)

-----------------------------------------------------------------------------
(* The children: number 0 is the memtable, the others are tables. *)

Children == 0..Len(it_db.tables)
Blocks(i) == it_db.tables[i]
AnyBlock == UNION {{<<i, b>> : b \in DOMAIN Blocks(i)} : i \in 1..Len(it_db.tables)}
BadOf(i, bad) == {b[2] : b \in {x \in bad : x[1] = i}}

ChildSeek(i, c, t, bad) ==
    IF i = 0 THEN [c EXCEPT !.at = From(it_mem, t)]
    ELSE TwoLevelSeek(c, Blocks(i), t, BadOf(i, bad))
ChildFirst(i, c, bad) ==
    IF i = 0 THEN [c EXCEPT !.at = FirstOf(it_mem)]
    ELSE TwoLevelFirst(c, Blocks(i), BadOf(i, bad))
ChildLast(i, c, bad) ==
    IF i = 0 THEN [c EXCEPT !.at = LastOf(it_mem)]
    ELSE TwoLevelLast(c, Blocks(i), BadOf(i, bad))
ChildNext(i, c, bad) ==
    IF i = 0 THEN [c EXCEPT !.at = After(it_mem, c.at)]
    ELSE TwoLevelNext(c, Blocks(i), BadOf(i, bad))
ChildPrev(i, c, bad) ==
    IF i = 0 THEN [c EXCEPT !.at = Preceding(it_mem, c.at)]
    ELSE TwoLevelPrev(c, Blocks(i), BadOf(i, bad))

-----------------------------------------------------------------------------
(* MergingIterator: ch are its children, cur the current one or none. *)

Fwd == "forward"
Rev == "reverse"

FindSmallest(ch) ==
    {i \in Children : ch[i].at # {} /\ \A j \in Children :
        ch[j].at # {} => ~Before(The(ch[j].at), The(ch[i].at))}
FindLargest(ch) ==
    {i \in Children : ch[i].at # {} /\ \A j \in Children :
        ch[j].at # {} => ~Before(The(ch[i].at), The(ch[j].at))}

AtSmallest(ch) == [ch |-> ch, cur |-> FindSmallest(ch), dir |-> Fwd]
AtLargest(ch)  == [ch |-> ch, cur |-> FindLargest(ch), dir |-> Rev]

MergeFirst(m, bad) == AtSmallest([i \in Children |-> ChildFirst(i, m.ch[i], bad)])
MergeLast(m, bad)  == AtLargest([i \in Children |-> ChildLast(i, m.ch[i], bad)])
MergeSeek(m, t, bad) == AtSmallest([i \in Children |-> ChildSeek(i, m.ch[i], t, bad)])

MergeValid(m) == m.cur # {}
MergeKey(m) == The(m.ch[The(m.cur)].at)

\* MergingIterator::Next: after a change of direction every other child is put
\* after key().
PutAfter(i, c, key, bad) ==
    LET s == ChildSeek(i, c, key, bad)
    IN  IF s.at = {key} THEN ChildNext(i, s, bad) ELSE s
\* MergingIterator::Prev: ... before key().
PutBefore(i, c, key, bad) ==
    LET s == ChildSeek(i, c, key, bad)
    IN  IF s.at # {} THEN ChildPrev(i, s, bad) ELSE ChildLast(i, s, bad)

MergeNext(m, bad) ==
    AtSmallest([i \in Children |->
        IF i \in m.cur THEN ChildNext(i, m.ch[i], bad)
        ELSE IF m.dir = Fwd THEN m.ch[i]
        ELSE PutAfter(i, m.ch[i], MergeKey(m), bad)])
MergePrev(m, bad) ==
    AtLargest([i \in Children |->
        IF i \in m.cur THEN ChildPrev(i, m.ch[i], bad)
        ELSE IF m.dir = Rev THEN m.ch[i]
        ELSE PutBefore(i, m.ch[i], MergeKey(m), bad)])

\* MergingIterator::status and TwoLevelIterator::status.
Failed(m) == \E i \in Children : m.ch[i].st \/ (m.ch[i].b # 0 /\ m.ch[i].err)

-----------------------------------------------------------------------------
(* What the user must see. *)

Everything == it_mem \cup UNION {Blocks(x[1])[x[2]].data : x \in AnyBlock}
Newest(k) == FirstOf({e \in Everything : e.k = k /\ e.s <= it_db.seq})
VisibleKeys == {k \in {e.k : e \in Everything} : \E e \in Newest(k) : ~e.del}
Lowest(K)  == {k \in K : \A x \in K : k <= x}
Highest(K) == {k \in K : \A x \in K : x <= k}

-----------------------------------------------------------------------------
(* DBIter.  pc: no call (idle), in FindNextUserEntry (next), in the loop   *)
(* of Prev that leaves the entries of the current key (scan), in           *)
(* FindPrevUserEntry (prev).                                               *)

IterInit ==
    /\ it_db \in Layouts /\ it_mem = it_db.mem
    /\ it = [pc |-> "idle", dir |-> Fwd, valid |-> FALSE, skey |-> {}, sval |-> {},
             skipping |-> FALSE, live |-> FALSE,
             m |-> [ch |-> [i \in Children |-> NoData], cur |-> {}, dir |-> Fwd]]
    /\ it_ref = {} /\ it_faults = 0

\* A step of the iterator, in which at most one block cannot be read.
Reads(bad) ==
    /\ bad = {} \/ (it_faults < MaxIterFaults /\ \E x \in AnyBlock : bad = {x})
    /\ it_faults' = it_faults + Cardinality(bad)
    /\ UNCHANGED <<it_db, it_mem>>

\* Go on with FindNextUserEntry when the internal iterator is valid.
FindNext(m, sval, skipping, skey) ==
    IF MergeValid(m)
    THEN it' = [it EXCEPT !.pc = "next", !.dir = Fwd, !.m = m, !.sval = sval,
                        !.skipping = skipping, !.skey = skey]
    ELSE it' = [it EXCEPT !.pc = "idle", !.dir = Fwd, !.m = m, !.sval = sval,
                        !.valid = FALSE, !.skey = {}]

DoSeek(t, bad) ==
    /\ it.pc = "idle" /\ Reads(bad)
    /\ FindNext(MergeSeek(it.m, [k |-> t, s |-> it_db.seq], bad), {}, FALSE, {})
    /\ it_ref' = Lowest({k \in VisibleKeys : k >= t})

DoSeekToFirst(bad) ==
    /\ it.pc = "idle" /\ Reads(bad)
    /\ FindNext(MergeFirst(it.m, bad), {}, FALSE, it.skey)
    /\ it_ref' = Lowest(VisibleKeys)

DoSeekToLast(bad) ==
    /\ it.pc = "idle" /\ Reads(bad)
    /\ it' = [it EXCEPT !.pc = "prev", !.dir = Rev, !.sval = {}, !.live = FALSE,
                        !.m = MergeLast(it.m, bad)]
    /\ it_ref' = Highest(VisibleKeys)

DoNext(bad) ==
    /\ it.pc = "idle" /\ it.valid /\ Reads(bad)
    /\ IF it.dir = Rev
       THEN FindNext(IF MergeValid(it.m) THEN MergeNext(it.m, bad) ELSE MergeFirst(it.m, bad),
                     it.sval, TRUE, it.skey)
       ELSE FindNext(MergeNext(it.m, bad), it.sval, TRUE, {MergeKey(it.m).k})
    /\ it_ref' = Lowest({k \in VisibleKeys : \E x \in it_ref : k > x})

\* One round of FindNextUserEntry.
FindNextUserEntry(bad) ==
    /\ it.pc = "next" /\ Reads(bad) /\ UNCHANGED it_ref
    /\ LET e       == MergeKey(it.m)
           visible == e.s <= it_db.seq
           hidden  == it.skipping /\ \E k \in it.skey : e.k <= k
       IN  IF visible /\ ~e.del /\ ~hidden
           THEN bad = {} /\ it' = [it EXCEPT !.pc = "idle", !.valid = TRUE, !.skey = {}]
           ELSE FindNext(MergeNext(it.m, bad), it.sval, it.skipping \/ (visible /\ e.del),
                         IF visible /\ e.del THEN {e.k} ELSE it.skey)

DoPrev ==
    /\ it.pc = "idle" /\ it.valid
    /\ it' = IF it.dir = Fwd
             THEN [it EXCEPT !.pc = "scan", !.skey = {MergeKey(it.m).k}]
             ELSE [it EXCEPT !.pc = "prev", !.live = FALSE]
    /\ it_ref' = Highest({k \in VisibleKeys : \E x \in it_ref : k < x})
    /\ UNCHANGED <<it_db, it_mem, it_faults>>

\* One round of the loop of Prev, which leaves the internal iterator at m.
ScannedTo(m) ==
    IF ~MergeValid(m)
    THEN [it EXCEPT !.pc = "idle", !.valid = FALSE, !.m = m, !.skey = {}, !.sval = {}]
    ELSE IF \E k \in it.skey : MergeKey(m).k < k
    THEN [it EXCEPT !.pc = "prev", !.dir = Rev, !.live = FALSE, !.m = m]
    ELSE [it EXCEPT !.m = m]
ScanBack(bad) ==
    /\ it.pc = "scan" /\ Reads(bad) /\ UNCHANGED it_ref
    /\ it' = ScannedTo(MergePrev(it.m, bad))

\* FindPrevUserEntry is over; live says that value_type is not kTypeDeletion.
EndPrev(i) ==
    IF i.live THEN [i EXCEPT !.pc = "idle", !.valid = TRUE]
    ELSE [i EXCEPT !.pc = "idle", !.valid = FALSE, !.skey = {}, !.sval = {}, !.dir = Fwd]

\* One round of FindPrevUserEntry.
FindPrevUserEntry(bad) ==
    /\ it.pc = "prev" /\ Reads(bad) /\ UNCHANGED it_ref
    /\ IF ~MergeValid(it.m) THEN bad = {} /\ it' = EndPrev(it)
       ELSE LET e       == MergeKey(it.m)
                visible == e.s <= it_db.seq
                seen    == IF ~visible THEN it
                           ELSE IF e.del THEN [it EXCEPT !.live = FALSE, !.skey = {}, !.sval = {}]
                           ELSE [it EXCEPT !.live = TRUE, !.skey = {e.k}, !.sval = {e.s}]
            IN  IF visible /\ it.live /\ \E k \in it.skey : e.k < k
                THEN bad = {} /\ it' = EndPrev(it)
                ELSE it' = [seen EXCEPT !.m = MergePrev(it.m, bad)]

\* Another thread writes: the entry is newer than the iterator's sequence number.
ConcurrentWrite(k, del) ==
    LET s == 1 + it_db.seq + Cardinality({e \in it_mem : e.s > it_db.seq})
    IN  /\ s <= it_db.seq + MaxIterWrites
        /\ it_mem' = it_mem \cup {[k |-> k, s |-> s, del |-> del]}
        /\ UNCHANGED <<it_db, it, it_ref, it_faults>>

IterKeys == {e.k : e \in Everything}

IterNext ==
    \/ \E bad \in {{}} \cup {{x} : x \in AnyBlock} :
          \/ \E t \in IterKeys : DoSeek(t, bad)
          \/ DoSeekToFirst(bad)
          \/ DoSeekToLast(bad)
          \/ DoNext(bad)
          \/ FindNextUserEntry(bad)
          \/ ScanBack(bad)
          \/ FindPrevUserEntry(bad)
    \/ DoPrev
    \/ \E k \in IterKeys, del \in BOOLEAN : ConcurrentWrite(k, del)

-----------------------------------------------------------------------------
\* DBIter::key and DBIter::value.
IterKey   == IF it.dir = Fwd THEN MergeKey(it.m).k ELSE The(it.skey)
IterValue == IF it.dir = Fwd THEN MergeKey(it.m).s ELSE The(it.sval)

\* After any sequence of Seek, Next and Prev calls, with the memtable growing
\* underneath and blocks failing to load, an iterator whose status is ok is at
\* the key the user expects, with the newest value the snapshot holds.
IterAgrees ==
    (it.pc = "idle" /\ ~Failed(it.m)) =>
        /\ it.valid <=> it_ref # {}
        /\ it.valid => it_ref = {IterKey} /\ Newest(IterKey) # {}
                       /\ IterValue = The(Newest(IterKey)).s
=============================================================================
