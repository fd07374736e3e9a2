---------------------------- MODULE MemoryProofs ----------------------------
(***************************************************************************)
(* The structures leveldb keeps in memory.                                 *)
(*                                                                         *)
(* The lock-free reads of the skip list (db/skiplist.h), for any number of *)
(* keys, levels, entries and reads.  The invariant says of every level     *)
(* that its published nodes form one sorted list from head_ (LinksInv),    *)
(* that a node on a level is on every level below it (TowerInv), that the  *)
(* writer's prev[] still names the neighbours of the node it links         *)
(* (WriterInv), and that the reader stands on a node of its level that is  *)
(* before its target (ReaderInv).  A node whose link on a level is stored  *)
(* but that nobody points to there is not on that level yet (On).          *)
(*                                                                         *)
(* The cache of open tables (db/table_cache.cc, util/cache.cc), for any    *)
(* number of readers, files, capacities and handles.  The invariant        *)
(* (ShardInv) counts a reference of a handle for each reader that holds it *)
(* and one for the cache (RefsInv), finds each handle of the cache in the  *)
(* bucket of its key (TableInv), and puts it on lru_ if nobody holds it    *)
(* and on in_use_ if somebody does (ListsInv).  Each operation of the      *)
(* cache keeps it, whatever the order of the calls.                        *)
(***************************************************************************)
EXTENDS MemTable, TableCache, FiniteSetTheorems, SequenceTheorems, WellFoundedInduction, TLAPS

\* head_ and the nodes NewNode may make.
Nodes == EntryNumbers \cup {HeadNode}
Inserting == {"height", "link", "publish"}
Walking == {"ge", "lt", "last"}

\* The types of the list and of the last sequence.
ListTypes ==
    /\ sl \in [next: [Nodes -> [SkipLevels -> EntryNumbers \cup {Nil, Unset}]],
               heights: Seq(1..kMaxHeight), linked: [EntryNumbers -> BOOLEAN]]
    /\ Len(sl.heights) > 0
    /\ mem_seq \in 0..MaxMemEntries

\* The types of the writer.
WriterTypes ==
    wr \in [pc: Inserting \cup {"idle", "linked"}, key: Nodes, height: 0..kMaxHeight,
            prev: [SkipLevels -> Nodes], level: 0..kMaxHeight]

\* The types of the reader.
ReaderTypes ==
    rdr \in [pc: Walking \cup {"idle", "done"},
             op: {"none", "get", "seek", "prev", "last", "next", "first"},
             target: Nat, x: Nodes, level: SkipLevels, node: EntryNumbers \cup {Nil},
             before: SUBSET EntryNumbers, seq: 0..MaxMemEntries, n: Nat]

\* The nodes that SetNext has put on level l.
On(l) ==
    {n \in Inserted : /\ sl.next[n][l] # Unset
                      /\ ~(wr.pc = "publish" /\ n = wr.key /\ l = wr.level)}

\* On every level the links lead from node to node in order and skip nobody.
LinksInv ==
    \A l \in SkipLevels : \A n \in On(l) \cup {HeadNode} :
        /\ sl.next[n][l] = Nil \/ (sl.next[n][l] \in On(l) /\ n < sl.next[n][l])
        /\ \A m \in On(l) : n < m => sl.next[n][l] # Nil /\ sl.next[n][l] <= m

\* A node on a level is on the levels below, and no level is above max_height_.
TowerInv ==
    /\ Inserted \subseteq On(0)
    /\ \A l \in SkipLevels : \A n \in On(l) : l < MaxHeight /\ (l > 0 => n \in On(l - 1))

\* Only the node being inserted is newer than LastSequence(), and no other node
\* has links before it is in the list.
FreshInv ==
    /\ \A e \in Inserted : SequenceOf(e) <= mem_seq \/ (wr.pc # "idle" /\ e = wr.key)
    /\ wr.pc # "idle" =>
         wr.key \in EntryNumbers /\ SequenceOf(wr.key) = mem_seq + 1 /\ mem_seq < MaxMemEntries
    /\ \A e \in EntryNumbers \ Inserted :
         \/ wr.pc = "publish" /\ e = wr.key
         \/ \A l \in SkipLevels : sl.next[e][l] = Unset

\* prev[l] is the last node before the new one on level l.
PrevInv(l) ==
    /\ wr.prev[l] \in On(l) \cup {HeadNode} /\ wr.prev[l] < wr.key
    /\ \A m \in On(l) : m <= wr.prev[l] \/ m > wr.key

\* The writer links its node level by level from the bottom, prev[] stays right above.
WriterInv ==
    /\ wr.pc \in Inserting =>
         /\ wr.level < wr.height
         /\ wr.key \in Inserted <=> wr.level > 0
         /\ wr.level > 0 => wr.key \in On(wr.level - 1)
         /\ \A l \in SkipLevels : l > wr.level => sl.next[wr.key][l] = Unset
         /\ \A l \in SkipLevels : l >= wr.level => PrevInv(l)
    /\ wr.pc = "height" => wr.level = 0
    /\ wr.pc \in {"height", "link"} => sl.next[wr.key][wr.level] = Unset
    /\ wr.pc \in {"link", "publish"} => wr.height <= MaxHeight
    /\ wr.pc = "publish" =>
         sl.next[wr.key][wr.level] = sl.next[wr.prev[wr.level]][wr.level]

\* The reader stands on its level before its target, and its snapshot of the complete
\* entries holds everything its sequence number may see.
ReaderInv ==
    /\ rdr.node \in Inserted \cup {Nil}
    /\ rdr.pc # "idle" =>
         /\ rdr.before \subseteq Inserted /\ rdr.seq <= mem_seq
         /\ \A e \in Inserted : SequenceOf(e) <= rdr.seq => e \in rdr.before
         /\ rdr.op = "get" => \E k \in MemUserKeys : rdr.target = EntryOf(k, rdr.seq)
    /\ rdr.pc \in Walking => rdr.x \in On(rdr.level) \cup {HeadNode}
    /\ rdr.pc = "ge" => rdr.op \in {"get", "seek"} /\ rdr.x < rdr.target
    /\ rdr.pc = "lt" => rdr.op = "prev" /\ rdr.x < rdr.target
    /\ rdr.pc = "last" => rdr.op = "last"

\* What a finished operation found.
ResultInv ==
    rdr.pc = "done" =>
        /\ rdr.op # "none"
        /\ rdr.op \in {"get", "seek"} =>
             /\ rdr.node = Nil \/ rdr.node >= rdr.target
             /\ \A e \in rdr.before : e >= rdr.target => rdr.node # Nil /\ rdr.node <= e
        /\ rdr.op \in {"next", "first"} =>
             /\ rdr.node = Nil \/ rdr.node > rdr.target
             /\ \A e \in rdr.before : e > rdr.target => rdr.node # Nil /\ rdr.node <= e
        /\ rdr.op = "prev" =>
             /\ rdr.node = Nil \/ rdr.node < rdr.target
             /\ \A e \in rdr.before : e < rdr.target => rdr.node >= e
        /\ rdr.op = "last" => \A e \in rdr.before : rdr.node >= e

\* The inductive invariant.
MemInv ==
    /\ ListTypes /\ WriterTypes /\ ReaderTypes
    /\ LinksInv /\ TowerInv /\ FreshInv /\ WriterInv /\ ReaderInv /\ ResultInv

-----------------------------------------------------------------------------
(* Entries as numbers. *)

\* The entries of a user key occupy Span numbers.
LEMMA SpanType == Span \in Nat \ {0} /\ Span = MaxMemEntries + 1
  BY MemTableConstants DEF Span

\* Two-digit numbers in base s.
LEMMA Digits ==
    ASSUME NEW s \in Nat \ {0}, NEW k \in Nat, NEW r \in 0..(s - 1)
    PROVE  k * s + r \in Nat /\ (k * s + r) \div s = k /\ (k * s + r) % s = r
  OBVIOUS

\* Integer division keeps the order.
LEMMA DivMonotone ==
    ASSUME NEW s \in Nat \ {0}, NEW a \in Nat, NEW b \in Nat, a <= b
    PROVE  a \div s <= b \div s
  OBVIOUS

\* A positive multiple is at least the number.
LEMMA OneMore ==
    ASSUME NEW s \in Nat \ {0}, NEW k \in Nat \ {0}
    PROVE  k * s >= s
  OBVIOUS

\* An internal key holds its user key and its sequence number, and is after head_.
LEMMA EntryFacts ==
    ASSUME NEW k \in MemUserKeys, NEW s \in 0..MaxMemEntries
    PROVE  /\ EntryOf(k, s) \in Nat \ {0}
           /\ UserKeyOf(EntryOf(k, s)) = k
           /\ SequenceOf(EntryOf(k, s)) = s
<1> DEFINE r == Span - 1 - s
<1>1. k \in Nat \ {0} /\ r \in 0..(Span - 1) /\ s \in Nat
  BY SpanType, MemTableConstants
<1>2. k * Span + r \in Nat /\ (k * Span + r) \div Span = k /\ (k * Span + r) % Span = r
  <2> HIDE DEF r
  <2> QED
    BY <1>1, SpanType, Digits
<1>3. k * Span >= Span
  BY <1>1, SpanType, OneMore
<1>4. EntryOf(k, s) = k * Span + r
  BY DEF EntryOf
<1>5. k * Span + r # 0
  <2> DEFINE p == k * Span
  <2>1. p \in Nat
    BY <1>1, SpanType
  <2> HIDE DEF p
  <2>2. p + r # 0
    BY <2>1, <1>1, <1>3, SpanType DEF p
  <2> QED
    BY <2>2 DEF p
<1>6. Span - 1 - r = s
  BY SpanType, <1>1
<1> QED
  BY <1>2, <1>4, <1>5, <1>6 DEF UserKeyOf, SequenceOf

\* Every entry is the internal key of a user key and a sequence number.
LEMMA EntryNumberFacts ==
    ASSUME NEW e \in EntryNumbers
    PROVE  /\ e \in Nat \ {0}
           /\ UserKeyOf(e) \in MemUserKeys
           /\ SequenceOf(e) \in 1..MaxMemEntries
           /\ e = EntryOf(UserKeyOf(e), SequenceOf(e))
<1>1. PICK k \in MemUserKeys, s \in 1..MaxMemEntries : e = EntryOf(k, s)
  BY DEF EntryNumbers
<1>2. s \in 0..MaxMemEntries
  BY MemTableConstants
<1> QED
  BY <1>1, <1>2, EntryFacts

\* Entries are positive, so head_ is before all of them.
LEMMA EntryNumbersType == EntryNumbers \subseteq Nat \ {0}
  BY EntryNumberFacts

\* InternalKeyComparator: within one user key a smaller number is a newer entry.
LEMMA NewerIsSmaller ==
    ASSUME NEW e \in EntryNumbers, NEW k \in MemUserKeys, NEW s \in 0..MaxMemEntries,
           UserKeyOf(e) = k
    PROVE  e >= EntryOf(k, s) <=> SequenceOf(e) <= s
<1>1. e = EntryOf(k, SequenceOf(e)) /\ SequenceOf(e) \in 1..MaxMemEntries
  BY EntryNumberFacts
<1> DEFINE p == k * Span
           q == SequenceOf(e)
<1>2. p \in Nat /\ q \in Nat /\ s \in Nat
  BY <1>1, SpanType, MemTableConstants
<1>3. e = p + (Span - 1 - q) /\ EntryOf(k, s) = p + (Span - 1 - s)
  BY <1>1 DEF EntryOf
<1> HIDE DEF p, q
<1>4. e >= EntryOf(k, s) <=> q <= s
  BY <1>2, <1>3, SpanType
<1> QED
  BY <1>4 DEF q

\* InternalKeyComparator: the entries of one user key are next to each other.
LEMMA KeysTogether ==
    ASSUME NEW a \in Nat, NEW b \in Nat, NEW c \in Nat, a <= b, b <= c,
           UserKeyOf(a) = UserKeyOf(c)
    PROVE  UserKeyOf(b) = UserKeyOf(a)
<1>1. a \div Span <= b \div Span /\ b \div Span <= c \div Span
  BY SpanType, DivMonotone
<1>2. a \div Span \in Nat /\ b \div Span \in Nat /\ c \div Span \in Nat
  BY SpanType
<1> QED
  BY <1>1, <1>2 DEF UserKeyOf

\* A non-empty set of numbers has a least one.
LEMMA LeastElement ==
    ASSUME NEW S \in SUBSET Nat, S # {}
    PROVE  \E m \in S : \A k \in S : m <= k
<1>1. PICK m \in S : \A k \in S : <<k, m>> \notin OpToRel(<, Nat)
  BY NatLessThanWellFounded, WFMin
<1>2. \A k \in S : ~(k < m)
  BY <1>1 DEF OpToRel
<1> QED
  BY <1>2

\* A member that is below all members is the minimum.
LEMMA MinIs ==
    ASSUME NEW S \in SUBSET Nat, NEW m \in S, \A k \in S : m <= k
    PROVE  Min(S) = m
<1> DEFINE z == Min(S)
<1>1. z \in S /\ \A k \in S : z <= k
  BY DEF Min
<1> HIDE DEF z
<1>2. z <= m /\ m <= z /\ z \in Nat /\ m \in Nat
  BY <1>1
<1>3. z = m
  BY <1>2
<1> QED
  BY <1>3 DEF z

\* A bounded set of numbers has a greatest one: FindGreaterOrEqual's last node before a
\* key.
LEMMA MaxIsGreatest ==
    ASSUME NEW S \in SUBSET Nat, NEW b \in Nat, S # {}, \A k \in S : k <= b
    PROVE  Max(S) \in S /\ \A k \in S : k <= Max(S)
<1> DEFINE gaps == {n \in Nat : \E k \in S : n = b - k}
<1>1. gaps \in SUBSET Nat /\ gaps # {}
  <2>1. PICK k \in S : TRUE
    OBVIOUS
  <2>2. b - k \in gaps
    OBVIOUS
  <2> QED
    BY <2>2
<1>2. PICK g \in gaps : \A n \in gaps : g <= n
  BY <1>1, LeastElement
<1>3. PICK m \in S : g = b - m
  OBVIOUS
<1>4. \A k \in S : m >= k
  <2>1. TAKE k \in S
  <2>2. b - k \in gaps
    OBVIOUS
  <2> QED
    BY <1>2, <1>3, <2>2
<1>5. \A k \in S : Max(S) >= k /\ Max(S) \in S
  BY <1>4 DEF Max
<1> QED
  BY <1>4, <1>5 DEF Max

\* head_, nullptr and an uninitialised link are no entries.
LEMMA Constants0 ==
    /\ Nodes \subseteq Nat /\ 0 \in SkipLevels /\ SkipLevels \subseteq Nat
    /\ HeadNode \in Nodes /\ HeadNode \notin EntryNumbers /\ EntryNumbers \subseteq Nodes
    /\ Nil \notin Nodes /\ Unset \notin Nodes /\ Nil # Unset
    /\ \A e \in EntryNumbers : e \in Nat /\ e > HeadNode /\ e > Nil
  BY EntryNumbersType, MemTableConstants DEF Nodes, SkipLevels, HeadNode, Nil, Unset

\* Every height max_height_ ever had is the height of a tower.
LEMMA HeightTypes ==
    ASSUME ListTypes
    PROVE  /\ MaxHeight \in 1..kMaxHeight
           /\ \A i \in DOMAIN sl.heights : sl.heights[i] \in 1..kMaxHeight /\ sl.heights[i] - 1 \in SkipLevels
<1>1. sl.heights \in Seq(1..kMaxHeight) /\ Len(sl.heights) > 0
  BY DEF ListTypes
<1>2. \A i \in DOMAIN sl.heights : sl.heights[i] \in 1..kMaxHeight
  <2>1. DOMAIN sl.heights = 1..Len(sl.heights)
    BY <1>1
  <2> QED
    BY <1>1, <2>1, ElementOfSeq
<1>3. Len(sl.heights) \in DOMAIN sl.heights
  BY <1>1
<1>4. \A i \in DOMAIN sl.heights : sl.heights[i] - 1 \in SkipLevels
  BY <1>2, MemTableConstants DEF SkipLevels
<1> QED
  BY <1>2, <1>3, <1>4 DEF MaxHeight

-----------------------------------------------------------------------------
(* What a reader leaves alone, and what a writer does. *)

ListInv ==
    /\ ListTypes /\ WriterTypes /\ LinksInv /\ TowerInv /\ FreshInv /\ WriterInv

\* A step that stores nothing in the list keeps what is known of the list.
LEMMA ReaderLeavesList ==
    ASSUME ListInv, UNCHANGED <<sl, wr, mem_seq>>
    PROVE  ListInv' /\ Inserted' = Inserted /\ \A l \in SkipLevels : On(l)' = On(l)
<1>1. Inserted' = Inserted
  BY DEF Inserted
<1>2. \A l \in SkipLevels : On(l)' = On(l)
  BY <1>1 DEF On
<1>3. ListTypes' /\ WriterTypes'
  BY DEF ListInv, ListTypes, WriterTypes
<1>4. LinksInv'
  BY <1>2 DEF ListInv, LinksInv
<1>5. MaxHeight' = MaxHeight
  BY DEF MaxHeight
<1>6. TowerInv'
  <2>1. Inserted' \subseteq On(0)'
    BY <1>1, <1>2, Constants0 DEF ListInv, TowerInv
  <2>2. ASSUME NEW l \in SkipLevels, NEW n \in On(l)'
        PROVE  l < MaxHeight' /\ (l > 0 => n \in On(l - 1)')
    <3>1. n \in On(l) /\ l < MaxHeight /\ (l > 0 => n \in On(l - 1))
      BY <1>2, <2>2 DEF ListInv, TowerInv
    <3>2. l > 0 => l - 1 \in SkipLevels
      BY MemTableConstants DEF SkipLevels
    <3> QED
      BY <3>1, <3>2, <1>2, <1>5
  <2> QED
    BY <2>1, <2>2 DEF TowerInv
<1>7. FreshInv'
  BY <1>1 DEF ListInv, FreshInv
<1>8. \A l \in SkipLevels : PrevInv(l) => PrevInv(l)'
  BY <1>2 DEF PrevInv
<1>9. WriterInv'
  <2>1. wr.pc \in Inserting /\ wr.level > 0 => wr.level - 1 \in SkipLevels
    BY MemTableConstants DEF ListInv, WriterInv, WriterTypes, SkipLevels, Inserting
  <2>2. \A l \in SkipLevels : l >= wr.level /\ wr.pc \in Inserting => PrevInv(l)'
    BY <1>8 DEF ListInv, WriterInv
  <2> QED
    BY <1>1, <1>2, <1>5, <2>1, <2>2 DEF ListInv, WriterInv
<1> QED
  BY <1>1, <1>2, <1>3, <1>4, <1>6, <1>7, <1>9 DEF ListInv

\* A reader's facts survive when nodes only join the levels and each one is newer than
\* what was complete.
LEMMA WriterLeavesReader ==
    ASSUME ReaderTypes, ReaderInv, ResultInv, UNCHANGED rdr,
           Inserted \subseteq Inserted', \A l \in SkipLevels : On(l) \subseteq On(l)',
           mem_seq \in Nat, mem_seq' \in Nat, mem_seq <= mem_seq',
           \A e \in Inserted' \ Inserted : SequenceOf(e) > mem_seq /\ SequenceOf(e) \in Nat
    PROVE  ReaderTypes' /\ ReaderInv' /\ ResultInv'
<1>1. ReaderTypes'
  BY DEF ReaderTypes
<1>2. ResultInv'
  BY DEF ResultInv
<1>3. rdr.level \in SkipLevels /\ rdr.seq \in Nat
  BY MemTableConstants DEF ReaderTypes
<1>4. rdr.pc # "idle" => rdr.seq <= mem_seq' /\ \A e \in Inserted' : SequenceOf(e) <= rdr.seq => e \in rdr.before
  BY <1>3 DEF ReaderInv
<1>5. rdr.pc \in Walking => rdr.x \in On(rdr.level)' \cup {HeadNode}
  BY <1>3 DEF ReaderInv
<1>6. ReaderInv'
  BY <1>4, <1>5 DEF ReaderInv
<1> QED
  BY <1>1, <1>2, <1>6

-----------------------------------------------------------------------------
(* The reader's steps. *)

\* The first loads of FindGreaterOrEqual, FindLessThan and FindLast: any height will
\* do.
LEMMA BeginKeeps ==
    ASSUME MemInv, NEW op \in {"get", "seek", "prev", "last"}, NEW target \in Nat,
           NEW pc \in Walking, Begin(op, target, pc, HeadNode),
           op \in {"get", "seek"} <=> pc = "ge", op = "prev" <=> pc = "lt",
           pc \in {"ge", "lt"} => target > 0,
           op = "get" => \E k \in MemUserKeys : target = EntryOf(k, mem_seq)
    PROVE  MemInv'
<1>1. ListInv
  BY DEF MemInv, ListInv
<1>2. UNCHANGED <<sl, wr, mem_seq>>
  BY DEF Begin
<1>3. ListInv' /\ Inserted' = Inserted /\ \A l \in SkipLevels : On(l)' = On(l)
  BY <1>1, <1>2, ReaderLeavesList
<1>4. PICK i \in DOMAIN sl.heights :
        rdr' = [rdr EXCEPT !.pc = pc, !.op = op, !.target = target, !.x = HeadNode,
                           !.level = sl.heights[i] - 1, !.before = Complete, !.seq = mem_seq,
                           !.n = @ + 1]
  BY DEF Begin
<1>5. sl.heights[i] - 1 \in SkipLevels /\ mem_seq \in 0..MaxMemEntries
  BY HeightTypes DEF MemInv, ListTypes
<1>6. Complete \subseteq Inserted /\ Inserted \subseteq EntryNumbers
  BY DEF Complete, Inserted
<1>7. /\ rdr'.pc = pc /\ rdr'.op = op /\ rdr'.target = target /\ rdr'.x = HeadNode
      /\ rdr'.level \in SkipLevels /\ rdr'.before = Complete /\ rdr'.seq = mem_seq
      /\ rdr'.node = rdr.node
  BY <1>4, <1>5 DEF MemInv, ReaderTypes
<1>8. ReaderTypes'
  <2>1. Complete \in SUBSET EntryNumbers /\ HeadNode \in Nodes
    BY <1>6 DEF Nodes
  <2>2. rdr.n + 1 \in Nat /\ ReaderTypes
    BY DEF MemInv, ReaderTypes
  <2>3. PICK l \in SkipLevels : l = sl.heights[i] - 1
    BY <1>5
  <2>4. rdr' = [rdr EXCEPT !.pc = pc, !.op = op, !.target = target, !.x = HeadNode,
                           !.level = l, !.before = Complete, !.seq = mem_seq,
                           !.n = rdr.n + 1]
    BY <1>4, <2>2, <2>3 DEF ReaderTypes
  <2> QED
    BY <1>5, <2>1, <2>2, <2>4 DEF ReaderTypes
<1>9. ReaderInv'
  <2>1. rdr'.node \in Inserted' \cup {Nil}
    BY <1>3, <1>7 DEF MemInv, ReaderInv
  <2>2. rdr'.before \subseteq Inserted' /\ rdr'.seq <= mem_seq'
    BY <1>2, <1>3, <1>5, <1>6, <1>7, MemTableConstants
  <2>3. \A e \in Inserted' : SequenceOf(e) <= rdr'.seq => e \in rdr'.before
    BY <1>3, <1>7 DEF Complete
  <2>4. rdr'.op = "get" => \E k \in MemUserKeys : rdr'.target = EntryOf(k, rdr'.seq)
    BY <1>7
  <2>5. rdr'.x \in On(rdr.level)' \cup {HeadNode}
    BY <1>7
  <2>6. rdr'.pc \in {"ge", "lt"} => rdr'.x < rdr'.target
    BY <1>7 DEF HeadNode
  <2> QED
    BY <1>7, <2>1, <2>2, <2>3, <2>4, <2>5, <2>6 DEF ReaderInv, Walking
<1>10. ResultInv'
  BY <1>7 DEF ResultInv, Walking
<1> QED
  BY <1>3, <1>8, <1>9, <1>10 DEF MemInv, ListInv

\* One load of a walk: to the right it stays on the level, down it stays in the list,
\* at the bottom it is done.
LEMMA WalkKeeps ==
    ASSUME MemInv, Walk
    PROVE  MemInv'
<1>1. ListInv
  BY DEF MemInv, ListInv
<1>2. UNCHANGED <<sl, wr, mem_seq>>
  BY DEF Walk
<1>3. ListInv' /\ Inserted' = Inserted /\ \A l \in SkipLevels : On(l)' = On(l)
  BY <1>1, <1>2, ReaderLeavesList
<1> DEFINE next == sl.next[rdr.x][rdr.level]
<1>4. /\ rdr.pc \in Walking
      /\ rdr' = IF ~StopHere(next) THEN [rdr EXCEPT !.x = next]
                ELSE IF rdr.level > 0 THEN [rdr EXCEPT !.level = @ - 1]
                ELSE [rdr EXCEPT !.pc = "done", !.node = Found(next)]
  BY DEF Walk, Walking
<1>5. rdr.x \in On(rdr.level) \cup {HeadNode} /\ rdr.level \in SkipLevels
  BY <1>4 DEF MemInv, ReaderInv, ReaderTypes
<1>6. /\ next = Nil \/ (next \in On(rdr.level) /\ rdr.x < next)
      /\ \A m \in On(rdr.level) : rdr.x < m => next # Nil /\ next <= m
  BY <1>5 DEF MemInv, LinksInv
<1>7. rdr.x \in Nat /\ rdr.target \in Nat /\ rdr.x \in Nodes
  BY Constants0 DEF MemInv, ReaderTypes
<1>8. \A l \in SkipLevels : On(l) \subseteq Inserted /\ Inserted \subseteq EntryNumbers
  BY DEF On, Inserted
<1>9. next = Nil \/ (next \in EntryNumbers /\ next \in Nat /\ next > HeadNode)
  BY <1>5, <1>6, <1>8, Constants0
<1>10. /\ rdr.before \subseteq Inserted /\ rdr.seq <= mem_seq
       /\ \A e \in Inserted : SequenceOf(e) <= rdr.seq => e \in rdr.before
       /\ rdr.op = "get" => \E k \in MemUserKeys : rdr.target = EntryOf(k, rdr.seq)
       /\ rdr.pc = "ge" => rdr.op \in {"get", "seek"} /\ rdr.x < rdr.target
       /\ rdr.pc = "lt" => rdr.op = "prev" /\ rdr.x < rdr.target
       /\ rdr.pc = "last" => rdr.op = "last"
       /\ rdr.node \in Inserted \cup {Nil}
  BY <1>4 DEF MemInv, ReaderInv, Walking
<1>11. Inserted \subseteq On(0)
  BY DEF MemInv, TowerInv
<1>12. CASE ~StopHere(next)
  <2>1. rdr' = [rdr EXCEPT !.x = next]
    BY <1>4, <1>12
  <2>2. next # Nil /\ (rdr.pc \in {"ge", "lt"} => next < rdr.target)
    BY <1>12, <1>4, <1>9 DEF StopHere, KeyIsAfterNode, Walking
  <2> HIDE DEF next
  <2>3. /\ rdr'.pc = rdr.pc /\ rdr'.op = rdr.op /\ rdr'.target = rdr.target /\ rdr'.x = next
        /\ rdr'.level = rdr.level /\ rdr'.before = rdr.before /\ rdr'.seq = rdr.seq
        /\ rdr'.node = rdr.node
    BY <2>1 DEF MemInv, ReaderTypes
  <2>4. ReaderTypes'
    BY <2>1, <2>2, <1>9 DEF MemInv, ReaderTypes, Nodes
  <2>5. next \in On(rdr.level)'
    BY <1>3, <1>5, <1>6, <2>2, <2>3
  <2>6. ReaderInv'
    BY <1>2, <1>3, <1>4, <1>10, <2>2, <2>3, <2>5 DEF ReaderInv, Walking
  <2>7. ResultInv'
    BY <1>4, <2>3 DEF ResultInv, Walking
  <2> QED
    BY <1>3, <2>4, <2>6, <2>7 DEF MemInv, ListInv
<1>13. CASE StopHere(next) /\ rdr.level > 0
  <2>1. rdr' = [rdr EXCEPT !.level = @ - 1]
    BY <1>4, <1>13
  <2>2. rdr.level - 1 \in SkipLevels
    BY <1>5, <1>13, MemTableConstants DEF SkipLevels
  <2>3. rdr.x \in On(rdr.level - 1) \cup {HeadNode}
    BY <1>5, <1>13 DEF MemInv, TowerInv
  <2> HIDE DEF next
  <2>4. /\ rdr'.pc = rdr.pc /\ rdr'.op = rdr.op /\ rdr'.target = rdr.target /\ rdr'.x = rdr.x
        /\ rdr'.level = rdr.level - 1 /\ rdr'.before = rdr.before /\ rdr'.seq = rdr.seq
        /\ rdr'.node = rdr.node
    BY <2>1 DEF MemInv, ReaderTypes
  <2>5. ReaderTypes'
    BY <2>1, <2>2 DEF MemInv, ReaderTypes
  <2>6. \A l \in SkipLevels : l = rdr'.level => rdr'.x \in On(l)' \cup {HeadNode}
    BY <1>3, <2>2, <2>3, <2>4
  <2>7. rdr'.x \in On(rdr.level)' \cup {HeadNode}
    BY <2>6, <2>2, <2>4
  <2>8. ReaderInv'
    BY <1>2, <1>3, <1>4, <1>10, <2>4, <2>7 DEF ReaderInv, Walking
  <2>9. ResultInv'
    BY <1>4, <2>4 DEF ResultInv, Walking
  <2> QED
    BY <1>3, <2>5, <2>8, <2>9 DEF MemInv, ListInv
<1>14. CASE StopHere(next) /\ ~(rdr.level > 0)
  <2> DEFINE node == Found(next)
  <2>1. rdr' = [rdr EXCEPT !.pc = "done", !.node = node]
    BY <1>4, <1>14
  <2>2. rdr.level = 0
    <3>1. rdr.level \in Nat
      BY <1>5, Constants0
    <3> QED
      BY <3>1, <1>14
  <2>3. /\ rdr.pc \in {"ge", "lt"} => next = Nil \/ next >= rdr.target
        /\ rdr.pc = "last" => next = Nil
    BY <1>14, <1>7, <1>9 DEF StopHere, KeyIsAfterNode
  <2>4. /\ rdr.pc = "ge" => node = next
        /\ rdr.pc \in {"lt", "last"} => node = IF rdr.x = HeadNode THEN Nil ELSE rdr.x
    BY DEF Found
  <2>5. rdr.x = HeadNode \/ rdr.x \in Inserted
    BY <1>5, <1>8
  <2>6. next = Nil \/ next \in Inserted
    BY <1>5, <1>6, <1>8
  <2> HIDE DEF node, next
  <2>7. node \in Inserted \cup {Nil}
    BY <1>4, <2>4, <2>5, <2>6 DEF Walking
  <2>8. /\ rdr'.pc = "done" /\ rdr'.op = rdr.op /\ rdr'.target = rdr.target
        /\ rdr'.before = rdr.before /\ rdr'.seq = rdr.seq /\ rdr'.node = node
    BY <2>1 DEF MemInv, ReaderTypes
  <2>9. ReaderTypes'
    BY <2>1, <2>7, <1>8, Constants0 DEF MemInv, ReaderTypes
  <2>10. ReaderInv'
    BY <1>2, <1>3, <1>10, <2>7, <2>8 DEF ReaderInv, Walking
  <2>11. \A e \in rdr.before : e \in Nat /\ e > HeadNode /\ e > Nil /\ (rdr.x < e => next # Nil /\ next <= e)
    BY <1>6, <1>10, <1>11, <1>8, <2>2, Constants0
  <2>15. ResultInv'
    <3>1. CASE rdr.pc = "ge"
      <4>1. node = Nil \/ node >= rdr.target
        BY <3>1, <2>3, <2>4
      <4>2. \A e \in rdr.before : e >= rdr.target => node # Nil /\ node <= e
        BY <3>1, <2>4, <2>11, <1>7, <1>10
      <4> QED
        BY <2>8, <4>1, <4>2, <3>1, <1>10 DEF ResultInv
    <3>2. CASE rdr.pc = "lt"
      <4>1. node = Nil \/ node < rdr.target
        BY <3>2, <2>4, <1>10
      <4>2. \A e \in rdr.before : e < rdr.target => e <= rdr.x
        BY <3>2, <2>3, <2>11, <1>7, <1>9
      <4>3. \A e \in rdr.before : e < rdr.target => node >= e
        BY <3>2, <2>4, <2>11, <4>2, <1>7 DEF HeadNode
      <4> QED
        BY <2>8, <4>1, <4>3, <3>2, <1>10 DEF ResultInv
    <3>3. CASE rdr.pc = "last"
      <4>1. \A e \in rdr.before : e <= rdr.x
        BY <3>3, <2>3, <2>11, <1>7
      <4>2. \A e \in rdr.before : node >= e
        BY <3>3, <2>4, <2>11, <4>1, <1>7 DEF HeadNode
      <4> QED
        BY <2>8, <4>2, <3>3, <1>10 DEF ResultInv
    <3> QED
      BY <1>4, <3>1, <3>2, <3>3 DEF Walking
  <2> QED
    BY <1>3, <2>9, <2>10, <2>15 DEF MemInv, ListInv
<1> QED
  BY <1>12, <1>13, <1>14

\* Iterator::Next and SeekToFirst: one load on level 0.
LEMMA StepNextKeeps ==
    ASSUME MemInv, NEW op \in {"next", "first"}, NEW x \in Inserted \cup {HeadNode}, StepNext(op, x)
    PROVE  MemInv'
<1>1. ListInv
  BY DEF MemInv, ListInv
<1>2. UNCHANGED <<sl, wr, mem_seq>>
  BY DEF StepNext
<1>3. ListInv' /\ Inserted' = Inserted /\ \A l \in SkipLevels : On(l)' = On(l)
  BY <1>1, <1>2, ReaderLeavesList
<1> DEFINE node == sl.next[x][0]
<1>4. rdr' = [rdr EXCEPT !.pc = "done", !.op = op, !.target = x, !.before = Complete,
                         !.seq = mem_seq, !.node = node, !.n = @ + 1]
  BY DEF StepNext
<1>5. Inserted \subseteq On(0) /\ On(0) \subseteq Inserted /\ Inserted \subseteq EntryNumbers
  BY DEF MemInv, TowerInv, On, Inserted
<1>6. /\ node = Nil \/ (node \in On(0) /\ x < node)
      /\ \A m \in On(0) : x < m => node # Nil /\ node <= m
  BY <1>5, Constants0 DEF MemInv, LinksInv
<1>7. x \in Nodes /\ x \in Nat
  BY <1>5, Constants0
<1>8. node \in Inserted \cup {Nil}
  BY <1>5, <1>6
<1> HIDE DEF node
<1>9. Complete \subseteq Inserted /\ mem_seq \in 0..MaxMemEntries
  BY DEF Complete, MemInv, ListTypes
<1>10. /\ rdr'.pc = "done" /\ rdr'.op = op /\ rdr'.target = x
       /\ rdr'.before = Complete /\ rdr'.seq = mem_seq /\ rdr'.node = node
  BY <1>4 DEF MemInv, ReaderTypes
<1>11. ReaderTypes'
  <2>1. Complete \in SUBSET EntryNumbers /\ node \in EntryNumbers \cup {Nil} /\ x \in Nat
    BY <1>5, <1>7, <1>8, <1>9
  <2>2. rdr.n + 1 \in Nat /\ ReaderTypes
    BY DEF MemInv, ReaderTypes
  <2>3. rdr' = [rdr EXCEPT !.pc = "done", !.op = op, !.target = x, !.before = Complete,
                           !.seq = mem_seq, !.node = node, !.n = rdr.n + 1]
    BY <1>4, <2>2 DEF ReaderTypes
  <2> QED
    BY <1>9, <2>1, <2>2, <2>3 DEF ReaderTypes
<1>12. ReaderInv'
  <2>1. rdr'.node \in Inserted' \cup {Nil}
    BY <1>3, <1>8, <1>10
  <2>2. rdr'.before \subseteq Inserted' /\ rdr'.seq <= mem_seq'
    BY <1>2, <1>3, <1>9, <1>10, MemTableConstants
  <2>3. \A e \in Inserted' : SequenceOf(e) <= rdr'.seq => e \in rdr'.before
    BY <1>3, <1>10 DEF Complete
  <2> QED
    BY <1>10, <2>1, <2>2, <2>3 DEF ReaderInv, Walking
<1>13. ResultInv'
  <2>1. node = Nil \/ node > x
    BY <1>6, <1>5, <1>7, Constants0
  <2>2. \A e \in Complete : e > x => node # Nil /\ node <= e
    BY <1>5, <1>6, <1>7, <1>9, Constants0
  <2> QED
    BY <1>10, <2>1, <2>2 DEF ResultInv
<1> QED
  BY <1>3, <1>11, <1>12, <1>13 DEF MemInv, ListInv

\* The result goes to the caller.
LEMMA ReturnKeeps ==
    ASSUME MemInv, Return
    PROVE  MemInv'
<1>1. ListInv
  BY DEF MemInv, ListInv
<1>2. UNCHANGED <<sl, wr, mem_seq>>
  BY DEF Return
<1>3. ListInv' /\ Inserted' = Inserted /\ \A l \in SkipLevels : On(l)' = On(l)
  BY <1>1, <1>2, ReaderLeavesList
<1>4. PICK node : node = IF rdr.op = "get" THEN Nil ELSE rdr.node
  OBVIOUS
<1>5. rdr' = [rdr EXCEPT !.pc = "idle", !.node = node]
  BY <1>4 DEF Return
<1>6. node \in Inserted \cup {Nil} /\ node \in EntryNumbers \cup {Nil}
  BY <1>4 DEF MemInv, ReaderInv, ReaderTypes
<1>7. rdr'.pc = "idle" /\ rdr'.node = node
  BY <1>5 DEF MemInv, ReaderTypes
<1>8. ReaderTypes'
  BY <1>5, <1>6 DEF MemInv, ReaderTypes
<1>9. ReaderInv' /\ ResultInv'
  BY <1>3, <1>6, <1>7 DEF ReaderInv, ResultInv, Walking
<1> QED
  BY <1>3, <1>8, <1>9 DEF MemInv, ListInv

\* Every step of the reader keeps the invariant.
LEMMA ReaderKeeps ==
    ASSUME MemInv,
           \/ \E k \in MemUserKeys : BeginGet(k)
           \/ \E e \in EntryNumbers : BeginSeek(e)
           \/ BeginPrev \/ BeginLast \/ Walk \/ ReadNext \/ ReadFirst \/ Return
    PROVE  MemInv'
<1>1. rdr.node \in Inserted \cup {Nil} /\ Inserted \subseteq EntryNumbers /\ mem_seq \in 0..MaxMemEntries
  BY DEF MemInv, ReaderInv, Inserted, ListTypes
<1>2. ASSUME NEW k \in MemUserKeys, BeginGet(k) PROVE MemInv'
  <2>1. PICK t \in Nat \ {0} : t = EntryOf(k, mem_seq)
    BY <1>1, EntryFacts
  <2>2. Begin("get", t, "ge", HeadNode)
    BY <1>2, <2>1 DEF BeginGet
  <2> QED
    BY <2>1, <2>2, BeginKeeps DEF Walking
<1>3. ASSUME NEW e \in EntryNumbers, BeginSeek(e) PROVE MemInv'
  <2>1. e \in Nat /\ e > 0 /\ Begin("seek", e, "ge", HeadNode)
    BY <1>3, EntryNumbersType DEF BeginSeek
  <2> QED
    BY <2>1, BeginKeeps DEF Walking
<1>4. CASE BeginPrev
  <2>1. PICK t \in EntryNumbers : t = rdr.node
    BY <1>1, <1>4 DEF BeginPrev
  <2>2. t \in Nat /\ t > 0 /\ Begin("prev", t, "lt", HeadNode)
    BY <1>4, <2>1, EntryNumbersType DEF BeginPrev
  <2> QED
    BY <2>2, BeginKeeps DEF Walking
<1>5. CASE BeginLast
  BY <1>5, BeginKeeps DEF BeginLast, Walking
<1>6. CASE ReadNext
  <2>1. PICK t \in Inserted : t = rdr.node
    BY <1>1, <1>6 DEF ReadNext
  <2>2. StepNext("next", t)
    BY <1>6, <2>1 DEF ReadNext
  <2> QED
    BY <2>2, StepNextKeeps
<1>7. CASE ReadFirst
  <2>1. StepNext("first", HeadNode)
    BY <1>7 DEF ReadFirst
  <2> QED
    BY <2>1, StepNextKeeps
<1> QED
  BY <1>2, <1>3, <1>4, <1>5, <1>6, <1>7, WalkKeeps, ReturnKeeps

-----------------------------------------------------------------------------
(* The writer's steps. *)

\* What a writer's step has to show.
LEMMA WriterStep ==
    ASSUME MemInv, ListInv', UNCHANGED rdr, mem_seq <= mem_seq',
           Inserted \subseteq Inserted', \A l \in SkipLevels : On(l) \subseteq On(l)',
           \A e \in Inserted' \ Inserted : SequenceOf(e) > mem_seq
    PROVE  MemInv'
<1>1. mem_seq \in Nat /\ mem_seq' \in Nat
  BY MemTableConstants DEF MemInv, ListInv, ListTypes
<1>2. \A e \in Inserted' : SequenceOf(e) \in Nat
  BY EntryNumberFacts, MemTableConstants DEF Inserted
<1>3. ReaderTypes' /\ ReaderInv' /\ ResultInv'
  BY <1>1, <1>2, WriterLeavesReader DEF MemInv
<1> QED
  BY <1>3 DEF MemInv, ListInv

\* FindGreaterOrEqual of the writer: prev[] is right on every level, also above the
\* list's height.
LEMMA StartInsertKeeps ==
    ASSUME MemInv, NEW k \in MemUserKeys, NEW height \in 1..kMaxHeight, StartInsert(k, height)
    PROVE  MemInv'
<1>1. wr.pc = "idle" /\ mem_seq < MaxMemEntries /\ UNCHANGED <<sl, rdr, mem_seq>> /\ mem_seq \in 0..MaxMemEntries
  BY DEF StartInsert, MemInv, ListTypes
<1>2. PICK key : key = EntryOf(k, mem_seq + 1)
  OBVIOUS
<1>3. mem_seq + 1 \in 1..MaxMemEntries /\ mem_seq + 1 \in 0..MaxMemEntries /\ mem_seq \in Nat
  BY <1>1, MemTableConstants
<1>4. key \in EntryNumbers /\ SequenceOf(key) = mem_seq + 1 /\ key \in Nat /\ key > 0 /\ key \in Nodes
  <2>1. key \in EntryNumbers
    BY <1>2, <1>3 DEF EntryNumbers
  <2> QED
    BY <1>2, <1>3, <2>1, EntryFacts, Constants0
<1>5. PICK prev : prev = [l \in SkipLevels |-> IF l < MaxHeight THEN PrevOn(l, key) ELSE HeadNode]
  OBVIOUS
<1>6. wr' = [pc |-> "height", key |-> key, height |-> height, level |-> 0, prev |-> prev]
  BY <1>2, <1>5 DEF StartInsert
<1>7. Inserted' = Inserted /\ MaxHeight' = MaxHeight
  BY <1>1 DEF Inserted, MaxHeight
<1>8. /\ wr'.pc = "height" /\ wr'.key = key /\ wr'.height = height /\ wr'.level = 0
      /\ wr'.prev = prev
  BY <1>6
<1>9. \A l \in SkipLevels : On(l)' = On(l) /\ On(l) = {n \in Inserted : sl.next[n][l] # Unset}
  BY <1>1, <1>7, <1>8 DEF On
<1>10. key \notin Inserted /\ Inserted \subseteq EntryNumbers
  BY <1>1, <1>3, <1>4 DEF MemInv, FreshInv, Inserted
<1>11. ASSUME NEW l \in SkipLevels
       PROVE  /\ prev[l] \in On(l) \cup {HeadNode} /\ prev[l] < key /\ prev[l] \in Nodes
              /\ \A m \in On(l) : m <= prev[l] \/ m > key
  <2>1. CASE l < MaxHeight
    <3> DEFINE S == {HeadNode} \cup {n \in Inserted : n < key /\ sl.next[n][l] # Unset}
    <3>1. prev[l] = Max(S)
      BY <2>1, <1>5 DEF PrevOn
    <3>2. S \in SUBSET Nat /\ S # {} /\ \A n \in S : n <= key
      <4>1. \A n \in S : n \in Nat /\ n <= key
        <5>1. \A n \in Inserted : n \in Nat
          BY <1>10, Constants0
        <5> QED
          BY <5>1, <1>4 DEF HeadNode
      <4>2. HeadNode \in S
        OBVIOUS
      <4> QED
        BY <4>1, <4>2
    <3>3. Max(S) \in S /\ \A n \in S : n <= Max(S)
      <4> HIDE DEF S
      <4> QED
        BY <3>2, <1>4, MaxIsGreatest
    <3>4. prev[l] \in S /\ \A n \in S : n <= prev[l]
      BY <3>1, <3>3
    <3>5. prev[l] \in On(l) \cup {HeadNode} /\ prev[l] < key
      BY <3>4, <1>9, <1>4 DEF HeadNode
    <3>6. \A m \in On(l) : m <= prev[l] \/ m > key
      <4>1. TAKE m \in On(l)
      <4>2. m \in Inserted /\ sl.next[m][l] # Unset /\ m # key /\ m \in Nat
        BY <1>9, <1>10, Constants0
      <4>3. CASE m < key
        <5>1. m \in S
          BY <4>2, <4>3
        <5> QED
          BY <5>1, <3>4
      <4>4. CASE m > key
        BY <4>4
      <4> QED
        BY <4>2, <4>3, <4>4, <1>4
    <3> QED
      BY <3>5, <3>6, <1>9, <1>10, Constants0
  <2>2. CASE ~(l < MaxHeight)
    <3>1. prev[l] = HeadNode
      BY <2>2, <1>5
    <3>2. On(l) = {}
      BY <2>2 DEF MemInv, TowerInv
    <3> QED
      BY <3>1, <3>2, <1>4, Constants0 DEF HeadNode
  <2> QED
    BY <2>1, <2>2
<1>12. \A l \in SkipLevels : PrevInv(l)'
  BY <1>8, <1>9, <1>11 DEF PrevInv
<1>13. \A l \in SkipLevels : sl.next[key][l] = Unset
  BY <1>1, <1>4, <1>10 DEF MemInv, FreshInv
<1>14. ListTypes'
  BY <1>1 DEF MemInv, ListTypes
<1>15. WriterTypes'
  <2>1. prev \in [SkipLevels -> Nodes]
    BY <1>5, <1>11
  <2>2. 0 \in 0..kMaxHeight /\ height \in 0..kMaxHeight
    BY MemTableConstants
  <2> QED
    BY <1>4, <1>6, <2>1, <2>2 DEF WriterTypes, Inserting
<1>16. LinksInv'
  BY <1>1, <1>9 DEF MemInv, LinksInv
<1>17. TowerInv'
  <2>1. Inserted' \subseteq On(0)'
    BY <1>7, <1>9, Constants0 DEF MemInv, TowerInv
  <2>2. ASSUME NEW l \in SkipLevels, NEW n \in On(l)'
        PROVE  l < MaxHeight' /\ (l > 0 => n \in On(l - 1)')
    <3>1. n \in On(l) /\ l < MaxHeight /\ (l > 0 => n \in On(l - 1))
      BY <1>9, <2>2 DEF MemInv, TowerInv
    <3>2. l > 0 => l - 1 \in SkipLevels
      BY MemTableConstants DEF SkipLevels
    <3> QED
      BY <3>1, <3>2, <1>9, <1>7
  <2> QED
    BY <2>1, <2>2 DEF TowerInv
<1>18. FreshInv'
  BY <1>1, <1>4, <1>7, <1>8 DEF MemInv, FreshInv
<1>19. WriterInv'
  BY <1>1, <1>7, <1>8, <1>10, <1>12, <1>13, Constants0 DEF WriterInv, Inserting
<1>20. ListInv'
  BY <1>14, <1>15, <1>16, <1>17, <1>18, <1>19 DEF ListInv
<1> QED
  BY <1>1, <1>3, <1>7, <1>9, <1>20, WriterStep

\* The new height is stored before any node has it.
LEMMA StoreMaxHeightKeeps ==
    ASSUME MemInv, StoreMaxHeight
    PROVE  MemInv'
<1>1. wr.pc = "height" /\ UNCHANGED <<rdr, mem_seq>> /\ wr' = [wr EXCEPT !.pc = "link"]
  BY DEF StoreMaxHeight
<1>2. /\ wr'.pc = "link" /\ wr'.key = wr.key /\ wr'.height = wr.height /\ wr'.level = wr.level
      /\ wr'.prev = wr.prev
  BY <1>1 DEF MemInv, WriterTypes
<1>3. /\ sl'.next = sl.next /\ sl'.linked = sl.linked
      /\ IF wr.height > MaxHeight THEN sl'.heights = Append(sl.heights, wr.height)
                                  ELSE sl'.heights = sl.heights
  BY DEF StoreMaxHeight, MemInv, ListTypes
<1>4. MaxHeight \in 1..kMaxHeight /\ wr.height \in 0..kMaxHeight /\ mem_seq \in Nat
  BY HeightTypes, MemTableConstants DEF MemInv, ListTypes, WriterTypes
<1>5. /\ sl'.heights \in Seq(1..kMaxHeight) /\ Len(sl'.heights) > 0
      /\ MaxHeight' = IF wr.height > MaxHeight THEN wr.height ELSE MaxHeight
  <2>1. sl.heights \in Seq(1..kMaxHeight) /\ Len(sl.heights) > 0
    BY DEF MemInv, ListTypes
  <2>2. CASE wr.height > MaxHeight
    <3>1. sl'.heights = Append(sl.heights, wr.height) /\ wr.height \in 1..kMaxHeight
      BY <1>3, <1>4, <2>2
    <3>2. /\ Append(sl.heights, wr.height) \in Seq(1..kMaxHeight)
          /\ Len(Append(sl.heights, wr.height)) = Len(sl.heights) + 1
          /\ Append(sl.heights, wr.height)[Len(sl.heights) + 1] = wr.height
      BY <2>1, <3>1, AppendProperties
    <3>3. MaxHeight' = sl'.heights[Len(sl'.heights)] /\ Len(sl.heights) \in Nat
      BY <2>1, LenProperties DEF MaxHeight
    <3> QED
      BY <2>1, <2>2, <3>1, <3>2, <3>3
  <2>3. CASE ~(wr.height > MaxHeight)
    BY <1>3, <2>1, <2>3 DEF MaxHeight
  <2> QED
    BY <2>2, <2>3
<1>6. Inserted' = Inserted
  BY <1>3 DEF Inserted
<1>7. \A l \in SkipLevels : On(l)' = On(l)
  BY <1>1, <1>2, <1>3, <1>6 DEF On
<1>8. MaxHeight <= MaxHeight' /\ wr.height <= MaxHeight' /\ MaxHeight' \in Nat
  BY <1>4, <1>5, MemTableConstants
<1>9. ListTypes'
  <2>1. sl' = [next |-> sl'.next, heights |-> sl'.heights, linked |-> sl'.linked]
    BY DEF StoreMaxHeight, MemInv, ListTypes
  <2> QED
    BY <1>1, <1>3, <1>5, <2>1 DEF MemInv, ListTypes
<1>10. WriterTypes'
  BY <1>1 DEF MemInv, WriterTypes, Inserting
<1>11. LinksInv'
  BY <1>3, <1>7 DEF MemInv, LinksInv
<1>12. TowerInv'
  <2>1. Inserted' \subseteq On(0)'
    BY <1>6, <1>7, Constants0 DEF MemInv, TowerInv
  <2>2. ASSUME NEW l \in SkipLevels, NEW n \in On(l)'
        PROVE  l < MaxHeight' /\ (l > 0 => n \in On(l - 1)')
    <3>1. n \in On(l) /\ l < MaxHeight /\ (l > 0 => n \in On(l - 1))
      BY <1>7, <2>2 DEF MemInv, TowerInv
    <3>2. l > 0 => l - 1 \in SkipLevels
      BY MemTableConstants DEF SkipLevels
    <3>3. l \in Nat /\ MaxHeight \in Nat
      BY Constants0, <1>4
    <3> QED
      BY <3>1, <3>2, <3>3, <1>7, <1>8
  <2> QED
    BY <2>1, <2>2 DEF TowerInv
<1>13. FreshInv'
  BY <1>1, <1>2, <1>3, <1>6 DEF MemInv, FreshInv
<1>14. \A l \in SkipLevels : PrevInv(l) => PrevInv(l)'
  BY <1>2, <1>7 DEF PrevInv
<1>15. WriterInv'
  <2>1. /\ wr.level = 0 /\ wr.level < wr.height /\ wr.key \notin Inserted
        /\ \A l \in SkipLevels : l > wr.level => sl.next[wr.key][l] = Unset
        /\ \A l \in SkipLevels : l >= wr.level => PrevInv(l)
        /\ sl.next[wr.key][wr.level] = Unset
    BY <1>1 DEF MemInv, WriterInv, Inserting
  <2>2. \A l \in SkipLevels : l >= wr.level => PrevInv(l)'
    BY <2>1, <1>14
  <2> QED
    BY <1>2, <1>3, <1>6, <1>8, <2>1, <2>2 DEF WriterInv, Inserting
<1>16. ListInv'
  BY <1>9, <1>10, <1>11, <1>12, <1>13, <1>15 DEF ListInv
<1> QED
  BY <1>1, <1>4, <1>6, <1>7, <1>16, WriterStep

\* The sequence number is published when the node is on all of its levels.
LEMMA FinishInsertKeeps ==
    ASSUME MemInv, FinishInsert
    PROVE  MemInv'
<1>1. wr.pc = "linked" /\ UNCHANGED <<sl, rdr>> /\ wr' = [wr EXCEPT !.pc = "idle"] /\ mem_seq' = mem_seq + 1
  BY DEF FinishInsert
<1>2. wr'.pc = "idle" /\ wr'.key = wr.key
  BY <1>1 DEF MemInv, WriterTypes
<1>3. Inserted' = Inserted /\ MaxHeight' = MaxHeight
  BY <1>1 DEF Inserted, MaxHeight
<1>4. \A l \in SkipLevels : On(l)' = On(l)
  BY <1>1, <1>2, <1>3 DEF On
<1>5. SequenceOf(wr.key) = mem_seq + 1 /\ mem_seq < MaxMemEntries /\ mem_seq \in Nat /\ mem_seq \in 0..MaxMemEntries
  BY <1>1, MemTableConstants DEF MemInv, FreshInv, ListTypes
<1>6. ListTypes'
  BY <1>1, <1>5, MemTableConstants DEF MemInv, ListTypes
<1>7. WriterTypes'
  BY <1>1 DEF MemInv, WriterTypes, Inserting
<1>8. LinksInv'
  BY <1>1, <1>4 DEF MemInv, LinksInv
<1>9. TowerInv'
  <2>1. Inserted' \subseteq On(0)'
    BY <1>3, <1>4, Constants0 DEF MemInv, TowerInv
  <2>2. ASSUME NEW l \in SkipLevels, NEW n \in On(l)'
        PROVE  l < MaxHeight' /\ (l > 0 => n \in On(l - 1)')
    <3>1. n \in On(l) /\ l < MaxHeight /\ (l > 0 => n \in On(l - 1))
      BY <1>4, <2>2 DEF MemInv, TowerInv
    <3>2. l > 0 => l - 1 \in SkipLevels
      BY MemTableConstants DEF SkipLevels
    <3> QED
      BY <3>1, <3>2, <1>4, <1>3
  <2> QED
    BY <2>1, <2>2 DEF TowerInv
<1>10. FreshInv'
  <2>1. \A e \in Inserted : SequenceOf(e) <= mem_seq + 1
    <3>1. \A e \in Inserted : SequenceOf(e) \in Nat
      BY EntryNumberFacts, MemTableConstants DEF Inserted
    <3> QED
      BY <1>5, <3>1 DEF MemInv, FreshInv
  <2>2. \A e \in EntryNumbers \ Inserted : \A l \in SkipLevels : sl.next[e][l] = Unset
    BY <1>1 DEF MemInv, FreshInv
  <2> QED
    BY <1>1, <1>2, <1>3, <2>1, <2>2 DEF FreshInv
<1>11. WriterInv'
  BY <1>2 DEF WriterInv, Inserting
<1>12. ListInv'
  BY <1>6, <1>7, <1>8, <1>9, <1>10, <1>11 DEF ListInv
<1> QED
  BY <1>1, <1>3, <1>4, <1>5, <1>12, WriterStep

\* NoBarrier_SetNext on a node that no level holds yet.
LEMMA LinkForwardKeeps ==
    ASSUME MemInv, LinkForward
    PROVE  MemInv'
<1>1. PICK key, lv, p, v : key = wr.key /\ lv = wr.level /\ p = wr.prev[lv] /\ v = sl.next[p][lv]
  OBVIOUS
<1>2. /\ wr.pc = "link" /\ UNCHANGED <<rdr, mem_seq>> /\ wr' = [wr EXCEPT !.pc = "publish"]
      /\ sl' = [sl EXCEPT !.next[key][lv] = v]
  BY <1>1 DEF LinkForward
<1>3. /\ wr'.pc = "publish" /\ wr'.key = key /\ wr'.height = wr.height /\ wr'.level = lv
      /\ wr'.prev = wr.prev
  BY <1>1, <1>2 DEF MemInv, WriterTypes
<1>4. /\ key \in EntryNumbers /\ lv \in SkipLevels /\ lv \in Nat /\ p \in Nodes /\ key \in Nodes
      /\ v \in EntryNumbers \cup {Nil, Unset} /\ mem_seq \in Nat
  <2>1. key \in EntryNumbers
    BY <1>1, <1>2 DEF MemInv, FreshInv
  <2>2. lv < wr.height /\ lv \in Nat /\ wr.height \in 0..kMaxHeight
    BY <1>1, <1>2, MemTableConstants DEF MemInv, WriterInv, Inserting, WriterTypes
  <2>3. lv \in SkipLevels
    BY <2>2, MemTableConstants DEF SkipLevels
  <2>4. p \in Nodes
    BY <1>1, <2>3 DEF MemInv, WriterTypes
  <2>5. v \in EntryNumbers \cup {Nil, Unset} /\ mem_seq \in Nat
    BY <1>1, <2>3, <2>4, MemTableConstants DEF MemInv, ListTypes
  <2> QED
    BY <2>1, <2>2, <2>3, <2>4, <2>5, Constants0
<1>5. sl \in [next: [Nodes -> [SkipLevels -> EntryNumbers \cup {Nil, Unset}]],
              heights: Seq(1..kMaxHeight), linked: [EntryNumbers -> BOOLEAN]]
  BY DEF MemInv, ListTypes
<1>6. /\ sl'.heights = sl.heights /\ sl'.linked = sl.linked
      /\ \A n \in Nodes : \A l \in SkipLevels :
           sl'.next[n][l] = IF n = key /\ l = lv THEN v ELSE sl.next[n][l]
  BY <1>2, <1>4, <1>5
<1>7. ListTypes'
  <2>1. sl'.next \in [Nodes -> [SkipLevels -> EntryNumbers \cup {Nil, Unset}]]
    BY <1>2, <1>4, <1>5
  <2>2. sl' = [next |-> sl'.next, heights |-> sl'.heights, linked |-> sl'.linked]
    BY <1>2, <1>5
  <2> HIDE <1>2
  <2>3. Len(sl.heights) > 0 /\ mem_seq \in 0..MaxMemEntries /\ mem_seq' = mem_seq
    BY <1>2 DEF MemInv, ListTypes
  <2>4. sl' \in [next: [Nodes -> [SkipLevels -> EntryNumbers \cup {Nil, Unset}]],
              heights: Seq(1..kMaxHeight), linked: [EntryNumbers -> BOOLEAN]]
    BY <1>5, <1>6, <2>1, <2>2
  <2> QED
    BY <1>6, <2>3, <2>4 DEF ListTypes
<1>8. Inserted' = Inserted /\ MaxHeight' = MaxHeight /\ Inserted \subseteq EntryNumbers
  BY <1>6 DEF Inserted, MaxHeight
<1>9. /\ sl.next[key][lv] = Unset /\ lv < wr.height
      /\ key \in Inserted <=> lv > 0
      /\ lv > 0 => key \in On(lv - 1)
      /\ \A l \in SkipLevels : l > lv => sl.next[key][l] = Unset
      /\ \A l \in SkipLevels : l >= lv => PrevInv(l)
      /\ wr.height <= MaxHeight
  BY <1>1, <1>2 DEF MemInv, WriterInv, Inserting
<1>10. \A l \in SkipLevels : On(l)' = On(l)
  <2>1. TAKE l \in SkipLevels
  <2>2. On(l)' = {n \in Inserted : sl'.next[n][l] # Unset /\ ~(n = key /\ l = lv)}
    BY <1>3, <1>8 DEF On
  <2>3. On(l) = {n \in Inserted : sl.next[n][l] # Unset}
    BY <1>2 DEF On
  <2>4. \A n \in Inserted : /\ n \in Nodes
                            /\ (sl'.next[n][l] # Unset /\ ~(n = key /\ l = lv)) <=> sl.next[n][l] # Unset
    BY <1>6, <1>8, <1>9, Constants0
  <2> QED
    BY <2>2, <2>3, <2>4
<1>11. \A l \in SkipLevels : \A n \in On(l) \cup {HeadNode} : sl'.next[n][l] = sl.next[n][l]
  <2>1. TAKE l \in SkipLevels
  <2>2. TAKE n \in On(l) \cup {HeadNode}
  <2>3. n \in Nodes /\ ~(n = key /\ l = lv)
    BY <1>4, <1>8, <1>9, Constants0 DEF On
  <2> QED
    BY <2>3, <1>6
<1>12. WriterTypes'
  BY <1>2 DEF MemInv, WriterTypes, Inserting
<1>13. LinksInv'
  BY <1>10, <1>11 DEF MemInv, LinksInv
<1>14. TowerInv'
  <2>1. Inserted' \subseteq On(0)'
    BY <1>8, <1>10, Constants0 DEF MemInv, TowerInv
  <2>2. ASSUME NEW l \in SkipLevels, NEW n \in On(l)'
        PROVE  l < MaxHeight' /\ (l > 0 => n \in On(l - 1)')
    <3>1. n \in On(l) /\ l < MaxHeight /\ (l > 0 => n \in On(l - 1))
      BY <1>10, <2>2 DEF MemInv, TowerInv
    <3>2. l > 0 => l - 1 \in SkipLevels
      BY MemTableConstants DEF SkipLevels
    <3> QED
      BY <3>1, <3>2, <1>10, <1>8
  <2> QED
    BY <2>1, <2>2 DEF TowerInv
<1>15. FreshInv'
  <2>1. \A e \in Inserted' : SequenceOf(e) <= mem_seq' \/ (wr'.pc # "idle" /\ e = wr'.key)
    BY <1>1, <1>2, <1>3, <1>8 DEF MemInv, FreshInv
  <2>2. wr'.key \in EntryNumbers /\ SequenceOf(wr'.key) = mem_seq' + 1 /\ mem_seq' < MaxMemEntries
    BY <1>1, <1>2, <1>3 DEF MemInv, FreshInv
  <2>3. \A e \in EntryNumbers \ Inserted : e # key => \A l \in SkipLevels : sl'.next[e][l] = Unset
    <3>1. \A e \in EntryNumbers \ Inserted : \A l \in SkipLevels : sl.next[e][l] = Unset
      BY <1>2 DEF MemInv, FreshInv
    <3> QED
      BY <1>6, <3>1, Constants0
  <2> QED
    BY <1>3, <1>8, <2>1, <2>2, <2>3 DEF FreshInv
<1>16. \A l \in SkipLevels : l >= lv => PrevInv(l)'
  BY <1>1, <1>3, <1>9, <1>10 DEF PrevInv
<1>17. WriterInv'
  <2>1. lv > 0 => lv - 1 \in SkipLevels
    BY <1>4, MemTableConstants DEF SkipLevels
  <2>2. lv > 0 => key \in On(lv - 1)'
    BY <1>9, <1>10, <2>1
  <2>3. lv > 0 => wr'.key \in On(wr.level - 1)'
    BY <1>3, <2>2
  <2>4. \A l \in SkipLevels : l > lv => sl'.next[key][l] = Unset
    <3>1. \A l \in SkipLevels : l > lv => l # lv
      BY <1>4, Constants0
    <3> QED
      BY <3>1, <1>4, <1>6, <1>9
  <2>5. p # key
    BY <1>1, <1>4, <1>9, Constants0 DEF PrevInv
  <2>6. sl'.next[key][lv] = sl'.next[p][lv]
    BY <1>1, <1>4, <1>6, <2>5
  <2> HIDE <1>2
  <2> QED
    BY <1>1, <1>3, <1>8, <1>9, <1>16, <2>3, <2>4, <2>6 DEF WriterInv, Inserting
<1>18. ListInv'
  BY <1>7, <1>12, <1>13, <1>14, <1>15, <1>17 DEF ListInv
<1> QED
  BY <1>2, <1>4, <1>8, <1>10, <1>18, WriterStep

\* SetNext: the node joins one level, between its two neighbours there.
LEMMA PublishKeeps ==
    ASSUME MemInv, Publish
    PROVE  MemInv'
<1>1. PICK key, lv, p, v, pc :
        /\ key = wr.key /\ lv = wr.level /\ p = wr.prev[lv] /\ v = sl.next[p][lv]
        /\ pc = IF lv + 1 < wr.height THEN "link" ELSE "linked"
  OBVIOUS
<1>2. /\ wr.pc = "publish" /\ UNCHANGED <<rdr, mem_seq>>
      /\ wr' = [wr EXCEPT !.level = lv + 1, !.pc = pc]
      /\ sl' = [sl EXCEPT !.next[p][lv] = key, !.linked[key] = TRUE]
  BY <1>1 DEF Publish, MemInv, WriterTypes
<1>3. /\ wr'.pc = pc /\ wr'.key = key /\ wr'.height = wr.height /\ wr'.level = lv + 1
      /\ wr'.prev = wr.prev /\ pc \in {"link", "linked"}
  BY <1>1, <1>2 DEF MemInv, WriterTypes
<1>4. /\ key \in EntryNumbers /\ lv \in SkipLevels /\ lv \in Nat /\ p \in Nodes /\ key \in Nodes
      /\ mem_seq \in Nat /\ lv < wr.height /\ wr.height \in 0..kMaxHeight /\ SequenceOf(key) = mem_seq + 1
  <2>1. key \in EntryNumbers /\ SequenceOf(key) = mem_seq + 1
    BY <1>1, <1>2 DEF MemInv, FreshInv
  <2>2. lv < wr.height /\ lv \in Nat /\ wr.height \in 0..kMaxHeight
    BY <1>1, <1>2, MemTableConstants DEF MemInv, WriterInv, Inserting, WriterTypes
  <2>3. lv \in SkipLevels
    BY <2>2, MemTableConstants DEF SkipLevels
  <2>4. p \in Nodes /\ mem_seq \in Nat
    BY <1>1, <2>3, MemTableConstants DEF MemInv, WriterTypes, ListTypes
  <2> QED
    BY <2>1, <2>2, <2>3, <2>4, Constants0
<1>5. sl \in [next: [Nodes -> [SkipLevels -> EntryNumbers \cup {Nil, Unset}]],
              heights: Seq(1..kMaxHeight), linked: [EntryNumbers -> BOOLEAN]]
  BY DEF MemInv, ListTypes
<1>6. /\ sl'.heights = sl.heights /\ sl'.linked = [sl.linked EXCEPT ![key] = TRUE]
      /\ sl'.next = [sl.next EXCEPT ![p] = [sl.next[p] EXCEPT ![lv] = key]]
      /\ sl' = [next |-> sl'.next, heights |-> sl'.heights, linked |-> sl'.linked]
  BY <1>2, <1>5
<1>7. \A n \in Nodes : \A l \in SkipLevels :
         sl'.next[n][l] = IF n = p /\ l = lv THEN key ELSE sl.next[n][l]
  BY <1>4, <1>5, <1>6
<1>8. ListTypes'
  <2>1. sl'.next \in [Nodes -> [SkipLevels -> EntryNumbers \cup {Nil, Unset}]]
    BY <1>4, <1>5, <1>6
  <2>2. sl'.linked \in [EntryNumbers -> BOOLEAN]
    BY <1>4, <1>5, <1>6
  <2>3. Len(sl.heights) > 0 /\ mem_seq \in 0..MaxMemEntries /\ mem_seq' = mem_seq
    BY <1>2 DEF MemInv, ListTypes
  <2>4. PICK a, b, c : a = sl'.next /\ b = sl'.heights /\ c = sl'.linked
    OBVIOUS
  <2>5. b = sl.heights /\ b \in Seq(1..kMaxHeight)
    BY <1>5, <1>6, <2>4
  <2>6. sl' = [next |-> a, heights |-> b, linked |-> c]
    BY <1>6, <2>4
  <2> HIDE <1>2, <1>6
  <2>7. sl' \in [next: [Nodes -> [SkipLevels -> EntryNumbers \cup {Nil, Unset}]],
              heights: Seq(1..kMaxHeight), linked: [EntryNumbers -> BOOLEAN]]
    BY <2>1, <2>2, <2>4, <2>5, <2>6
  <2> QED
    BY <2>3, <2>4, <2>5, <2>7 DEF ListTypes
<1>9. /\ Inserted' = Inserted \cup {key} /\ MaxHeight' = MaxHeight
      /\ Inserted \subseteq EntryNumbers
  <2>1. \A e \in EntryNumbers : sl'.linked[e] <=> (e = key \/ sl.linked[e])
    BY <1>4, <1>5, <1>6
  <2>2. \A e : e \in Inserted' <=> e \in Inserted \cup {key}
    BY <1>4, <2>1 DEF Inserted
  <2> QED
    BY <1>6, <2>2 DEF MaxHeight, Inserted
<1> HIDE <1>2, <1>6
<1>10. /\ key \in Inserted <=> lv > 0
       /\ lv > 0 => key \in On(lv - 1)
       /\ \A l \in SkipLevels : l > lv => sl.next[key][l] = Unset
       /\ \A l \in SkipLevels : l >= lv => PrevInv(l)
       /\ wr.height <= MaxHeight /\ sl.next[key][lv] = v
  BY <1>1, <1>2 DEF MemInv, WriterInv, Inserting
<1>11. /\ p \in On(lv) \cup {HeadNode} /\ p < key
       /\ \A m \in On(lv) : m <= p \/ m > key
  BY <1>1, <1>4, <1>10 DEF PrevInv
<1>12. /\ v = Nil \/ (v \in On(lv) /\ p < v)
       /\ \A m \in On(lv) : p < m => v # Nil /\ v <= m
  BY <1>1, <1>4, <1>11 DEF MemInv, LinksInv
<1>13. /\ \A l \in SkipLevels : On(l) \subseteq EntryNumbers /\ On(l) \subseteq Inserted
       /\ v # Unset /\ p # key /\ key # Unset /\ p \in Nat /\ key \in Nat
  <2>1. \A l \in SkipLevels : On(l) \subseteq EntryNumbers /\ On(l) \subseteq Inserted
    BY <1>9 DEF On
  <2>2. p \in Nat /\ key \in Nat /\ key # Unset /\ p # key
    BY <1>4, <1>11, Constants0
  <2> QED
    BY <1>4, <1>12, <2>1, <2>2, Constants0
<1>14. \A l \in SkipLevels : l # lv => On(l)' = On(l)
  <2>1. TAKE l \in SkipLevels
  <2>2. HAVE l # lv
  <2>3. \A n : n \in On(l)' <=> n \in Inserted \cup {key} /\ sl'.next[n][l] # Unset
    BY <1>3, <1>9 DEF On
  <2>4. \A n : n \in On(l) <=> n \in Inserted /\ sl.next[n][l] # Unset
    BY <1>1, <2>2 DEF On
  <2>5. \A n \in Inserted \cup {key} : n \in Nodes /\ sl'.next[n][l] = sl.next[n][l]
    BY <1>4, <1>7, <1>9, <2>2, Constants0
  <2>6. key \notin Inserted => sl.next[key][l] = Unset
    <3>1. ASSUME key \notin Inserted PROVE sl.next[key][l] = Unset
      <4>1. lv = 0 /\ l \in Nat
        BY <3>1, <1>4, <1>10, Constants0
      <4>2. l > lv
        BY <4>1, <2>2
      <4> QED
        BY <4>2, <1>10
    <3> QED
      BY <3>1
  <2>7. \A n : n \in On(l)' <=> n \in On(l)
    BY <2>3, <2>4, <2>5, <2>6
  <2> QED
    BY <2>7
<1>15. On(lv)' = On(lv) \cup {key}
  <2>1. \A n : n \in On(lv)' <=> n \in Inserted \cup {key} /\ sl'.next[n][lv] # Unset
    BY <1>3, <1>9 DEF On
  <2>2. \A n : n \in On(lv) <=> n \in Inserted /\ sl.next[n][lv] # Unset /\ n # key
    BY <1>1, <1>2 DEF On
  <2>3. \A n \in Inserted : n \in Nodes /\ (sl'.next[n][lv] # Unset <=> sl.next[n][lv] # Unset \/ n = p)
    BY <1>4, <1>7, <1>9, <1>13, Constants0
  <2>4. sl'.next[key][lv] = v
    BY <1>4, <1>7, <1>10, <1>13
  <2>5. p \in Inserted => p \in On(lv)
    <3>1. p = HeadNode => p \notin Inserted
      BY <1>9, Constants0
    <3> QED
      BY <3>1, <1>11
  <2>6. \A n : n \in On(lv)' <=> n \in On(lv) \cup {key}
    BY <2>1, <2>2, <2>3, <2>4, <2>5, <1>13
  <2> QED
    BY <2>6
<1>16. WriterTypes'
  <2>1. lv + 1 \in 0..kMaxHeight
    BY <1>4, MemTableConstants
  <2> QED
    BY <1>2, <1>3, <2>1 DEF MemInv, WriterTypes, Inserting
<1>17. LinksInv'
  <2>1. ASSUME NEW l \in SkipLevels, NEW n \in On(l)' \cup {HeadNode}
        PROVE  /\ sl'.next[n][l] = Nil \/ (sl'.next[n][l] \in On(l)' /\ n < sl'.next[n][l])
               /\ \A m \in On(l)' : n < m => sl'.next[n][l] # Nil /\ sl'.next[n][l] <= m
    <3>1. CASE l # lv
      <4>1. n \in On(l) \cup {HeadNode} /\ n \in Nodes
        BY <3>1, <1>13, <1>14, Constants0
      <4>2. sl'.next[n][l] = sl.next[n][l]
        BY <3>1, <4>1, <1>7
      <4> QED
        BY <3>1, <4>1, <4>2, <1>14 DEF MemInv, LinksInv
    <3>2. CASE l = lv /\ n = p
      <4>1. sl'.next[n][l] = key
        BY <3>2, <1>4, <1>7
      <4>2. \A m \in On(lv) \cup {key} : p < m => key <= m
        BY <1>11, <1>13, Constants0, <1>4
      <4> QED
        BY <3>2, <4>1, <4>2, <1>11, <1>13, <1>15, <1>4, Constants0
    <3>3. CASE l = lv /\ n = key
      <4>1. sl'.next[n][l] = v
        BY <3>3, <1>4, <1>7, <1>10, <1>13
      <4>2. v = Nil \/ (v \in On(lv) /\ key < v)
        <5>1. v \in On(lv) => v \in Nat
          BY <1>4, <1>13, Constants0
        <5>2. v \in On(lv) => v <= p \/ v > key
          BY <1>11
        <5> QED
          BY <5>1, <5>2, <1>12, <1>13
      <4>3. \A m \in On(lv) \cup {key} : key < m => v # Nil /\ v <= m
        BY <1>4, <1>11, <1>12, <1>13, Constants0
      <4> QED
        BY <3>3, <4>1, <4>2, <4>3, <1>15
    <3>4. CASE l = lv /\ n # p /\ n # key
      <4>1. n \in On(lv) \cup {HeadNode} /\ n \in Nodes /\ n \in Nat
        BY <3>4, <1>4, <1>13, <1>15, Constants0
      <4>2. PICK w : w = sl.next[n][lv]
        OBVIOUS
      <4>3. sl'.next[n][l] = w
        BY <3>4, <4>1, <4>2, <1>7
      <4>4. /\ w = Nil \/ (w \in On(lv) /\ n < w)
            /\ \A m \in On(lv) : n < m => w # Nil /\ w <= m
        BY <1>4, <4>1, <4>2 DEF MemInv, LinksInv
      <4>5. n < key => w # Nil /\ w <= key
        <5>1. HAVE n < key
        <5>2. n <= p
          BY <5>1, <4>1, <1>4, <1>11, <1>13, Constants0 DEF HeadNode
        <5>3. n < p
          BY <5>2, <3>4, <4>1, <1>13
        <5>4. p \in On(lv)
          BY <5>3, <4>1, <1>11, <1>13 DEF HeadNode
        <5>5. w # Nil /\ w <= p
          BY <5>3, <5>4, <4>4
        <5>6. w \in Nat
          BY <5>5, <4>4, <1>4, <1>13, Constants0
        <5> QED
          BY <5>5, <5>6, <1>11, <1>13
      <4> QED
        BY <3>4, <4>3, <4>4, <4>5, <1>15
    <3> QED
      BY <3>1, <3>2, <3>3, <3>4
  <2> QED
    BY <2>1 DEF LinksInv
<1>18. TowerInv'
  <2>1. Inserted' \subseteq On(0)'
    <3>1. Inserted \subseteq On(0)
      BY DEF MemInv, TowerInv
    <3>2. CASE lv = 0
      BY <3>1, <3>2, <1>9, <1>15
    <3>3. CASE lv # 0
      BY <3>1, <3>3, <1>4, <1>9, <1>10, <1>14, Constants0
    <3> QED
      BY <3>2, <3>3
  <2>2. ASSUME NEW l \in SkipLevels, NEW n \in On(l)'
        PROVE  l < MaxHeight' /\ (l > 0 => n \in On(l - 1)')
    <3>1. l \in Nat /\ (l > 0 => l - 1 \in SkipLevels)
      BY MemTableConstants DEF SkipLevels
    <3>2. ASSUME n \in On(l) PROVE l < MaxHeight' /\ (l > 0 => n \in On(l - 1)')
      <4>1. l < MaxHeight /\ (l > 0 => n \in On(l - 1))
        BY <3>2 DEF MemInv, TowerInv
      <4> QED
        BY <4>1, <3>1, <1>9, <1>14, <1>15
    <3>3. ASSUME l = lv, n = key PROVE l < MaxHeight' /\ (l > 0 => n \in On(l - 1)')
      <4>1. MaxHeight \in Nat /\ wr.height \in Nat
        BY HeightTypes, <1>4, MemTableConstants DEF MemInv
      <4>2. l < MaxHeight'
        BY <3>3, <4>1, <1>4, <1>9, <1>10
      <4>3. l > 0 => n \in On(l - 1) /\ l - 1 # lv
        BY <3>1, <3>3, <1>10
      <4> QED
        BY <4>2, <4>3, <3>1, <1>14
    <3>4. n \in On(l) \/ (l = lv /\ n = key)
      BY <2>2, <1>14, <1>15
    <3> QED
      BY <3>2, <3>3, <3>4
  <2> QED
    BY <2>1, <2>2 DEF TowerInv
<1>19. FreshInv'
  <2>1. \A e \in Inserted' : SequenceOf(e) <= mem_seq' \/ (wr'.pc # "idle" /\ e = wr'.key)
    BY <1>1, <1>2, <1>3, <1>9 DEF MemInv, FreshInv
  <2>2. wr'.key \in EntryNumbers /\ SequenceOf(wr'.key) = mem_seq' + 1 /\ mem_seq' < MaxMemEntries
    BY <1>1, <1>2, <1>3 DEF MemInv, FreshInv
  <2>3. \A e \in EntryNumbers \ Inserted' : \A l \in SkipLevels : sl'.next[e][l] = Unset
    <3>1. \A e \in EntryNumbers \ Inserted' : \A l \in SkipLevels : sl.next[e][l] = Unset
      BY <1>1, <1>9 DEF MemInv, FreshInv
    <3>2. p \in Inserted \cup {HeadNode}
      BY <1>4, <1>11, <1>13
    <3>3. \A e \in EntryNumbers \ Inserted' : e # p /\ e \in Nodes
      BY <3>2, <1>9, Constants0
    <3> QED
      BY <3>1, <3>3, <1>7
  <2> QED
    BY <1>3, <2>1, <2>2, <2>3 DEF FreshInv
<1>20. WriterInv'
  <2>1. CASE pc = "linked"
    BY <2>1, <1>3 DEF WriterInv, Inserting
  <2>2. CASE pc = "link"
    <3>1. lv + 1 < wr.height /\ wr.height \in Nat /\ kMaxHeight \in Nat
      BY <1>1, <1>4, <2>2, MemTableConstants
    <3>2. lv + 1 \in SkipLevels /\ lv + 1 > lv /\ lv + 1 > 0 /\ (lv + 1) - 1 = lv
      BY <3>1, <1>4 DEF SkipLevels
    <3>3. key \in Inserted' /\ key \in On(lv)'
      BY <1>9, <1>15
    <3>4. key \in On((lv + 1) - 1)'
      BY <3>2, <3>3
    <3>5. wr'.key \in On(wr.level - 1)'
      BY <3>4, <1>3
    <3>6. \A l \in SkipLevels : l > lv => sl'.next[key][l] = Unset
      BY <1>4, <1>7, <1>10, <1>13
    <3>7. \A l \in SkipLevels : l >= lv + 1 => l > lv /\ l >= lv /\ l # lv
      BY <1>4, Constants0
    <3>8. \A l \in SkipLevels : l >= lv + 1 => PrevInv(l)'
      <4>1. TAKE l \in SkipLevels
      <4>2. HAVE l >= lv + 1
      <4>3. On(l)' = On(l) /\ PrevInv(l)
        BY <3>7, <4>2, <1>10, <1>14
      <4>4. wr'.prev = wr.prev /\ wr'.key = wr.key
        BY <1>1, <1>3
      <4> QED
        BY <4>3, <4>4 DEF PrevInv
    <3>9. \A l \in SkipLevels : l > lv + 1 => sl'.next[key][l] = Unset
      <4>1. \A l \in SkipLevels : l > lv + 1 => l > lv
        BY <1>4, Constants0
      <4> QED
        BY <3>6, <4>1
    <3> QED
      BY <2>2, <3>1, <3>2, <3>3, <3>5, <3>6, <3>8, <3>9, <1>3, <1>9, <1>10 DEF WriterInv, Inserting
  <2> QED
    BY <2>1, <2>2, <1>3
<1>21. ListInv'
  BY <1>8, <1>16, <1>17, <1>18, <1>19, <1>20 DEF ListInv
<1>22. \A l \in SkipLevels : On(l) \subseteq On(l)'
  BY <1>14, <1>15
<1>23. \A e \in Inserted' \ Inserted : SequenceOf(e) > mem_seq
  BY <1>4, <1>9
<1>24. UNCHANGED rdr /\ mem_seq <= mem_seq'
  BY <1>2, <1>4
<1> QED
  BY <1>9, <1>21, <1>22, <1>23, <1>24, WriterStep

-----------------------------------------------------------------------------
(* The theorem. *)

\* The empty list.
LEMMA MemInitInv == MemInit => MemInv
<1> SUFFICES ASSUME MemInit PROVE MemInv
  OBVIOUS
<1>1. Inserted = {}
  BY DEF Inserted, MemInit
<1>2. \A l \in SkipLevels : On(l) = {}
  BY <1>1 DEF On
<1>3. ListTypes
  <2>1. <<1>> \in Seq(1..kMaxHeight) /\ Len(<<1>>) > 0
    BY MemTableConstants
  <2>2. sl.next \in [Nodes -> [SkipLevels -> EntryNumbers \cup {Nil, Unset}]]
    BY DEF MemInit, Nodes
  <2>3. mem_seq \in 0..MaxMemEntries
    BY MemTableConstants DEF MemInit
  <2>4. sl.heights = <<1>> /\ sl.linked \in [EntryNumbers -> BOOLEAN]
    BY DEF MemInit
  <2>5. sl = [next |-> sl.next, heights |-> sl.heights, linked |-> sl.linked]
    BY DEF MemInit
  <2>6. sl.heights \in Seq(1..kMaxHeight) /\ Len(sl.heights) > 0
    BY <2>1, <2>4
  <2>7. PICK a, b, c : a = sl.next /\ b = sl.heights /\ c = sl.linked
    OBVIOUS
  <2>8. sl = [next |-> a, heights |-> b, linked |-> c]
    BY <2>5, <2>7
  <2>9. sl \in [next: [Nodes -> [SkipLevels -> EntryNumbers \cup {Nil, Unset}]],
               heights: Seq(1..kMaxHeight), linked: [EntryNumbers -> BOOLEAN]]
    BY <2>2, <2>4, <2>6, <2>7, <2>8
  <2> QED
    BY <2>3, <2>6, <2>9 DEF ListTypes
<1>4. WriterTypes
  BY MemTableConstants DEF MemInit, WriterTypes, Nodes, HeadNode
<1>5. ReaderTypes
  <2>1. 0 \in SkipLevels /\ HeadNode \in Nodes /\ 0 \in 0..MaxMemEntries /\ {} \in SUBSET EntryNumbers
    BY MemTableConstants, Constants0
  <2> QED
    BY <2>1 DEF MemInit, ReaderTypes
<1>6. \A l \in SkipLevels : sl.next[HeadNode][l] = Nil
  BY DEF MemInit
<1>7. LinksInv
  BY <1>2, <1>6 DEF LinksInv
<1>8. TowerInv
  BY <1>1, <1>2 DEF TowerInv
<1>9. FreshInv
  <2>1. \A e \in EntryNumbers : \A l \in SkipLevels : sl.next[e][l] = Unset
    BY Constants0 DEF MemInit
  <2>2. wr.pc = "idle"
    BY DEF MemInit
  <2> QED
    BY <1>1, <2>1, <2>2 DEF FreshInv
<1>10. WriterInv
  BY DEF WriterInv, MemInit, Inserting
<1>11. ReaderInv /\ ResultInv
  BY DEF MemInit, ReaderInv, ResultInv, Walking
<1> QED
  BY <1>3, <1>4, <1>5, <1>7, <1>8, <1>9, <1>10, <1>11 DEF MemInv

\* The invariant is inductive.
LEMMA MemNextInv == MemInv /\ [MemNext]_mem_vars => MemInv'
<1> SUFFICES ASSUME MemInv, [MemNext]_mem_vars PROVE MemInv'
  OBVIOUS
<1>1. CASE UNCHANGED mem_vars
  <2>1. UNCHANGED <<sl, wr, mem_seq>> /\ UNCHANGED rdr /\ ListInv
    BY <1>1 DEF mem_vars, MemInv, ListInv
  <2>2. ListInv' /\ Inserted' = Inserted /\ \A l \in SkipLevels : On(l)' = On(l)
    BY <2>1, ReaderLeavesList
  <2>3. mem_seq <= mem_seq'
    BY <2>1, MemTableConstants DEF MemInv, ListTypes
  <2> QED
    BY <2>1, <2>2, <2>3, WriterStep
<1>2. CASE MemNext
  BY <1>2, StartInsertKeeps, StoreMaxHeightKeeps, LinkForwardKeeps, PublishKeeps,
     FinishInsertKeeps, ReaderKeeps DEF MemNext
<1> QED
  BY <1>1, <1>2

\* MemTable::Get: the node at or after (key, sequence) is the newest visible entry of
\* the key, or there is none.
LEMMA GetIsExact ==
    ASSUME MemInv, rdr.pc = "done", rdr.op = "get"
    PROVE  GetResult = NewestEntry(UserKeyOf(rdr.target), rdr.seq)
<1>1. /\ rdr.before \subseteq Inserted /\ Inserted \subseteq EntryNumbers
      /\ \A e \in Inserted : SequenceOf(e) <= rdr.seq => e \in rdr.before
      /\ rdr.node \in Inserted \cup {Nil}
      /\ rdr.node = Nil \/ rdr.node >= rdr.target
      /\ \A e \in rdr.before : e >= rdr.target => rdr.node # Nil /\ rdr.node <= e
  BY DEF MemInv, ReaderInv, ResultInv, Inserted
<1>2. PICK k \in MemUserKeys : rdr.target = EntryOf(k, rdr.seq)
  BY DEF MemInv, ReaderInv
<1>3. PICK s, t, n : s = rdr.seq /\ t = rdr.target /\ n = rdr.node
  OBVIOUS
<1>4. s \in 0..MaxMemEntries /\ t = EntryOf(k, s) /\ t \in Nat /\ UserKeyOf(t) = k
  <2>1. s \in 0..MaxMemEntries /\ t = EntryOf(k, s)
    BY <1>2, <1>3 DEF MemInv, ReaderTypes
  <2> QED
    BY <2>1, EntryFacts
<1> DEFINE S == {e \in rdr.before : UserKeyOf(e) = k /\ SequenceOf(e) <= s}
<1>5. NewestEntry(UserKeyOf(rdr.target), rdr.seq) = IF S = {} THEN Nil ELSE Min(S)
  BY <1>3, <1>4 DEF NewestEntry
<1>6. \A e \in S : e \in EntryNumbers /\ e \in Nat /\ e >= t /\ n # Nil /\ n <= e
  <2>1. TAKE e \in S
  <2>2. e \in EntryNumbers /\ UserKeyOf(e) = k /\ SequenceOf(e) <= s /\ e \in rdr.before
    BY <1>1
  <2>3. e >= t
    BY <2>2, <1>4, NewerIsSmaller
  <2> QED
    BY <2>2, <2>3, <1>1, <1>3, Constants0
<1>7. CASE n # Nil /\ UserKeyOf(n) = k
  <2>1. n \in EntryNumbers /\ n \in Inserted /\ n \in Nat /\ n >= t
    BY <1>1, <1>3, <1>7, Constants0
  <2>2. SequenceOf(n) <= s
    BY <2>1, <1>4, <1>7, NewerIsSmaller
  <2>3. n \in S
    BY <2>1, <2>2, <1>1, <1>3, <1>7
  <2>4. S \in SUBSET Nat /\ \A e \in S : n <= e
    BY <1>6
  <2>5. Min(S) = n
    <3> HIDE DEF S
    <3> QED
      BY <2>3, <2>4, MinIs
  <2>6. GetResult = n
    BY <1>3, <1>4, <1>7 DEF GetResult
  <2> QED
    BY <2>3, <2>5, <2>6, <1>5
<1>8. CASE ~(n # Nil /\ UserKeyOf(n) = k)
  <2>1. GetResult = Nil
    BY <1>3, <1>4, <1>8 DEF GetResult
  <2>2. ASSUME NEW e \in S PROVE FALSE
    <3>1. n # Nil /\ n <= e /\ e \in Nat /\ UserKeyOf(e) = k
      BY <1>6
    <3>2. n \in Nat /\ n >= t
      BY <3>1, <1>1, <1>3, Constants0
    <3>3. t <= n
      BY <3>2, <1>4
    <3>4. UserKeyOf(n) = UserKeyOf(t)
      BY <3>1, <3>2, <3>3, <1>4, KeysTogether
    <3> QED
      BY <3>1, <3>4, <1>4, <1>8
  <2>3. S = {}
    BY <2>2
  <2> QED
    BY <2>1, <2>3, <1>5
<1> QED
  BY <1>7, <1>8

\* The invariant gives the property.
LEMMA MemInvReads == MemInv => MemReadsAgree
<1> SUFFICES ASSUME MemInv PROVE MemReadsAgree
  OBVIOUS
<1>1. rdr.x # Unset /\ rdr.node # Unset
  BY Constants0 DEF MemInv, ReaderTypes
<1>2. rdr.pc = "done" /\ rdr.op = "get" => GetResult = NewestEntry(UserKeyOf(rdr.target), rdr.seq)
  BY GetIsExact
<1>3. rdr.node = Nil \/ rdr.node \in Inserted
  BY DEF MemInv, ReaderInv
<1>4. ResultInv /\ rdr.op \in {"none", "get", "seek", "prev", "last", "next", "first"}
  BY DEF MemInv, ReaderTypes
<1> QED
  BY <1>1, <1>2, <1>3, <1>4 DEF MemReadsAgree, ResultInv

\* Skip list readers need no lock (the comment at the head of skiplist.h): for any
\* number of entries, levels and reads, every interleaving of one writer's stores
\* with a reader's loads, and any value of max_height_ the reader sees, a reader
\* follows no uninitialised link, skips no entry that was complete when its
\* operation began, and MemTable::Get returns the newest entry it may see.
THEOREM LockFreeReadsAreRight == MemSpec => []MemReadsAgree
<1>1. MemSpec => []MemInv
  BY MemInitInv, MemNextInv, PTL DEF MemSpec
<1> QED
  BY <1>1, MemInvReads, PTL

-----------------------------------------------------------------------------
(* The cache of open tables *)

\* The types of a handle, of the hash table and of the shard.
HandleType == [key: Nat, refs: Nat, in_cache: BOOLEAN, deleted: Nat]
HashTables == UNION {[0..(l - 1) -> SUBSET Nat] : l \in Nat \ {0}}
CacheType == [capacity: Nat, usage: Nat, lru: Seq(Nat), in_use: SUBSET Nat, elems: Nat, buckets: HashTables]

\* The state an operation works on.
Shard(c, h) == [c |-> c, h |-> h]

\* The handles of the cache, and the length of its hash table.
Kept(h) == {x \in 1..Len(h) : h[x].in_cache}
Length(c) == Cardinality(DOMAIN c.buckets)

\* A list without repetitions, and its members.
Distinct(s) == \A i, j \in 1..Len(s) : i # j => s[i] # s[j]
Elems(s) == {s[i] : i \in 1..Len(s)}

\* The references of each handle are its n[x] holders' and the cache's.
RefsInv(h, n) ==
    /\ h \in Seq(HandleType) /\ n \in [1..Len(h) -> Nat]
    /\ \A x \in 1..Len(h) : h[x].refs = IF h[x].in_cache THEN n[x] + 1 ELSE n[x]
    /\ \A x \in 1..Len(h) : h[x].deleted = IF h[x].refs = 0 THEN 1 ELSE 0

\* The hash table has the handles of T, one for a key, in the buckets of their keys.
TableInv(c, h, T) ==
    /\ T \subseteq 1..Len(h)
    /\ \A b \in DOMAIN c.buckets : \A x \in c.buckets[b] : x \in T /\ Bucket(c, h[x].key) = b
    /\ \A x \in T : x \in c.buckets[Bucket(c, h[x].key)]
    /\ \A x, y \in T : h[x].key = h[y].key => x = y
    /\ c.elems = Cardinality(T)

\* Each entry of the cache is on one list, and is charged for.
ListsInv(c, h, n) ==
    /\ Distinct(c.lru)
    /\ \A x : x \in Elems(c.lru) <=> x \in Kept(h) /\ n[x] = 0
    /\ \A x : x \in c.in_use <=> x \in Kept(h) /\ n[x] > 0
    /\ c.usage = Cardinality(Kept(h))

\* What every operation of the shard keeps: n[x] readers hold the handle x.
ShardInv(c, h, n) == c \in CacheType /\ RefsInv(h, n) /\ TableInv(c, h, Kept(h)) /\ ListsInv(c, h, n)

-----------------------------------------------------------------------------
\* Min of a non-empty set of numbers.
LEMMA MinIn ==
    ASSUME NEW S \in SUBSET Nat, S # {}
    PROVE  Min(S) \in S
<1>1. \E m \in S : \A k \in S : m <= k
  BY LeastElement
<1> QED
  BY <1>1 DEF Min

\* LRU_Remove.
LEMMA RemoveOf ==
    ASSUME NEW s \in Seq(Nat), Distinct(s), NEW x
    PROVE  /\ RemoveFirst(s, x) \in Seq(Nat) /\ Distinct(RemoveFirst(s, x))
           /\ \A y : y \in Elems(RemoveFirst(s, x)) <=> y \in Elems(s) /\ y # x
<1> DEFINE I == {i \in 1..Len(s) : s[i] = x}
<1>1. CASE I = {}
  <2>1. RemoveFirst(s, x) = s /\ \A i \in 1..Len(s) : s[i] # x
    BY <1>1 DEF RemoveFirst
  <2> QED
    BY <2>1 DEF Elems
<1>2. CASE I # {}
  <2>1. I \in SUBSET Nat
    OBVIOUS
  <2>2. PICK m \in I : m = Min(I)
    BY <1>2, <2>1, MinIn
  <2>3. RemoveFirst(s, x) = RemoveAt(s, m)
    BY <1>2, <2>2 DEF RemoveFirst, SelectInSeq
  <2>4. Len(s) \in Nat /\ m \in 1..Len(s) /\ s[m] = x
    BY <2>2
  <2> DEFINE a == SubSeq(s, 1, m - 1)
             b == SubSeq(s, m + 1, Len(s))
             t == a \o b
  <2>5. a \in Seq(Nat) /\ Len(a) = m - 1 /\ \A i \in 1..(m - 1) : a[i] = s[i]
    BY <2>4
  <2>6. b \in Seq(Nat) /\ Len(b) = Len(s) - m /\ \A i \in 1..(Len(s) - m) : b[i] = s[m + i]
    BY <2>4
  <2>7. t \in Seq(Nat) /\ Len(t) = Len(s) - 1
    <3> HIDE DEF a, b
    <3>1. t \in Seq(Nat) /\ Len(t) = Len(a) + Len(b)
      BY <2>5, <2>6, ConcatProperties
    <3> QED
      BY <2>4, <2>5, <2>6, <3>1
  <2>8. \A i \in 1..Len(t) : t[i] = IF i < m THEN s[i] ELSE s[i + 1]
    <3> HIDE DEF a, b
    <3>0. a \in Seq(Nat) /\ b \in Seq(Nat)
      BY <2>5, <2>6
    <3>1. \A i \in 1..(Len(a) + Len(b)) : t[i] = IF i <= Len(a) THEN a[i] ELSE b[i - Len(a)]
      BY <3>0, ConcatProperties
    <3>2. ASSUME NEW i \in 1..Len(t), i < m
          PROVE  t[i] = s[i]
      BY <2>4, <2>5, <2>6, <2>7, <3>1, <3>2
    <3>3. ASSUME NEW i \in 1..Len(t), ~(i < m)
          PROVE  t[i] = s[i + 1]
      <4>1. i - (m - 1) \in 1..(Len(s) - m) /\ i \in 1..(Len(a) + Len(b)) /\ ~(i <= Len(a))
        BY <2>4, <2>5, <2>6, <2>7, <3>3
      <4>2. t[i] = b[i - (m - 1)]
        BY <2>5, <3>1, <4>1
      <4>3. b[i - (m - 1)] = s[m + (i - (m - 1))]
        BY <2>6, <4>1
      <4>4. m + (i - (m - 1)) = i + 1
        BY <2>4, <4>1
      <4> QED
        BY <4>2, <4>3, <4>4
    <3> QED
      BY <3>2, <3>3
  <2> HIDE DEF a, b, t
  <2>9. \A i \in 1..Len(t) : /\ i < m => i \in 1..Len(s)
                             /\ ~(i < m) => i + 1 \in 1..Len(s) /\ i + 1 # m
    BY <2>4, <2>7
  <2>10. Distinct(t)
    <3> SUFFICES ASSUME NEW i \in 1..Len(t), NEW j \in 1..Len(t), i # j
                 PROVE  t[i] # t[j]
      BY DEF Distinct
    <3> DEFINE p == IF i < m THEN i ELSE i + 1
               q == IF j < m THEN j ELSE j + 1
    <3>1. p \in 1..Len(s) /\ q \in 1..Len(s) /\ p # q
      BY <2>4, <2>9
    <3>2. t[i] = s[p] /\ t[j] = s[q]
      BY <2>8
    <3> QED
      BY <3>1, <3>2 DEF Distinct
  <2>11. \A y \in Elems(t) : y \in Elems(s) /\ y # x
    <3> SUFFICES ASSUME NEW i \in 1..Len(t)
                 PROVE  t[i] \in Elems(s) /\ t[i] # x
      BY DEF Elems
    <3> DEFINE p == IF i < m THEN i ELSE i + 1
    <3>1. p \in 1..Len(s) /\ p # m
      BY <2>4, <2>9
    <3>2. t[i] = s[p]
      BY <2>8
    <3> QED
      BY <2>4, <3>1, <3>2 DEF Elems, Distinct
  <2>12. \A y \in Elems(s) : y # x => y \in Elems(t)
    <3> SUFFICES ASSUME NEW i \in 1..Len(s), s[i] # x
                 PROVE  s[i] \in Elems(t)
      BY DEF Elems
    <3> DEFINE p == IF i < m THEN i ELSE i - 1
    <3>1. p \in 1..Len(t) /\ (i < m => p < m) /\ (~(i < m) => ~(p < m) /\ p + 1 = i)
      BY <2>4, <2>7
    <3>2. t[p] = s[i]
      BY <2>8, <3>1
    <3> QED
      BY <3>1, <3>2 DEF Elems
  <2> QED
    BY <2>3, <2>7, <2>10, <2>11, <2>12 DEF RemoveAt, t, a, b
<1> QED
  BY <1>1, <1>2

\* LRU_Append of an entry that is not on the list.
LEMMA AppendOf ==
    ASSUME NEW s \in Seq(Nat), Distinct(s), NEW x \in Nat, x \notin Elems(s)
    PROVE  /\ Append(s, x) \in Seq(Nat) /\ Distinct(Append(s, x))
           /\ \A y : y \in Elems(Append(s, x)) <=> y \in Elems(s) \/ y = x
<1> DEFINE t == Append(s, x)
<1>1. Len(s) \in Nat /\ t \in Seq(Nat) /\ Len(t) = Len(s) + 1 /\ t[Len(s) + 1] = x
  OBVIOUS
<1>2. \A i \in 1..Len(s) : t[i] = s[i] /\ i \in 1..Len(t)
  OBVIOUS
<1>3. \A i \in 1..Len(t) : i \in 1..Len(s) \/ i = Len(s) + 1
  BY <1>1
<1>4. Len(s) + 1 \in 1..Len(t)
  BY <1>1
<1> HIDE DEF t
<1>5. \A y : y \in Elems(t) <=> y \in Elems(s) \/ y = x
  BY <1>1, <1>2, <1>3, <1>4 DEF Elems
<1>6. Distinct(t)
  BY <1>1, <1>2, <1>3 DEF Distinct, Elems
<1> QED
  BY <1>1, <1>5, <1>6 DEF t

\* A new handle; the others are as they were.
LEMMA AppendHandle ==
    ASSUME NEW h \in Seq(HandleType), NEW e \in HandleType
    PROVE  /\ Append(h, e) \in Seq(HandleType) /\ Len(h) \in Nat /\ Len(Append(h, e)) = Len(h) + 1
           /\ Append(h, e)[Len(h) + 1] = e
           /\ \A x \in 1..Len(h) : Append(h, e)[x] = h[x]
           /\ \A x : x \in 1..(Len(h) + 1) <=> x \in 1..Len(h) \/ x = Len(h) + 1
           /\ Len(h) + 1 \notin 1..Len(h)
  OBVIOUS

\* The fields of a handle.
LEMMA HandleFields ==
    ASSUME NEW h \in Seq(HandleType)
    PROVE  /\ Len(h) \in Nat
           /\ \A x \in 1..Len(h) : /\ h[x] \in HandleType /\ h[x].key \in Nat /\ h[x].refs \in Nat
                                   /\ h[x].in_cache \in BOOLEAN /\ h[x].deleted \in Nat
<1>1. Len(h) \in Nat /\ \A x \in 1..Len(h) : h[x] \in HandleType
  OBVIOUS
<1>2. \A e \in HandleType : e.key \in Nat /\ e.refs \in Nat /\ e.in_cache \in BOOLEAN /\ e.deleted \in Nat
  BY DEF HandleType
<1> QED
  BY <1>1, <1>2

\* The kept handles are finitely many.
LEMMA KeptFinite ==
    ASSUME NEW h \in Seq(HandleType)
    PROVE  IsFiniteSet(Kept(h)) /\ Cardinality(Kept(h)) \in Nat /\ Kept(h) \subseteq Nat
<1>1. Len(h) \in Nat
  OBVIOUS
<1>2. IsFiniteSet(1..Len(h))
  BY <1>1, FS_Interval
<1>3. IsFiniteSet(Kept(h))
  BY <1>2, FS_Subset DEF Kept
<1> QED
  BY <1>3, FS_CardinalityType DEF Kept

\* The buckets are 0 to length_ - 1, and a key has one of them.
LEMMA BucketOf ==
    ASSUME NEW c \in CacheType
    PROVE  /\ Length(c) \in Nat \ {0} /\ DOMAIN c.buckets = 0..(Length(c) - 1)
           /\ c.buckets \in [0..(Length(c) - 1) -> SUBSET Nat]
           /\ \A key \in Nat : Bucket(c, key) \in DOMAIN c.buckets
<1>1. PICK l \in Nat \ {0} : c.buckets \in [0..(l - 1) -> SUBSET Nat]
  BY DEF CacheType, HashTables
<1>2. DOMAIN c.buckets = 0..(l - 1)
  BY <1>1
<1>3. Cardinality(0..(l - 1)) = l
  BY FS_Interval
<1>4. Length(c) = l
  BY <1>2, <1>3 DEF Length
<1>5. \A key \in Nat : key % l \in 0..(l - 1)
  OBVIOUS
<1> QED
  BY <1>1, <1>2, <1>4, <1>5 DEF Bucket, Length

-----------------------------------------------------------------------------
(* The hash table *)

\* A lookup finds the handle with the key, if the table has one.
LEMMA LookupFinds ==
    ASSUME NEW c \in CacheType, NEW h \in Seq(HandleType), NEW T, TableInv(c, h, T), NEW key \in Nat
    PROVE  \A x : x \in FindPointer(c, h, key) <=> x \in T /\ h[x].key = key
<1>1. Bucket(c, key) \in DOMAIN c.buckets
  BY BucketOf
<1> QED
  BY <1>1 DEF FindPointer, TableInv

\* The table depends on its chains and on the keys of its handles only.
LEMMA TableFrame ==
    ASSUME NEW c, NEW h, NEW T, TableInv(c, h, T), NEW d, NEW g,
           d.buckets = c.buckets, d.elems = c.elems,
           T \subseteq 1..Len(g), \A x \in T : g[x].key = h[x].key
    PROVE  TableInv(d, g, T)
<1>1. \A key : Bucket(d, key) = Bucket(c, key)
  BY DEF Bucket
<1> QED
  BY <1>1 DEF TableInv

\* HandleTable::Remove takes one handle out.
LEMMA TableRemoveKeeps ==
    ASSUME NEW c \in CacheType, NEW h \in Seq(HandleType), NEW T, IsFiniteSet(T), TableInv(c, h, T),
           NEW x \in T
    PROVE  LET d == TableRemove(c, h, h[x].key)
           IN  /\ d \in CacheType /\ TableInv(d, h, T \ {x})
               /\ d.lru = c.lru /\ d.in_use = c.in_use /\ d.usage = c.usage /\ d.capacity = c.capacity
<1> DEFINE key == h[x].key
           B == Bucket(c, key)
           d == TableRemove(c, h, key)
<1>1. x \in 1..Len(h) /\ key \in Nat
  BY HandleFields DEF TableInv
<1>2. B \in DOMAIN c.buckets /\ c.buckets[B] \in SUBSET Nat
  BY <1>1, BucketOf
<1>3. FindPointer(c, h, key) = {x}
  <2>1. \A y : y \in FindPointer(c, h, key) <=> y \in T /\ h[y].key = key
    BY <1>1, LookupFinds
  <2> QED
    BY <2>1 DEF TableInv
<1>4. d = [c EXCEPT !.buckets = [c.buckets EXCEPT ![B] = c.buckets[B] \ {x}], !.elems = c.elems - 1]
  BY <1>3 DEF TableRemove
<1>5. /\ c.elems \in Nat /\ c.elems = Cardinality(T)
      /\ Cardinality(T \ {x}) = c.elems - 1 /\ c.elems - 1 \in Nat
  <2>1. c.elems = Cardinality(T)
    BY DEF TableInv
  <2>2. IsFiniteSet(T \ {x}) /\ Cardinality(T \ {x}) = Cardinality(T) - 1
    BY FS_RemoveElement
  <2>3. Cardinality(T \ {x}) \in Nat /\ Cardinality(T) \in Nat
    BY <2>2, FS_CardinalityType
  <2> QED
    BY <2>1, <2>2, <2>3
<1> DEFINE nb == [c.buckets EXCEPT ![B] = c.buckets[B] \ {x}]
           ne == c.elems - 1
<1>6. nb \in [0..(Length(c) - 1) -> SUBSET Nat] /\ DOMAIN nb = DOMAIN c.buckets
  BY <1>2, BucketOf
<1>7. nb \in HashTables
  BY <1>6, BucketOf DEF HashTables
<1>8. nb[B] = c.buckets[B] \ {x} /\ \A b \in DOMAIN c.buckets : b # B => nb[b] = c.buckets[b]
  BY <1>2, BucketOf
<1>9. d = [c EXCEPT !.buckets = nb, !.elems = ne] /\ ne \in Nat /\ ne = Cardinality(T \ {x})
  BY <1>4, <1>5
<1> HIDE DEF nb, ne, d, B
<1>10. /\ d \in CacheType /\ d.buckets = nb /\ d.elems = ne
       /\ d.lru = c.lru /\ d.in_use = c.in_use /\ d.usage = c.usage /\ d.capacity = c.capacity
  BY <1>7, <1>9 DEF CacheType
<1>11. \A k : Bucket(d, k) = Bucket(c, k)
  BY <1>6, <1>10 DEF Bucket
<1>12. \A b \in DOMAIN nb : \A y \in nb[b] : y \in T \ {x} /\ Bucket(c, h[y].key) = b
  <2>1. \A b \in DOMAIN c.buckets : \A y \in c.buckets[b] : y \in T /\ Bucket(c, h[y].key) = b
    BY DEF TableInv
  <2>2. \A b \in DOMAIN c.buckets : x \in c.buckets[b] => b = B
    BY <2>1 DEF B
  <2> QED
    BY <1>6, <1>8, <2>1, <2>2
<1>13. \A y \in T \ {x} : y \in nb[Bucket(c, h[y].key)]
  <2>1. \A y \in T : h[y].key \in Nat
    BY HandleFields DEF TableInv
  <2>2. \A y \in T : y \in c.buckets[Bucket(c, h[y].key)] /\ Bucket(c, h[y].key) \in DOMAIN c.buckets
    BY <2>1, BucketOf DEF TableInv
  <2> QED
    BY <1>8, <2>2
<1>14. TableInv(d, h, T \ {x})
  BY <1>9, <1>10, <1>11, <1>12, <1>13 DEF TableInv
<1> QED
  BY <1>10, <1>14 DEF d

\* Resize tries the lengths by doubling: one is at least elems_.
LEMMA DoublingReaches ==
    ASSUME NEW e \in Nat
    PROVE  LET lengths[n \in 0..e] == IF n = 0 THEN FirstLength ELSE 2 * lengths[n - 1]
               length == Min({lengths[n] : n \in {m \in 0..e : lengths[m] >= e}})
           IN  length \in Nat \ {0}
<1> DEFINE IsRun(f, k) == f = [n \in 0..k |-> IF n = 0 THEN FirstLength ELSE 2 * f[n - 1]]
           bad == {k \in 0..e : ~\E f : IsRun(f, k)}
           lengths == CHOOSE lengths :
                         lengths = [n \in 0..e |-> IF n = 0 THEN FirstLength ELSE 2 * lengths[n - 1]]
<1>1. \E f : IsRun(f, e)
  <2>1. SUFFICES ASSUME bad # {}
                 PROVE  FALSE
    OBVIOUS
  <2>2. PICK k \in bad : \A j \in bad : k <= j
    <3>1. bad \in SUBSET Nat
      OBVIOUS
    <3> HIDE DEF bad
    <3> QED
      BY <2>1, <3>1, LeastElement
  <2>3. k # 0
    <3>1. IsRun([n \in 0..0 |-> FirstLength], 0)
      OBVIOUS
    <3> QED
      BY <2>2, <3>1
  <2>4. k - 1 \in 0..e /\ k - 1 \notin bad
    <3>1. k \in 0..e /\ \A j \in bad : k <= j
      BY <2>2
    <3> HIDE DEF bad
    <3> QED
      BY <2>3, <3>1
  <2>5. PICK f : IsRun(f, k - 1)
    BY <2>4
  <2> DEFINE g == [n \in 0..k |-> IF n = k THEN 2 * f[k - 1] ELSE f[n]]
  <2>6. \A n \in 0..k : g[n] = IF n = 0 THEN FirstLength ELSE 2 * g[n - 1]
    <3> SUFFICES ASSUME NEW n \in 0..k
                 PROVE  g[n] = IF n = 0 THEN FirstLength ELSE 2 * g[n - 1]
      OBVIOUS
    <3>1. k \in Nat /\ k # 0
      BY <2>3
    <3>2. CASE n = k
      <4>1. n - 1 \in 0..k /\ n - 1 # k /\ n # 0
        BY <3>1, <3>2
      <4> QED
        BY <3>2, <4>1
    <3>3. CASE n # k
      <4>1. n \in 0..(k - 1)
        BY <3>1, <3>3
      <4>2. f[n] = IF n = 0 THEN FirstLength ELSE 2 * f[n - 1]
        BY <2>5, <4>1
      <4>3. n # 0 => n - 1 \in 0..k /\ n - 1 # k
        BY <3>1, <4>1
      <4> QED
        BY <3>3, <4>2, <4>3
    <3> QED
      BY <3>2, <3>3
  <2>7. IsRun(g, k)
    BY <2>6
  <2> QED
    BY <2>2, <2>7
<1>2. lengths = [n \in 0..e |-> IF n = 0 THEN FirstLength ELSE 2 * lengths[n - 1]]
  BY <1>1
<1> HIDE DEF lengths
<1>3. \A n \in 0..e : lengths[n] = IF n = 0 THEN FirstLength ELSE 2 * lengths[n - 1]
  BY <1>2
<1>4. \A n \in 0..e : lengths[n] \in Nat /\ lengths[n] > n
  <2> DEFINE wrong == {k \in 0..e : ~(lengths[k] \in Nat /\ lengths[k] > k)}
  <2>1. SUFFICES ASSUME wrong # {}
                 PROVE  FALSE
    OBVIOUS
  <2>2. PICK k \in wrong : \A j \in wrong : k <= j
    <3>1. wrong \in SUBSET Nat
      OBVIOUS
    <3> HIDE DEF wrong
    <3> QED
      BY <2>1, <3>1, LeastElement
  <2>3. k # 0
    BY <1>3, <2>2, CacheConstants
  <2>4. k - 1 \in 0..e /\ k - 1 \notin wrong /\ k \in 0..e
    BY <2>2, <2>3
  <2>5. lengths[k - 1] \in Nat /\ lengths[k - 1] > k - 1
    BY <2>4
  <2>6. lengths[k] = 2 * lengths[k - 1]
    BY <1>3, <2>3, <2>4
  <2>7. lengths[k] \in Nat /\ lengths[k] > k
    BY <2>3, <2>4, <2>5, <2>6
  <2> QED
    BY <2>2, <2>7
<1> DEFINE long == {lengths[n] : n \in {m \in 0..e : lengths[m] >= e}}
<1>5. long \subseteq Nat \ {0} /\ lengths[e] \in long
  BY <1>4
<1>6. Min(long) \in long
  BY <1>5, MinIn
<1>7. Min(long) \in Nat \ {0}
  BY <1>5, <1>6
<1> QED
  BY <1>7 DEF lengths

\* Resize keeps the handles, each in the bucket of its key.
LEMMA ResizeKeeps ==
    ASSUME NEW c \in CacheType, NEW h \in Seq(HandleType), NEW T, TableInv(c, h, T)
    PROVE  LET d == Resize(c, h)
           IN  /\ d \in CacheType /\ TableInv(d, h, T)
               /\ d.lru = c.lru /\ d.in_use = c.in_use /\ d.usage = c.usage /\ d.capacity = c.capacity
<1> DEFINE d == Resize(c, h)
<1>1. c.elems \in Nat
  BY DEF CacheType
<1>2. PICK l \in Nat \ {0} :
         d = [c EXCEPT !.buckets = [i \in 0..(l - 1) |->
                 {x \in UNION {c.buckets[b] : b \in DOMAIN c.buckets} : h[x].key % l = i}]]
  BY <1>1, DoublingReaches DEF Resize
<1> HIDE DEF d
<1> DEFINE all == UNION {c.buckets[b] : b \in DOMAIN c.buckets}
           nb == [i \in 0..(l - 1) |-> {x \in all : h[x].key % l = i}]
<1>3. \A x \in T : h[x].key \in Nat /\ h[x].key % l \in 0..(l - 1)
  <2>1. \A x \in T : h[x].key \in Nat
    BY HandleFields DEF TableInv
  <2> QED
    BY <2>1
<1>4. all = T
  <2>1. \A x \in T : x \in c.buckets[Bucket(c, h[x].key)] /\ Bucket(c, h[x].key) \in DOMAIN c.buckets
    BY <1>3, BucketOf DEF TableInv
  <2>2. \A b \in DOMAIN c.buckets : c.buckets[b] \subseteq T
    BY DEF TableInv
  <2> QED
    BY <2>1, <2>2
<1>5. T \subseteq Nat
  BY HandleFields DEF TableInv
<1>6. d = [c EXCEPT !.buckets = nb]
  BY <1>2
<1> HIDE DEF all
<1>7. nb \in [0..(l - 1) -> SUBSET Nat]
  BY <1>4, <1>5
<1>8. nb \in HashTables
  BY <1>7 DEF HashTables
<1>9. DOMAIN nb = 0..(l - 1) /\ \A b \in 0..(l - 1) : \A x : x \in nb[b] <=> x \in T /\ h[x].key % l = b
  BY <1>4
<1> HIDE DEF nb
<1>10. /\ d \in CacheType /\ d.buckets = nb /\ d.elems = c.elems
       /\ d.lru = c.lru /\ d.in_use = c.in_use /\ d.usage = c.usage /\ d.capacity = c.capacity
  BY <1>6, <1>8 DEF CacheType
<1>11. Cardinality(DOMAIN nb) = l
  BY <1>9, FS_Interval
<1>12. \A k : Bucket(d, k) = k % l
  BY <1>10, <1>11 DEF Bucket
<1>13. TableInv(d, h, T)
  BY <1>3, <1>9, <1>10, <1>12 DEF TableInv
<1> QED
  BY <1>10, <1>13 DEF d

\* HandleTable::Insert puts the handle in, for the one that had its key.
LEMMA TableInsertKeeps ==
    ASSUME NEW c \in CacheType, NEW h \in Seq(HandleType), NEW T, IsFiniteSet(T), TableInv(c, h, T),
           NEW new \in 1..Len(h), new \notin T
    PROVE  LET d == TableInsert(c, h, new)
               old == FindPointer(c, h, h[new].key)
           IN  /\ d \in CacheType /\ TableInv(d, h, (T \ old) \cup {new})
               /\ d.lru = c.lru /\ d.in_use = c.in_use /\ d.usage = c.usage /\ d.capacity = c.capacity
<1> DEFINE key == h[new].key
           B == Bucket(c, key)
           old == FindPointer(c, h, key)
           U == (T \ old) \cup {new}
           ne == IF old = {} THEN c.elems + 1 ELSE c.elems
           nb == [c.buckets EXCEPT ![B] = (c.buckets[B] \ old) \cup {new}]
           d == [c EXCEPT !.buckets = nb, !.elems = ne]
<1>1. key \in Nat /\ new \in Nat
  BY HandleFields
<1>2. B \in DOMAIN c.buckets /\ c.buckets[B] \in SUBSET Nat
  BY <1>1, BucketOf
<1>3. \A x : x \in old <=> x \in T /\ h[x].key = key
  BY <1>1, LookupFinds
<1>4. \A x, y \in old : x = y
  BY <1>3 DEF TableInv
<1>5. c.elems \in Nat /\ c.elems = Cardinality(T)
  BY DEF CacheType, TableInv
<1>6. ne \in Nat
  BY <1>5
<1>7. Cardinality(U) = ne
  <2>1. CASE old = {}
    <3>1. U = T \cup {new}
      BY <2>1
    <3>2. Cardinality(T \cup {new}) = Cardinality(T) + 1
      BY FS_AddElement
    <3> QED
      BY <1>5, <2>1, <3>1, <3>2
  <2>2. CASE old # {}
    <3>1. PICK o : o \in old
      BY <2>2
    <3>2. U = (T \ {o}) \cup {new} /\ o \in T
      BY <1>3, <1>4, <3>1
    <3>3. IsFiniteSet(T \ {o}) /\ Cardinality(T \ {o}) = Cardinality(T) - 1
      BY <3>2, FS_RemoveElement
    <3>4. Cardinality((T \ {o}) \cup {new}) = Cardinality(T \ {o}) + 1
      BY <3>3, FS_AddElement
    <3> HIDE DEF old, U
    <3> QED
      BY <1>5, <2>2, <3>2, <3>3, <3>4
  <2> QED
    BY <2>1, <2>2
<1>8. nb \in [0..(Length(c) - 1) -> SUBSET Nat] /\ DOMAIN nb = DOMAIN c.buckets
  BY <1>1, <1>2, BucketOf
<1>9. nb \in HashTables
  BY <1>8, BucketOf DEF HashTables
<1>10. /\ nb[B] = (c.buckets[B] \ old) \cup {new}
       /\ \A b \in DOMAIN c.buckets : b # B => nb[b] = c.buckets[b]
  BY <1>2, BucketOf
<1>11. TableInsert(c, h, new) =
         IF old = {} /\ d.elems > Cardinality(DOMAIN c.buckets) THEN Resize(d, h) ELSE d
  BY DEF TableInsert
<1> HIDE DEF nb, ne, B, old
<1>12. /\ d \in CacheType /\ d.buckets = nb /\ d.elems = ne
       /\ d.lru = c.lru /\ d.in_use = c.in_use /\ d.usage = c.usage /\ d.capacity = c.capacity
  BY <1>6, <1>9 DEF CacheType
<1> HIDE DEF d
<1>13. \A k : Bucket(d, k) = Bucket(c, k)
  BY <1>8, <1>12 DEF Bucket
<1>14. \A x \in T : h[x].key \in Nat /\ x \in 1..Len(h)
  BY HandleFields DEF TableInv
<1>15. \A b \in DOMAIN nb : \A y \in nb[b] : y \in U /\ Bucket(c, h[y].key) = b
  <2>1. \A b \in DOMAIN c.buckets : \A y \in c.buckets[b] : y \in T /\ Bucket(c, h[y].key) = b
    BY DEF TableInv
  <2>2. \A b \in DOMAIN c.buckets : \A y \in c.buckets[b] : y \in old => b = B
    BY <1>3, <2>1 DEF B
  <2>3. Bucket(c, h[new].key) = B
    BY DEF B
  <2> QED
    BY <1>8, <1>10, <2>1, <2>2, <2>3
<1>16. \A y \in U : y \in nb[Bucket(c, h[y].key)]
  <2>1. \A y \in T : y \in c.buckets[Bucket(c, h[y].key)] /\ Bucket(c, h[y].key) \in DOMAIN c.buckets
    BY <1>14, BucketOf DEF TableInv
  <2>2. new \in nb[Bucket(c, h[new].key)]
    BY <1>10 DEF B
  <2> QED
    BY <1>10, <2>1, <2>2
<1>17. U \subseteq 1..Len(h) /\ \A x, y \in U : h[x].key = h[y].key => x = y
  BY <1>3, <1>14 DEF TableInv
<1>18. TableInv(d, h, U)
  <2> HIDE DEF U
  <2> QED
    BY <1>7, <1>12, <1>13, <1>15, <1>16, <1>17 DEF TableInv
<1>19. /\ Resize(d, h) \in CacheType /\ TableInv(Resize(d, h), h, U)
       /\ Resize(d, h).lru = d.lru /\ Resize(d, h).in_use = d.in_use /\ Resize(d, h).usage = d.usage
       /\ Resize(d, h).capacity = d.capacity
  BY <1>12, <1>18, ResizeKeeps
<1> HIDE DEF U
<1>20. LET e == TableInsert(c, h, new)
       IN  /\ e \in CacheType /\ TableInv(e, h, U)
           /\ e.lru = c.lru /\ e.in_use = c.in_use /\ e.usage = c.usage /\ e.capacity = c.capacity
  BY <1>11, <1>12, <1>18, <1>19
<1> QED
  BY <1>20 DEF U, old

-----------------------------------------------------------------------------
(* The lists and the reference counts *)

\* A handle is changed; its key is not.
LEMMA ChangedHandle ==
    ASSUME NEW h \in Seq(HandleType), NEW x \in 1..Len(h), NEW e \in HandleType, e.key = h[x].key
    PROVE  LET g == [h EXCEPT ![x] = e]
           IN  /\ g \in Seq(HandleType) /\ Len(g) = Len(h) /\ g[x] = e
               /\ \A y \in 1..Len(h) : y # x => g[y] = h[y]
               /\ \A y \in 1..Len(h) : g[y].key = h[y].key
               /\ \A y : y \in Kept(g) <=> IF y = x THEN e.in_cache ELSE y \in Kept(h)
<1> DEFINE g == [h EXCEPT ![x] = e]
<1>1. g \in Seq(HandleType) /\ Len(g) = Len(h) /\ g[x] = e /\ \A y \in 1..Len(h) : y # x => g[y] = h[y]
  OBVIOUS
<1> HIDE DEF g
<1>2. \A y \in 1..Len(h) : g[y].key = h[y].key
  BY <1>1
<1>3. \A y : y \in Kept(g) <=> IF y = x THEN e.in_cache ELSE y \in Kept(h)
  BY <1>1 DEF Kept
<1> QED
  BY <1>1, <1>2, <1>3 DEF g

\* The count is stored.
LEMMA StoredRefs ==
    ASSUME NEW e \in HandleType, NEW r \in Nat, NEW f, f = [e EXCEPT !.refs = r]
    PROVE  /\ f \in HandleType /\ f.key = e.key /\ f.refs = r
           /\ f.in_cache = e.in_cache /\ f.deleted = e.deleted
  BY DEF HandleType

\* The entry leaves the cache.
LEMMA StoredLeaves ==
    ASSUME NEW e \in HandleType, NEW f, f = [e EXCEPT !.in_cache = FALSE]
    PROVE  /\ f \in HandleType /\ f.key = e.key /\ f.refs = e.refs
           /\ f.in_cache = FALSE /\ f.deleted = e.deleted
  BY DEF HandleType

\* Ref: another reader holds an entry of the cache.
LEMMA RefKeeps ==
    ASSUME NEW c, NEW h, NEW n, ShardInv(c, h, n), NEW x \in Kept(h), NEW m,
           m \in [1..Len(h) -> Nat], m[x] = n[x] + 1, \A y \in 1..Len(h) : y # x => m[y] = n[y]
    PROVE  LET st == Ref(Shard(c, h), x)
           IN  ShardInv(st.c, st.h, m)
<1> DEFINE st == Ref(Shard(c, h), x)
           e == [h[x] EXCEPT !.refs = h[x].refs + 1]
           g == [h EXCEPT ![x] = e]
<1> SUFFICES ShardInv(st.c, st.h, m)
  OBVIOUS
<1>1. c \in CacheType /\ RefsInv(h, n) /\ TableInv(c, h, Kept(h)) /\ ListsInv(c, h, n)
  BY DEF ShardInv
<1>2. /\ h \in Seq(HandleType) /\ n \in [1..Len(h) -> Nat] /\ x \in 1..Len(h) /\ h[x].in_cache = TRUE
      /\ Len(h) \in Nat /\ h[x] \in HandleType /\ h[x].refs \in Nat /\ n[x] \in Nat /\ h[x].refs = n[x] + 1
      /\ h[x].deleted = 0
  <2>1. h \in Seq(HandleType) /\ n \in [1..Len(h) -> Nat]
    BY <1>1 DEF RefsInv
  <2>2. x \in 1..Len(h) /\ h[x].in_cache
    BY DEF Kept
  <2>3. /\ Len(h) \in Nat /\ h[x] \in HandleType /\ n[x] \in Nat
        /\ h[x].refs \in Nat /\ h[x].in_cache \in BOOLEAN
    BY <2>1, <2>2, HandleFields
  <2>4. h[x].refs = n[x] + 1
    BY <1>1, <2>2 DEF RefsInv
  <2>5. h[x].deleted = 0
    <3>1. h[x].deleted = IF h[x].refs = 0 THEN 1 ELSE 0
      BY <1>1, <2>2 DEF RefsInv
    <3>2. h[x].refs # 0
      BY <2>3, <2>4
    <3> QED
      BY <3>1, <3>2
  <2> QED
    BY <2>1, <2>2, <2>3, <2>4, <2>5
<1>3. /\ e \in HandleType /\ e.key = h[x].key /\ e.refs = h[x].refs + 1 /\ e.in_cache = TRUE
      /\ e.deleted = 0
  <2>1. h[x].refs + 1 \in Nat
    BY <1>2
  <2> QED
    BY <1>2, <2>1, StoredRefs
<1>4. /\ st.h = g
      /\ st.c = IF h[x].refs = 1 THEN [c EXCEPT !.lru = RemoveFirst(c.lru, x), !.in_use = c.in_use \cup {x}]
                ELSE c
  BY <1>2 DEF Ref, Shard
<1> HIDE DEF e, st
<1>5. /\ g \in Seq(HandleType) /\ Len(g) = Len(h) /\ g[x] = e
      /\ \A y \in 1..Len(h) : y # x => g[y] = h[y]
      /\ \A y \in 1..Len(h) : g[y].key = h[y].key
      /\ \A y : y \in Kept(g) <=> IF y = x THEN e.in_cache ELSE y \in Kept(h)
  BY <1>2, <1>3, ChangedHandle
<1> HIDE DEF g
<1>6. Kept(g) = Kept(h)
  BY <1>3, <1>5
<1>7. RefsInv(g, m)
  <2>1. /\ g[x].refs = m[x] + 1 /\ g[x].in_cache = TRUE
        /\ g[x].deleted = IF g[x].refs = 0 THEN 1 ELSE 0
    BY <1>2, <1>3, <1>5
  <2>2. \A y \in 1..Len(g) : g[y].refs = IF g[y].in_cache THEN m[y] + 1 ELSE m[y]
    BY <1>1, <1>5, <2>1 DEF RefsInv
  <2>3. \A y \in 1..Len(g) : g[y].deleted = IF g[y].refs = 0 THEN 1 ELSE 0
    BY <1>1, <1>5, <2>1 DEF RefsInv
  <2> QED
    BY <1>5, <2>2, <2>3 DEF RefsInv
<1>8. c.lru \in Seq(Nat) /\ c.in_use \in SUBSET Nat /\ x \in Nat
  BY <1>1, <1>2 DEF CacheType
<1>9. /\ Kept(h) \subseteq 1..Len(h) /\ m[x] > 0
      /\ \A y \in Kept(h) : n[y] \in Nat /\ m[y] \in Nat /\ (y # x => m[y] = n[y])
  BY <1>2 DEF Kept
<1>10. /\ Distinct(c.lru)
       /\ \A y : y \in Elems(c.lru) <=> y \in Kept(h) /\ n[y] = 0
       /\ \A y : y \in c.in_use <=> y \in Kept(h) /\ n[y] > 0
       /\ c.usage = Cardinality(Kept(h))
  BY <1>1 DEF ListsInv
<1>11. CASE h[x].refs = 1
  <2> DEFINE l == RemoveFirst(c.lru, x)
             u == c.in_use \cup {x}
  <2>1. l \in Seq(Nat) /\ Distinct(l) /\ \A y : y \in Elems(l) <=> y \in Elems(c.lru) /\ y # x
    BY <1>8, <1>10, RemoveOf
  <2>2. st.c = [c EXCEPT !.lru = l, !.in_use = u] /\ u \in SUBSET Nat
    BY <1>4, <1>8, <1>11
  <2>3. \A y : y \in u <=> y \in Kept(h) /\ m[y] > 0
    BY <1>9, <1>10
  <2>4. \A y : y \in Elems(l) <=> y \in Kept(h) /\ m[y] = 0
    <3>1. m[x] # 0
      BY <1>9
    <3> QED
      BY <1>9, <1>10, <2>1, <3>1
  <2> HIDE DEF l, u
  <2>5. st.c \in CacheType /\ st.c.lru = l /\ st.c.in_use = u /\ st.c.usage = c.usage /\ st.c.elems = c.elems
        /\ st.c.buckets = c.buckets
    BY <1>1, <2>1, <2>2 DEF CacheType
  <2>6. ListsInv(st.c, g, m)
    BY <1>6, <1>10, <2>1, <2>3, <2>4, <2>5 DEF ListsInv
  <2>7. TableInv(st.c, g, Kept(g))
    BY <1>1, <1>5, <1>6, <1>9, <2>5, TableFrame
  <2> QED
    BY <1>4, <1>7, <2>5, <2>6, <2>7 DEF ShardInv
<1>12. CASE h[x].refs # 1
  <2>1. n[x] > 0 /\ m[x] > 0
    BY <1>2, <1>12
  <2>2. \A y \in Kept(h) : (n[y] = 0 <=> m[y] = 0) /\ (n[y] > 0 <=> m[y] > 0)
    BY <1>2, <1>9, <2>1
  <2>3. st.c = c
    BY <1>4, <1>12
  <2>4. ListsInv(c, g, m)
    BY <1>6, <1>10, <2>2 DEF ListsInv
  <2>5. TableInv(c, g, Kept(g))
    BY <1>1, <1>5, <1>6, <1>9, TableFrame
  <2> QED
    BY <1>1, <1>4, <1>7, <2>3, <2>4, <2>5 DEF ShardInv
<1> QED
  BY <1>11, <1>12 DEF st

\* Unref stores the count, and closes the table with the last reference.
Unreffed(st, c, h, x) ==
    /\ \E e \in HandleType :
         /\ st.h = [h EXCEPT ![x] = e] /\ e.key = h[x].key /\ e.in_cache = h[x].in_cache
         /\ e.refs = h[x].refs - 1
         /\ e.deleted = IF h[x].refs = 1 THEN h[x].deleted + 1 ELSE h[x].deleted
    /\ st.c = IF h[x].refs = 2 /\ h[x].in_cache
              THEN [c EXCEPT !.in_use = c.in_use \ {x}, !.lru = Append(c.lru, x)] ELSE c

\* Unref does.
LEMMA UnrefEffect ==
    ASSUME NEW c, NEW h \in Seq(HandleType), NEW x \in 1..Len(h), h[x].refs > 0
    PROVE  Unreffed(Unref(Shard(c, h), x), c, h, x)
<1> DEFINE st == Unref(Shard(c, h), x)
           r == h[x].refs - 1
           k == h[x].deleted + (IF r = 0 THEN 1 ELSE 0)
           e == [h[x] EXCEPT !.refs = r, !.deleted = k]
<1>1. /\ h[x] \in HandleType /\ h[x].refs \in Nat /\ h[x].deleted \in Nat /\ x \in DOMAIN h
      /\ DOMAIN h[x] = {"key", "refs", "in_cache", "deleted"}
  <2>1. h[x] \in HandleType /\ h[x].refs \in Nat /\ h[x].deleted \in Nat /\ x \in DOMAIN h
    BY HandleFields
  <2>2. \A a \in HandleType : DOMAIN a = {"key", "refs", "in_cache", "deleted"}
    BY DEF HandleType
  <2> QED
    BY <2>1, <2>2
<1>2. r \in Nat /\ k \in Nat /\ (r = 0 <=> h[x].refs = 1) /\ (r = 1 <=> h[x].refs = 2)
  BY <1>1
<1>3. e \in HandleType /\ e.key = h[x].key /\ e.refs = r /\ e.in_cache = h[x].in_cache /\ e.deleted = k
  <2> DEFINE a == h[x]
  <2>1. e = [a EXCEPT !.refs = r, !.deleted = k] /\ a \in HandleType
    BY <1>1
  <2> HIDE DEF r, k, e, a
  <2>2. e \in HandleType /\ e.key = a.key /\ e.refs = r /\ e.in_cache = a.in_cache /\ e.deleted = k
    BY <1>2, <2>1 DEF HandleType
  <2> QED
    BY <2>2 DEF a
<1>4. st.h = [h EXCEPT ![x] = e]
  BY <1>1 DEF Unref, Shard
<1>5. st.c = IF r = 1 /\ h[x].in_cache
             THEN [c EXCEPT !.in_use = c.in_use \ {x}, !.lru = Append(c.lru, x)] ELSE c
  BY DEF Unref, Shard
<1>6. k = IF h[x].refs = 1 THEN h[x].deleted + 1 ELSE h[x].deleted
  BY <1>1, <1>2
<1> HIDE DEF e, k, st
<1>7. Unreffed(st, c, h, x)
  BY <1>2, <1>3, <1>4, <1>5, <1>6 DEF Unreffed
<1> QED
  BY <1>7 DEF st

\* Unref: a reader gives a handle back.
LEMMA UnrefKeeps ==
    ASSUME NEW c, NEW h, NEW n, ShardInv(c, h, n), NEW x \in 1..Len(h), n[x] > 0, NEW m,
           m \in [1..Len(h) -> Nat], m[x] = n[x] - 1, \A y \in 1..Len(h) : y # x => m[y] = n[y]
    PROVE  LET st == Unref(Shard(c, h), x)
           IN  ShardInv(st.c, st.h, m)
<1> DEFINE st == Unref(Shard(c, h), x)
<1> SUFFICES ShardInv(st.c, st.h, m)
  OBVIOUS
<1>1. c \in CacheType /\ RefsInv(h, n) /\ TableInv(c, h, Kept(h)) /\ ListsInv(c, h, n)
  BY DEF ShardInv
<1>2. /\ h \in Seq(HandleType) /\ n \in [1..Len(h) -> Nat] /\ Len(h) \in Nat /\ n[x] \in Nat
      /\ h[x].refs \in Nat /\ h[x].in_cache \in BOOLEAN
      /\ h[x].refs = (IF h[x].in_cache THEN n[x] + 1 ELSE n[x]) /\ h[x].deleted = 0 /\ h[x].refs > 0
  <2>1. h \in Seq(HandleType) /\ n \in [1..Len(h) -> Nat]
    BY <1>1 DEF RefsInv
  <2>2. Len(h) \in Nat /\ h[x].refs \in Nat /\ h[x].in_cache \in BOOLEAN /\ n[x] \in Nat
    BY <2>1, HandleFields
  <2>3. h[x].refs = IF h[x].in_cache THEN n[x] + 1 ELSE n[x]
    BY <1>1 DEF RefsInv
  <2>4. h[x].refs > 0
    BY <2>2, <2>3
  <2>5. h[x].deleted = 0
    BY <1>1, <2>2, <2>4 DEF RefsInv
  <2> QED
    BY <2>1, <2>2, <2>3, <2>4, <2>5
<1>0. Unreffed(st, c, h, x)
  BY <1>2, UnrefEffect
<1> HIDE DEF st
<1>3. PICK e \in HandleType :
         /\ st.h = [h EXCEPT ![x] = e] /\ e.key = h[x].key /\ e.in_cache = h[x].in_cache
         /\ e.refs = h[x].refs - 1
         /\ e.deleted = IF h[x].refs = 1 THEN h[x].deleted + 1 ELSE h[x].deleted
  BY <1>0 DEF Unreffed
<1>4. st.c = IF h[x].refs = 2 /\ h[x].in_cache
             THEN [c EXCEPT !.in_use = c.in_use \ {x}, !.lru = Append(c.lru, x)] ELSE c
  BY <1>0 DEF Unreffed
<1> DEFINE g == [h EXCEPT ![x] = e]
<1>5. /\ g \in Seq(HandleType) /\ Len(g) = Len(h) /\ g[x] = e
      /\ \A y \in 1..Len(h) : y # x => g[y] = h[y]
      /\ \A y \in 1..Len(h) : g[y].key = h[y].key
      /\ \A y : y \in Kept(g) <=> IF y = x THEN e.in_cache ELSE y \in Kept(h)
  BY <1>2, <1>3, ChangedHandle
<1>6. st.h = g
  BY <1>3
<1> HIDE DEF g
<1>7. Kept(g) = Kept(h)
  <2>1. x \in Kept(h) <=> h[x].in_cache
    BY DEF Kept
  <2> QED
    BY <1>3, <1>5, <2>1
<1>8. RefsInv(g, m)
  <2>1. /\ g[x].refs = IF g[x].in_cache THEN m[x] + 1 ELSE m[x]
        /\ g[x].deleted = IF g[x].refs = 0 THEN 1 ELSE 0
    BY <1>2, <1>3, <1>5
  <2>2. \A y \in 1..Len(g) : g[y].refs = IF g[y].in_cache THEN m[y] + 1 ELSE m[y]
    BY <1>1, <1>5, <2>1 DEF RefsInv
  <2>3. \A y \in 1..Len(g) : g[y].deleted = IF g[y].refs = 0 THEN 1 ELSE 0
    BY <1>1, <1>5, <2>1 DEF RefsInv
  <2> QED
    BY <1>5, <2>2, <2>3 DEF RefsInv
<1>9. c.lru \in Seq(Nat) /\ c.in_use \in SUBSET Nat /\ x \in Nat
  BY <1>1, <1>2 DEF CacheType
<1>10. /\ Kept(h) \subseteq 1..Len(h) /\ (x \in Kept(h) <=> h[x].in_cache)
       /\ \A y \in Kept(h) : n[y] \in Nat /\ m[y] \in Nat /\ (y # x => m[y] = n[y])
  BY <1>2 DEF Kept
<1>11. /\ Distinct(c.lru)
       /\ \A y : y \in Elems(c.lru) <=> y \in Kept(h) /\ n[y] = 0
       /\ \A y : y \in c.in_use <=> y \in Kept(h) /\ n[y] > 0
       /\ c.usage = Cardinality(Kept(h))
  BY <1>1 DEF ListsInv
<1>12. CASE h[x].refs = 2 /\ h[x].in_cache
  <2> DEFINE l == Append(c.lru, x)
             u == c.in_use \ {x}
  <2>1. x \in Kept(h) /\ n[x] = 1 /\ m[x] = 0 /\ x \notin Elems(c.lru)
    BY <1>2, <1>10, <1>11, <1>12
  <2>2. l \in Seq(Nat) /\ Distinct(l) /\ \A y : y \in Elems(l) <=> y \in Elems(c.lru) \/ y = x
    BY <1>9, <1>11, <2>1, AppendOf
  <2>3. st.c = [c EXCEPT !.in_use = u, !.lru = l] /\ u \in SUBSET Nat
    BY <1>4, <1>9, <1>12
  <2>4. \A y : y \in u <=> y \in Kept(h) /\ m[y] > 0
    <3>1. ~(m[x] > 0)
      BY <2>1
    <3> QED
      BY <1>10, <1>11, <3>1
  <2>5. \A y : y \in Elems(l) <=> y \in Kept(h) /\ m[y] = 0
    BY <1>10, <1>11, <2>1, <2>2
  <2> HIDE DEF l, u
  <2>6. /\ st.c \in CacheType /\ st.c.lru = l /\ st.c.in_use = u /\ st.c.usage = c.usage
        /\ st.c.elems = c.elems /\ st.c.buckets = c.buckets
    BY <1>1, <2>2, <2>3 DEF CacheType
  <2>7. ListsInv(st.c, g, m)
    BY <1>7, <1>11, <2>2, <2>4, <2>5, <2>6 DEF ListsInv
  <2>8. TableInv(st.c, g, Kept(g))
    BY <1>1, <1>5, <1>7, <1>10, <2>6, TableFrame
  <2> QED
    BY <1>6, <1>8, <2>6, <2>7, <2>8 DEF ShardInv
<1>13. CASE ~(h[x].refs = 2 /\ h[x].in_cache)
  <2>1. x \in Kept(h) => n[x] > 0 /\ m[x] > 0
    BY <1>2, <1>10, <1>13
  <2>2. \A y \in Kept(h) : (n[y] = 0 <=> m[y] = 0) /\ (n[y] > 0 <=> m[y] > 0)
    BY <1>10, <2>1
  <2>3. st.c = c
    BY <1>4, <1>13
  <2>4. ListsInv(c, g, m)
    BY <1>7, <1>11, <2>2 DEF ListsInv
  <2>5. TableInv(c, g, Kept(g))
    BY <1>1, <1>5, <1>7, <1>10, TableFrame
  <2> QED
    BY <1>1, <1>6, <1>8, <2>3, <2>4, <2>5 DEF ShardInv
<1> QED
  BY <1>12, <1>13

\* FinishErase: an entry that is out of the hash table leaves the cache.
LEMMA FinishEraseKeeps ==
    ASSUME NEW c \in CacheType, NEW h, NEW n, RefsInv(h, n), ListsInv(c, h, n),
           NEW x \in Kept(h), TableInv(c, h, Kept(h) \ {x})
    PROVE  LET st == FinishErase(Shard(c, h), x)
           IN  ShardInv(st.c, st.h, n) /\ st.c.capacity = c.capacity
<1> DEFINE st == FinishErase(Shard(c, h), x)
           l == RemoveFirst(c.lru, x)
           u == c.in_use \ {x}
           k == c.usage - 1
           d == [c EXCEPT !.lru = l, !.in_use = u, !.usage = k]
           a == [h[x] EXCEPT !.in_cache = FALSE]
           f == [h EXCEPT ![x] = a]
<1> SUFFICES ShardInv(st.c, st.h, n) /\ st.c.capacity = c.capacity
  OBVIOUS
<1>1. /\ h \in Seq(HandleType) /\ n \in [1..Len(h) -> Nat] /\ Len(h) \in Nat /\ n[x] \in Nat
      /\ x \in 1..Len(h) /\ h[x] \in HandleType /\ h[x].refs = n[x] + 1 /\ h[x].deleted = 0
  <2>1. h \in Seq(HandleType) /\ n \in [1..Len(h) -> Nat]
    BY DEF RefsInv
  <2>2. x \in 1..Len(h) /\ h[x].in_cache
    BY DEF Kept
  <2>3. Len(h) \in Nat /\ h[x] \in HandleType /\ n[x] \in Nat
    BY <2>1, <2>2, HandleFields
  <2>4. h[x].refs = n[x] + 1
    BY <2>2 DEF RefsInv
  <2>5. h[x].deleted = 0
    BY <2>2, <2>3, <2>4 DEF RefsInv
  <2> QED
    BY <2>1, <2>2, <2>3, <2>4, <2>5
<1>2. /\ a \in HandleType /\ a.key = h[x].key /\ a.refs = h[x].refs /\ a.in_cache = FALSE
      /\ a.deleted = h[x].deleted
  BY <1>1, StoredLeaves
<1>3. st = Unref(Shard(d, f), x)
  BY <1>1 DEF FinishErase, Shard
<1> HIDE DEF a, st, d
<1>4. /\ f \in Seq(HandleType) /\ Len(f) = Len(h) /\ f[x] = a
      /\ \A y \in 1..Len(h) : y # x => f[y] = h[y]
      /\ \A y \in 1..Len(h) : f[y].key = h[y].key
      /\ \A y : y \in Kept(f) <=> IF y = x THEN a.in_cache ELSE y \in Kept(h)
  BY <1>1, <1>2, ChangedHandle
<1> HIDE DEF f
<1>5. f[x].refs > 0 /\ f[x].refs = n[x] + 1 /\ f[x].in_cache = FALSE /\ f[x].deleted = 0 /\ x \in 1..Len(f)
  BY <1>1, <1>2, <1>4
<1>0. Unreffed(st, d, f, x)
  BY <1>3, <1>4, <1>5, UnrefEffect
<1>6. PICK e \in HandleType :
         /\ st.h = [f EXCEPT ![x] = e] /\ e.key = f[x].key /\ e.in_cache = f[x].in_cache
         /\ e.refs = f[x].refs - 1
         /\ e.deleted = IF f[x].refs = 1 THEN f[x].deleted + 1 ELSE f[x].deleted
  BY <1>0 DEF Unreffed
<1>7. st.c = d
  <2>1. st.c = IF f[x].refs = 2 /\ f[x].in_cache
               THEN [d EXCEPT !.in_use = d.in_use \ {x}, !.lru = Append(d.lru, x)] ELSE d
    BY <1>0 DEF Unreffed
  <2> QED
    BY <1>5, <2>1
<1> DEFINE g == [f EXCEPT ![x] = e]
<1>8. /\ g \in Seq(HandleType) /\ Len(g) = Len(f) /\ g[x] = e
      /\ \A y \in 1..Len(f) : y # x => g[y] = f[y]
      /\ \A y \in 1..Len(f) : g[y].key = f[y].key
      /\ \A y : y \in Kept(g) <=> IF y = x THEN e.in_cache ELSE y \in Kept(f)
  BY <1>4, <1>5, <1>6, ChangedHandle
<1>9. st.h = g
  BY <1>6
<1> HIDE DEF g
<1>10. e.refs = n[x] /\ e.in_cache = FALSE /\ e.deleted = IF n[x] = 0 THEN 1 ELSE 0
  BY <1>1, <1>5, <1>6
<1>11. Kept(g) = Kept(h) \ {x}
  BY <1>2, <1>4, <1>8, <1>10
<1>12. RefsInv(g, n)
  <2>1. /\ g[x].refs = (IF g[x].in_cache THEN n[x] + 1 ELSE n[x])
        /\ g[x].deleted = (IF g[x].refs = 0 THEN 1 ELSE 0)
    BY <1>8, <1>10
  <2>2. \A y \in 1..Len(h) : y # x => g[y] = h[y]
    BY <1>4, <1>8
  <2>3. Len(g) = Len(h)
    BY <1>4, <1>8
  <2>4. \A y \in 1..Len(g) : g[y].refs = IF g[y].in_cache THEN n[y] + 1 ELSE n[y]
    BY <2>1, <2>2, <2>3 DEF RefsInv
  <2>5. \A y \in 1..Len(g) : g[y].deleted = IF g[y].refs = 0 THEN 1 ELSE 0
    BY <2>1, <2>2, <2>3 DEF RefsInv
  <2> QED
    BY <1>1, <1>8, <2>3, <2>4, <2>5 DEF RefsInv
<1>13. c.lru \in Seq(Nat) /\ c.in_use \in SUBSET Nat /\ c.usage \in Nat
  BY DEF CacheType
<1>14. /\ Distinct(c.lru)
       /\ \A y : y \in Elems(c.lru) <=> y \in Kept(h) /\ n[y] = 0
       /\ \A y : y \in c.in_use <=> y \in Kept(h) /\ n[y] > 0
       /\ c.usage = Cardinality(Kept(h))
  BY DEF ListsInv
<1>15. l \in Seq(Nat) /\ Distinct(l) /\ \A y : y \in Elems(l) <=> y \in Elems(c.lru) /\ y # x
  BY <1>13, <1>14, RemoveOf
<1>16. k = Cardinality(Kept(h) \ {x}) /\ k \in Nat /\ u \in SUBSET Nat
  <2>1. IsFiniteSet(Kept(h))
    BY <1>1, KeptFinite
  <2>2. IsFiniteSet(Kept(h) \ {x}) /\ Cardinality(Kept(h) \ {x}) = Cardinality(Kept(h)) - 1
    BY <2>1, FS_RemoveElement
  <2>3. Cardinality(Kept(h) \ {x}) \in Nat
    BY <2>2, FS_CardinalityType
  <2> QED
    BY <1>13, <1>14, <2>2, <2>3
<1>17. \A y : y \in u <=> y \in c.in_use /\ y # x
  OBVIOUS
<1> HIDE DEF l, u, k
<1>18. /\ d \in CacheType /\ d.lru = l /\ d.in_use = u /\ d.usage = k /\ d.capacity = c.capacity
       /\ d.elems = c.elems /\ d.buckets = c.buckets
  BY <1>15, <1>16 DEF d, CacheType
<1>19. ListsInv(d, g, n)
  BY <1>11, <1>14, <1>15, <1>16, <1>17, <1>18 DEF ListsInv
<1>20. TableInv(d, g, Kept(g))
  <2>1. Kept(g) \subseteq 1..Len(h) /\ Len(g) = Len(h) /\ \A y \in Kept(g) : g[y].key = h[y].key
    BY <1>4, <1>8 DEF Kept
  <2> QED
    BY <1>11, <1>18, <2>1, TableFrame
<1> QED
  BY <1>7, <1>9, <1>12, <1>18, <1>19, <1>20 DEF ShardInv

\* Erase: the entry with the key, if any, leaves the hash table and the cache.
LEMMA EraseKeeps ==
    ASSUME NEW s, NEW n, ShardInv(s.c, s.h, n), NEW key \in Nat
    PROVE  ShardInv(EraseKey(s, key).c, EraseKey(s, key).h, n)
<1> DEFINE c == s.c
           h == s.h
           old == FindPointer(c, h, key)
           x == CHOOSE y \in old : TRUE
           d == TableRemove(c, h, key)
<1>1. c \in CacheType /\ RefsInv(h, n) /\ TableInv(c, h, Kept(h)) /\ ListsInv(c, h, n)
  BY DEF ShardInv
<1>2. h \in Seq(HandleType)
  BY <1>1 DEF RefsInv
<1>3. EraseKey(s, key) = IF old = {} THEN s ELSE FinishErase(Shard(d, h), x)
  BY DEF EraseKey, Shard
<1>4. CASE old = {}
  BY <1>3, <1>4
<1>5. CASE old # {}
  <2>1. x \in old
    BY <1>5
  <2> HIDE DEF x, c, h
  <2>2. x \in Kept(h) /\ h[x].key = key
    BY <1>1, <1>2, <2>1, LookupFinds
  <2> HIDE DEF old
  <2>3. IsFiniteSet(Kept(h))
    BY <1>2, KeptFinite
  <2>4. /\ d \in CacheType /\ TableInv(d, h, Kept(h) \ {x})
        /\ d.lru = c.lru /\ d.in_use = c.in_use /\ d.usage = c.usage
    <3>1. d = TableRemove(c, h, h[x].key)
      BY <2>2
    <3> HIDE DEF d
    <3> QED
      BY <1>1, <1>2, <2>2, <2>3, <3>1, TableRemoveKeeps
  <2> HIDE DEF d
  <2>5. ListsInv(d, h, n)
    BY <1>1, <2>4 DEF ListsInv
  <2>6. LET st == FinishErase(Shard(d, h), x)
        IN  ShardInv(st.c, st.h, n)
    BY <1>1, <2>2, <2>4, <2>5, FinishEraseKeeps
  <2> QED
    BY <1>3, <1>5, <2>6
<1> QED
  BY <1>4, <1>5

\* Evicting the oldest entries, one after the other.
LEMMA EvictKeeps ==
    ASSUME NEW s, NEW n, ShardInv(s.c, s.h, n), NEW all
    PROVE  ShardInv(EvictOldest(s, all).c, EvictOldest(s, all).h, n)
<1> DEFINE Step(r) == IF r.c.lru # <<>> /\ (all \/ r.c.usage > r.c.capacity)
                      THEN EraseKey(r, r.h[Head(r.c.lru)].key) ELSE r
           N == Len(s.c.lru)
           IsRun(f, k) == f = [i \in 0..k |-> IF i = 0 THEN s ELSE Step(f[i - 1])]
           bad == {k \in 0..N : ~\E f : IsRun(f, k)}
           Run == CHOOSE Run : Run = [i \in 0..N |-> IF i = 0 THEN s ELSE Step(Run[i - 1])]
<1>1. EvictOldest(s, all) = Run[N]
  BY DEF EvictOldest
<1>2. N \in Nat
  BY DEF ShardInv, CacheType
<1>3. ASSUME NEW r, ShardInv(r.c, r.h, n)
      PROVE  ShardInv(Step(r).c, Step(r).h, n)
  <2>1. CASE r.c.lru # <<>> /\ (all \/ r.c.usage > r.c.capacity)
    <3>1. r.c.lru \in Seq(Nat) /\ r.h \in Seq(HandleType)
      BY <1>3 DEF ShardInv, CacheType, RefsInv
    <3>2. Head(r.c.lru) \in Elems(r.c.lru)
      <4> DEFINE q == r.c.lru
      <4>1. q \in Seq(Nat) /\ q # <<>>
        BY <2>1, <3>1
      <4> HIDE DEF q
      <4>2. Head(q) = q[1] /\ 1 \in 1..Len(q)
        BY <4>1
      <4> QED
        BY <4>2 DEF Elems, q
    <3>3. Head(r.c.lru) \in 1..Len(r.h)
      BY <1>3, <3>2 DEF ShardInv, ListsInv, Kept
    <3>4. r.h[Head(r.c.lru)].key \in Nat
      BY <3>1, <3>3, HandleFields
    <3>5. Step(r) = EraseKey(r, r.h[Head(r.c.lru)].key)
      BY <2>1
    <3> QED
      BY <1>3, <3>4, <3>5, EraseKeeps
  <2>2. CASE ~(r.c.lru # <<>> /\ (all \/ r.c.usage > r.c.capacity))
    BY <1>3, <2>2
  <2> QED
    BY <2>1, <2>2
<1> HIDE DEF Step, N
<1>4. \E f : IsRun(f, N)
  <2>1. SUFFICES ASSUME bad # {}
                 PROVE  FALSE
    BY <1>2
  <2>2. PICK k \in bad : \A j \in bad : k <= j
    <3>1. bad \in SUBSET Nat
      OBVIOUS
    <3> HIDE DEF bad
    <3> QED
      BY <2>1, <3>1, LeastElement
  <2>3. k # 0
    <3>1. IsRun([i \in 0..0 |-> s], 0)
      OBVIOUS
    <3> QED
      BY <2>2, <3>1
  <2>4. k - 1 \in 0..N /\ k - 1 \notin bad
    <3>1. k \in 0..N /\ \A j \in bad : k <= j
      BY <2>2
    <3> HIDE DEF bad
    <3> QED
      BY <1>2, <2>3, <3>1
  <2>5. PICK f : IsRun(f, k - 1)
    BY <2>4
  <2> DEFINE g == [i \in 0..k |-> IF i = k THEN Step(f[k - 1]) ELSE f[i]]
  <2>6. \A i \in 0..k : g[i] = IF i = 0 THEN s ELSE Step(g[i - 1])
    <3> SUFFICES ASSUME NEW i \in 0..k
                 PROVE  g[i] = IF i = 0 THEN s ELSE Step(g[i - 1])
      OBVIOUS
    <3>1. k \in Nat /\ k # 0
      BY <2>3
    <3>2. CASE i = k
      <4>1. i - 1 \in 0..k /\ i - 1 # k /\ i # 0
        BY <3>1, <3>2
      <4> QED
        BY <3>2, <4>1
    <3>3. CASE i # k
      <4>1. i \in 0..(k - 1)
        BY <3>1, <3>3
      <4>2. f[i] = IF i = 0 THEN s ELSE Step(f[i - 1])
        BY <2>5, <4>1
      <4>3. i # 0 => i - 1 \in 0..k /\ i - 1 # k
        BY <3>1, <4>1
      <4> QED
        BY <3>3, <4>2, <4>3
    <3> QED
      BY <3>2, <3>3
  <2>7. IsRun(g, k)
    BY <2>6
  <2> QED
    BY <2>2, <2>7
<1>5. Run = [i \in 0..N |-> IF i = 0 THEN s ELSE Step(Run[i - 1])]
  BY <1>4
<1> HIDE DEF Run
<1>6. \A i \in 0..N : Run[i] = IF i = 0 THEN s ELSE Step(Run[i - 1])
  BY <1>5
<1>7. \A i \in 0..N : ShardInv(Run[i].c, Run[i].h, n)
  <2> DEFINE wrong == {k \in 0..N : ~ShardInv(Run[k].c, Run[k].h, n)}
  <2>1. SUFFICES ASSUME wrong # {}
                 PROVE  FALSE
    OBVIOUS
  <2>2. PICK k \in wrong : \A j \in wrong : k <= j
    <3>1. wrong \in SUBSET Nat
      OBVIOUS
    <3> HIDE DEF wrong
    <3> QED
      BY <2>1, <3>1, LeastElement
  <2>3. k \in 0..N /\ ~ShardInv(Run[k].c, Run[k].h, n)
    BY <2>2
  <2>4. k # 0
    BY <1>6, <2>3
  <2>5. k - 1 \in 0..N /\ k - 1 \notin wrong
    <3> HIDE DEF wrong
    <3> QED
      BY <1>2, <2>2, <2>3, <2>4
  <2>6. ShardInv(Run[k - 1].c, Run[k - 1].h, n)
    BY <2>5
  <2>7. Run[k] = Step(Run[k - 1])
    BY <1>6, <2>3, <2>4
  <2> QED
    BY <1>3, <2>3, <2>6, <2>7
<1>8. N \in 0..N
  BY <1>2
<1> QED
  BY <1>1, <1>7, <1>8

\* Insert of an opened table: it is held once, and kept if the cache has room at all.
LEMMA InsertKeeps ==
    ASSUME NEW c, NEW h, NEW n, ShardInv(c, h, n), NEW key \in Nat, NEW m,
           m \in [1..(Len(h) + 1) -> Nat], m[Len(h) + 1] = 1, \A y \in 1..Len(h) : m[y] = n[y]
    PROVE  LET st == InsertEntry(Shard(c, h), key)
           IN  ShardInv(st.c, st.h, m)
<1> DEFINE new == Len(h) + 1
           cache == c.capacity > 0
           e == [key |-> key, refs |-> IF cache THEN 2 ELSE 1, in_cache |-> cache, deleted |-> 0]
           g == Append(h, e)
           old == FindPointer(c, h, key)
           u == c.in_use \cup {new}
           k == c.usage + 1
           d == [c EXCEPT !.in_use = u, !.usage = k]
           t == TableInsert(d, g, new)
           x == CHOOSE y \in old : TRUE
           once == IF ~cache THEN Shard(c, g)
                   ELSE IF old = {} THEN Shard(t, g) ELSE FinishErase(Shard(t, g), x)
<1>1. InsertEntry(Shard(c, h), key) = EvictOldest(once, FALSE)
  BY DEF InsertEntry, Shard
<1>2. SUFFICES ShardInv(once.c, once.h, m)
  <2> HIDE DEF once
  <2>1. ShardInv(EvictOldest(once, FALSE).c, EvictOldest(once, FALSE).h, m)
    BY <1>2, EvictKeeps
  <2> QED
    BY <1>1, <2>1
<1>3. c \in CacheType /\ RefsInv(h, n) /\ TableInv(c, h, Kept(h)) /\ ListsInv(c, h, n)
  BY DEF ShardInv
<1>4. h \in Seq(HandleType) /\ n \in [1..Len(h) -> Nat] /\ Len(h) \in Nat /\ new \in Nat
  BY <1>3, HandleFields DEF RefsInv
<1>5. c.capacity \in Nat /\ c.lru \in Seq(Nat) /\ c.in_use \in SUBSET Nat /\ c.usage \in Nat
  BY <1>3 DEF CacheType
<1>6. e \in HandleType /\ e.key = key /\ e.deleted = 0
  BY <1>5 DEF HandleType
<1>7. (cache => e.refs = 2 /\ e.in_cache = TRUE) /\ (~cache => e.refs = 1 /\ e.in_cache = FALSE)
  <2>1. cache \in BOOLEAN
    OBVIOUS
  <2> HIDE DEF cache
  <2>2. e.refs = (IF cache THEN 2 ELSE 1) /\ e.in_cache = cache
    OBVIOUS
  <2> HIDE DEF e
  <2> QED
    BY <2>1, <2>2
<1> HIDE DEF e
<1>8. /\ g \in Seq(HandleType) /\ Len(g) = new /\ g[new] = e
      /\ \A y \in 1..Len(h) : g[y] = h[y]
      /\ \A y : y \in 1..new <=> y \in 1..Len(h) \/ y = new
      /\ new \notin 1..Len(h)
  BY <1>4, <1>6, AppendHandle
<1> HIDE DEF g
<1>9. Kept(g) = IF cache THEN Kept(h) \cup {new} ELSE Kept(h)
  <2>1. \A y : y \in Kept(g) <=> y \in Kept(h) \/ (y = new /\ e.in_cache)
    <3> HIDE DEF new
    <3> QED
      BY <1>8 DEF Kept
  <2> HIDE DEF new, cache
  <2>2. CASE cache
    BY <1>7, <2>1, <2>2
  <2>3. CASE ~cache
    BY <1>7, <2>1, <2>3
  <2> QED
    BY <2>2, <2>3
<1>10. RefsInv(g, m)
  <2>1. m \in [1..Len(g) -> Nat]
    BY <1>8
  <2>2. /\ g[new].refs = IF g[new].in_cache THEN m[new] + 1 ELSE m[new]
        /\ g[new].deleted = IF g[new].refs = 0 THEN 1 ELSE 0
    BY <1>6, <1>7, <1>8
  <2> HIDE DEF new
  <2>3. \A y \in 1..Len(g) : g[y].refs = IF g[y].in_cache THEN m[y] + 1 ELSE m[y]
    BY <1>3, <1>8, <2>2 DEF RefsInv
  <2>4. \A y \in 1..Len(g) : g[y].deleted = IF g[y].refs = 0 THEN 1 ELSE 0
    <3>1. \A y \in 1..Len(h) : g[y].deleted = IF g[y].refs = 0 THEN 1 ELSE 0
      BY <1>3, <1>8 DEF RefsInv
    <3> QED
      BY <1>8, <2>2, <3>1
  <2> QED
    BY <1>8, <2>1, <2>3, <2>4 DEF RefsInv
<1>11. Kept(h) \subseteq 1..Len(h) /\ new \notin Kept(h) /\ IsFiniteSet(Kept(h))
  BY <1>4, <1>8, KeptFinite DEF Kept
<1>12. /\ Distinct(c.lru)
       /\ \A y : y \in Elems(c.lru) <=> y \in Kept(h) /\ n[y] = 0
       /\ \A y : y \in c.in_use <=> y \in Kept(h) /\ n[y] > 0
       /\ c.usage = Cardinality(Kept(h))
  BY <1>3 DEF ListsInv
<1>13. \A y \in Kept(h) : m[y] = n[y] /\ g[y].key = h[y].key /\ y \in 1..Len(g)
  BY <1>8, <1>11
<1>14. CASE ~cache
  <2>1. once.c = c /\ once.h = g
    BY <1>14 DEF Shard
  <2>2. Kept(g) = Kept(h)
    BY <1>9, <1>14
  <2> HIDE DEF once
  <2>3. ListsInv(c, g, m)
    BY <1>12, <1>13, <2>2 DEF ListsInv
  <2>4. TableInv(c, g, Kept(g))
    BY <1>3, <1>13, <2>2, TableFrame
  <2> QED
    BY <1>3, <1>10, <2>1, <2>3, <2>4 DEF ShardInv
<1>15. CASE cache
  <2>1. Kept(g) = Kept(h) \cup {new}
    BY <1>9, <1>15
  <2>2. k = Cardinality(Kept(h) \cup {new}) /\ k \in Nat /\ u \in SUBSET Nat
    <3>1. Cardinality(Kept(h) \cup {new}) = Cardinality(Kept(h)) + 1
      BY <1>11, FS_AddElement
    <3> QED
      BY <1>4, <1>5, <1>12, <3>1
  <2>3. \A y : y \in u <=> y \in c.in_use \/ y = new
    OBVIOUS
  <2>4. /\ d \in CacheType /\ d.in_use = u /\ d.usage = k /\ d.lru = c.lru /\ d.elems = c.elems
        /\ d.buckets = c.buckets
    <3> HIDE DEF u, k
    <3> QED
      BY <1>3, <2>2 DEF CacheType
  <2> HIDE DEF d, u, k
  <2>5. TableInv(d, g, Kept(h))
    BY <1>3, <1>13, <2>4, TableFrame
  <2>6. FindPointer(d, g, g[new].key) = old
    <3>1. \A y : y \in FindPointer(d, g, key) <=> y \in Kept(h) /\ g[y].key = key
      BY <1>8, <2>4, <2>5, LookupFinds
    <3>2. \A y : y \in old <=> y \in Kept(h) /\ h[y].key = key
      BY <1>3, <1>4, LookupFinds
    <3>3. g[new].key = key
      BY <1>6, <1>8
    <3> HIDE DEF old
    <3> QED
      BY <1>13, <3>1, <3>2, <3>3
  <2>7. new \in 1..Len(g)
    BY <1>8
  <2>8. /\ t \in CacheType /\ TableInv(t, g, (Kept(h) \ old) \cup {new})
        /\ t.lru = d.lru /\ t.in_use = d.in_use /\ t.usage = d.usage
    <3> DEFINE found == FindPointer(d, g, g[new].key)
    <3> HIDE DEF new, old
    <3>0. g \in Seq(HandleType) /\ IsFiniteSet(Kept(h)) /\ new \notin Kept(h) /\ d \in CacheType
      BY <1>8, <1>11, <2>4
    <3>1. /\ t \in CacheType /\ TableInv(t, g, (Kept(h) \ found) \cup {new})
          /\ t.lru = d.lru /\ t.in_use = d.in_use /\ t.usage = d.usage
      BY <2>5, <2>7, <3>0, TableInsertKeeps
    <3> QED
      BY <2>6, <3>1
  <2> HIDE DEF t
  <2>9. ListsInv(t, g, m)
    <3>1. \A y : y \in Elems(t.lru) <=> y \in Kept(g) /\ m[y] = 0
      <4>1. m[new] # 0
        OBVIOUS
      <4> HIDE DEF new
      <4> QED
        BY <1>12, <1>13, <2>1, <2>4, <2>8, <4>1
    <3>2. \A y : y \in t.in_use <=> y \in Kept(g) /\ m[y] > 0
      <4>1. m[new] > 0
        OBVIOUS
      <4> HIDE DEF new
      <4> QED
        BY <1>12, <1>13, <2>1, <2>3, <2>4, <2>8, <4>1
    <3>3. Distinct(t.lru) /\ t.usage = Cardinality(Kept(g))
      BY <1>12, <2>1, <2>2, <2>4, <2>8
    <3> QED
      BY <3>1, <3>2, <3>3 DEF ListsInv
  <2>10. CASE old = {}
    <3>1. once.c = t /\ once.h = g
      BY <1>15, <2>10 DEF Shard
    <3>2. TableInv(t, g, Kept(g))
      <4>1. (Kept(h) \ old) \cup {new} = Kept(g)
        BY <2>1, <2>10
      <4> QED
        BY <2>8, <4>1
    <3> HIDE DEF once
    <3> QED
      BY <1>10, <2>8, <2>9, <3>1, <3>2 DEF ShardInv
  <2>11. CASE old # {}
    <3>1. x \in old
      BY <2>11
    <3>2. \A y : y \in old <=> y \in Kept(h) /\ h[y].key = key
      BY <1>3, <1>4, LookupFinds
    <3>3. old = {x}
      <4>1. \A y, z \in Kept(h) : h[y].key = h[z].key => y = z
        BY <1>3 DEF TableInv
      <4> HIDE DEF x, old
      <4> QED
        BY <3>1, <3>2, <4>1
    <3>4. once = FinishErase(Shard(t, g), x)
      BY <1>15, <2>11
    <3> HIDE DEF x, old, once
    <3>5. x \in Kept(g) /\ (Kept(h) \ old) \cup {new} = Kept(g) \ {x}
      <4>1. x \in Kept(h) /\ x # new
        BY <1>11, <3>1, <3>2
      <4> QED
        BY <2>1, <3>3, <4>1
    <3>6. TableInv(t, g, Kept(g) \ {x})
      BY <2>8, <3>5
    <3>7. LET st == FinishErase(Shard(t, g), x)
          IN  ShardInv(st.c, st.h, m)
      BY <1>10, <2>8, <2>9, <3>5, <3>6, FinishEraseKeeps
    <3> QED
      BY <3>4, <3>7
  <2> QED
    BY <2>10, <2>11
<1> QED
  BY <1>14, <1>15

-----------------------------------------------------------------------------
(* The readers *)

\* The readers that hold the handle x, and how many hold each.
Holders(a, x) == {r \in Readers : x \in a[r]}
Holding == [x \in Handles |-> Cardinality(Holders(held, x))]

\* What the readers hold accounts for every reference.
CacheInv ==
    /\ held \in [Readers -> SUBSET Handles] /\ finding \in [Readers -> SUBSET Files]
    /\ ShardInv(lru, handle, Holding)

\* The holders of a handle are finitely many.
LEMMA HoldersFinite == \A a, x : IsFiniteSet(Holders(a, x)) /\ Cardinality(Holders(a, x)) \in Nat
<1> SUFFICES ASSUME NEW a, NEW x
             PROVE  IsFiniteSet(Holders(a, x)) /\ Cardinality(Holders(a, x)) \in Nat
  OBVIOUS
<1>1. IsFiniteSet(Readers) /\ Holders(a, x) \subseteq Readers
  BY CacheConstants DEF Holders
<1>2. IsFiniteSet(Holders(a, x))
  BY <1>1, FS_Subset
<1> QED
  BY <1>2, FS_CardinalityType

\* From a to b the holders of x, and of nothing else, become k more.
HoldersMove(a, b, x, k) ==
    /\ Cardinality(Holders(b, x)) = Cardinality(Holders(a, x)) + k
    /\ \A y : y # x => Cardinality(Holders(b, y)) = Cardinality(Holders(a, y))

\* The reader r gets the handle x, which it does not hold.
LEMMA OneMoreHolder ==
    ASSUME NEW a, NEW b, NEW r \in Readers, NEW x, x \notin a[r], b[r] = a[r] \cup {x},
           \A q \in Readers : q # r => b[q] = a[q]
    PROVE  HoldersMove(a, b, x, 1)
<1>1. Holders(b, x) = Holders(a, x) \cup {r} /\ r \notin Holders(a, x)
  BY DEF Holders
<1>2. \A y : y # x => Holders(b, y) = Holders(a, y)
  BY DEF Holders
<1>3. IsFiniteSet(Holders(a, x))
  BY HoldersFinite
<1>4. Cardinality(Holders(a, x) \cup {r}) = Cardinality(Holders(a, x)) + 1
  BY <1>1, <1>3, FS_AddElement
<1> QED
  BY <1>1, <1>2, <1>4 DEF HoldersMove

\* The reader r gives the handle x back.
LEMMA OneHolderLess ==
    ASSUME NEW a, NEW b, NEW r \in Readers, NEW x, x \in a[r], b[r] = a[r] \ {x},
           \A q \in Readers : q # r => b[q] = a[q]
    PROVE  HoldersMove(a, b, x, -1) /\ Cardinality(Holders(a, x)) > 0
<1>1. Holders(b, x) = Holders(a, x) \ {r} /\ r \in Holders(a, x)
  BY DEF Holders
<1>2. \A y : y # x => Holders(b, y) = Holders(a, y)
  BY DEF Holders
<1>3. IsFiniteSet(Holders(a, x)) /\ Cardinality(Holders(a, x)) \in Nat
  BY HoldersFinite
<1>4. Cardinality(Holders(a, x) \ {r}) = Cardinality(Holders(a, x)) - 1
  BY <1>1, <1>3, FS_RemoveElement
<1>5. Cardinality(Holders(b, x)) = Cardinality(Holders(a, x)) + (-1)
  BY <1>1, <1>3, <1>4
<1>6. Cardinality(Holders(a, x)) > 0
  <2>1. Cardinality(Holders(b, x)) \in Nat
    BY HoldersFinite
  <2> QED
    BY <1>3, <1>5, <2>1
<1> QED
  BY <1>2, <1>5, <1>6 DEF HoldersMove

\* The shard keeps its invariant, and the handles are those that n counts.
LEMMA BecomeKeeps ==
    ASSUME NEW st, Become(st), NEW m, ShardInv(st.c, st.h, m),
           \A x \in DOMAIN m : m[x] = Cardinality(Holders(held', x))
    PROVE  ShardInv(lru', handle', Holding') /\ Handles' = DOMAIN m
<1>1. lru' = st.c /\ handle' = st.h
  BY DEF Become
<1>2. DOMAIN m = 1..Len(st.h) /\ m = [x \in DOMAIN m |-> m[x]]
  BY DEF ShardInv, RefsInv
<1>3. Handles' = DOMAIN m
  BY <1>1, <1>2 DEF Handles
<1>4. Holding' = m
  <2>1. Holding' = [x \in DOMAIN m |-> Cardinality(Holders(held', x))]
    BY <1>3 DEF Holding
  <2> QED
    BY <1>2, <2>1
<1> QED
  BY <1>1, <1>3, <1>4

\* FindTable finds the table.
LEMMA FindTableHitKeeps ==
    ASSUME CacheInv, NEW r \in Readers, NEW f \in Files, FindTableHit(r, f)
    PROVE  CacheInv'
<1>1. /\ held \in [Readers -> SUBSET Handles] /\ finding \in [Readers -> SUBSET Files]
      /\ ShardInv(lru, handle, Holding)
  BY DEF CacheInv
<1> DEFINE found == FindPointer(lru, handle, f)
           x == CHOOSE y \in found : TRUE
           st == Ref(Shard(lru, handle), x)
<1>2. /\ found # {} /\ Become(st) /\ \A y \in found : y \notin held[r]
      /\ held' = [held EXCEPT ![r] = held[r] \cup found] /\ finding' = finding
  BY DEF FindTableHit, Cache, Shard
<1>3. /\ lru \in CacheType /\ handle \in Seq(HandleType) /\ TableInv(lru, handle, Kept(handle))
      /\ Holding \in [1..Len(handle) -> Nat]
  BY <1>1 DEF ShardInv, RefsInv
<1>4. f \in Nat
  BY CacheConstants
<1>5. x \in found
  BY <1>2
<1>6. \A y : y \in found <=> y \in Kept(handle) /\ handle[y].key = f
  BY <1>3, <1>4, LookupFinds
<1> HIDE DEF st, x, found
<1>7. found = {x} /\ x \in Kept(handle) /\ x \notin held[r]
  <2>1. \A y, z \in Kept(handle) : handle[y].key = handle[z].key => y = z
    BY <1>3 DEF TableInv
  <2> QED
    BY <1>2, <1>5, <1>6, <2>1
<1>8. x \in 1..Len(handle) /\ Handles = 1..Len(handle)
  BY <1>7 DEF Kept, Handles
<1>9. held' = [held EXCEPT ![r] = held[r] \cup {x}]
  BY <1>2, <1>7
<1>10. /\ Cardinality(Holders(held', x)) = Cardinality(Holders(held, x)) + 1
       /\ \A y : y # x => Cardinality(Holders(held', y)) = Cardinality(Holders(held, y))
       /\ held' \in [Readers -> SUBSET Handles]
  <2>1. held'[r] = held[r] \cup {x} /\ \A q \in Readers : q # r => held'[q] = held[q]
    BY <1>1, <1>9
  <2>2. HoldersMove(held, held', x, 1)
    BY <1>7, <2>1, OneMoreHolder
  <2>3. held' \in [Readers -> SUBSET Handles]
    BY <1>1, <1>8, <1>9
  <2> QED
    BY <2>2, <2>3 DEF HoldersMove
<1> DEFINE m == [y \in 1..Len(handle) |-> Cardinality(Holders(held', y))]
<1>11. \A y \in 1..Len(handle) : Holding[y] = Cardinality(Holders(held, y))
  BY <1>8 DEF Holding
<1>12. /\ m \in [1..Len(handle) -> Nat] /\ m[x] = Holding[x] + 1
       /\ \A y \in 1..Len(handle) : y # x => m[y] = Holding[y]
  BY <1>8, <1>10, <1>11, HoldersFinite
<1>13. DOMAIN m = 1..Len(handle) /\ \A y \in DOMAIN m : m[y] = Cardinality(Holders(held', y))
  OBVIOUS
<1> HIDE DEF m
<1>14. ShardInv(st.c, st.h, m)
  BY <1>1, <1>7, <1>12, RefKeeps DEF st
<1>15. ShardInv(lru', handle', Holding') /\ Handles' = Handles
  BY <1>2, <1>8, <1>13, <1>14, BecomeKeeps
<1> QED
  BY <1>1, <1>2, <1>10, <1>15 DEF CacheInv

\* A reader is done with a table.
LEMMA ReleaseTableKeeps ==
    ASSUME CacheInv, NEW r \in Readers, NEW x \in Handles, ReleaseTable(r, x)
    PROVE  CacheInv'
<1>1. /\ held \in [Readers -> SUBSET Handles] /\ finding \in [Readers -> SUBSET Files]
      /\ ShardInv(lru, handle, Holding)
  BY DEF CacheInv
<1> DEFINE st == Unref(Shard(lru, handle), x)
<1>2. /\ x \in held[r] /\ Become(st) /\ held' = [held EXCEPT ![r] = held[r] \ {x}] /\ finding' = finding
  BY DEF ReleaseTable, Cache, Shard
<1> HIDE DEF st
<1>3. x \in 1..Len(handle) /\ Handles = 1..Len(handle)
  BY DEF Handles
<1>4. /\ Cardinality(Holders(held', x)) = Cardinality(Holders(held, x)) - 1
      /\ Cardinality(Holders(held, x)) > 0
      /\ \A y : y # x => Cardinality(Holders(held', y)) = Cardinality(Holders(held, y))
      /\ held' \in [Readers -> SUBSET Handles]
  <2>1. held'[r] = held[r] \ {x} /\ \A q \in Readers : q # r => held'[q] = held[q]
    BY <1>1, <1>2
  <2>2. HoldersMove(held, held', x, -1) /\ Cardinality(Holders(held, x)) > 0
    BY <1>2, <2>1, OneHolderLess
  <2>3. held' \in [Readers -> SUBSET Handles]
    BY <1>1, <1>2
  <2>4. Cardinality(Holders(held, x)) \in Nat
    BY HoldersFinite
  <2> QED
    BY <2>2, <2>3, <2>4 DEF HoldersMove
<1> DEFINE m == [y \in 1..Len(handle) |-> Cardinality(Holders(held', y))]
<1>5. \A y \in 1..Len(handle) : Holding[y] = Cardinality(Holders(held, y))
  BY <1>3 DEF Holding
<1>6. /\ m \in [1..Len(handle) -> Nat] /\ m[x] = Holding[x] - 1 /\ Holding[x] > 0
      /\ \A y \in 1..Len(handle) : y # x => m[y] = Holding[y]
  BY <1>3, <1>4, <1>5, HoldersFinite
<1>7. DOMAIN m = 1..Len(handle) /\ \A y \in DOMAIN m : m[y] = Cardinality(Holders(held', y))
  OBVIOUS
<1> HIDE DEF m
<1>8. ShardInv(st.c, st.h, m)
  BY <1>1, <1>3, <1>6, UnrefKeeps DEF st
<1>9. ShardInv(lru', handle', Holding') /\ Handles' = Handles
  BY <1>2, <1>3, <1>7, <1>8, BecomeKeeps
<1> QED
  BY <1>1, <1>2, <1>4, <1>9 DEF CacheInv

\* FindTable inserts the table it opened.
LEMMA InsertTableKeeps ==
    ASSUME CacheInv, NEW r \in Readers, InsertTable(r)
    PROVE  CacheInv'
<1>1. /\ held \in [Readers -> SUBSET Handles] /\ finding \in [Readers -> SUBSET Files]
      /\ ShardInv(lru, handle, Holding)
  BY DEF CacheInv
<1> DEFINE new == Len(handle) + 1
<1>2. PICK f \in finding[r] : Become(InsertEntry(Shard(lru, handle), f))
  BY DEF InsertTable, Cache, Shard
<1>3. held' = [held EXCEPT ![r] = held[r] \cup {new}] /\ finding' = [finding EXCEPT ![r] = {}]
  BY DEF InsertTable
<1>4. f \in Nat
  BY <1>1, CacheConstants
<1>5. Handles = 1..Len(handle) /\ Len(handle) \in Nat
  BY <1>1, HandleFields DEF Handles, ShardInv, RefsInv
<1>6. /\ \A y : y \in 1..new <=> y \in 1..Len(handle) \/ y = new
      /\ new \notin 1..Len(handle) /\ new \in 1..new
  BY <1>5
<1>7. finding' \in [Readers -> SUBSET Files]
  BY <1>1, <1>3
<1> HIDE DEF new
<1>8. \A q \in Readers : new \notin held[q]
  BY <1>1, <1>5, <1>6
<1>9. Holders(held, new) = {} /\ Cardinality(Holders(held, new)) = 0
  <2>1. Holders(held, new) = {}
    BY <1>8 DEF Holders
  <2> QED
    BY <2>1, FS_EmptySet
<1>10. Handles \subseteq 1..new
  BY <1>5, <1>6
<1>11. /\ Cardinality(Holders(held', new)) = 1
       /\ \A y : y # new => Cardinality(Holders(held', y)) = Cardinality(Holders(held, y))
       /\ held' \in [Readers -> SUBSET (1..new)]
  <2>1. held'[r] = held[r] \cup {new} /\ \A q \in Readers : q # r => held'[q] = held[q]
    BY <1>1, <1>3
  <2>2. HoldersMove(held, held', new, 1)
    BY <1>8, <2>1, OneMoreHolder
  <2>3. held' \in [Readers -> SUBSET (1..new)]
    BY <1>1, <1>3, <1>6, <1>10
  <2> QED
    BY <1>9, <2>2, <2>3 DEF HoldersMove
<1> DEFINE m == [y \in 1..new |-> Cardinality(Holders(held', y))]
<1>12. \A y \in 1..Len(handle) : Holding[y] = Cardinality(Holders(held, y))
  BY <1>5 DEF Holding
<1>13. /\ m \in [1..new -> Nat] /\ m[new] = 1
       /\ \A y \in 1..Len(handle) : m[y] = Holding[y]
  BY <1>6, <1>11, <1>12, HoldersFinite
<1>14. DOMAIN m = 1..new /\ \A y \in DOMAIN m : m[y] = Cardinality(Holders(held', y))
  OBVIOUS
<1> HIDE DEF m
<1>15. LET st == InsertEntry(Shard(lru, handle), f)
       IN  ShardInv(st.c, st.h, m)
  BY <1>1, <1>4, <1>13, InsertKeeps DEF new
<1>16. ShardInv(lru', handle', Holding') /\ Handles' = 1..new
  BY <1>2, <1>14, <1>15, BecomeKeeps
<1> QED
  BY <1>7, <1>11, <1>16 DEF CacheInv

\* An operation of the shard that no reader's handles depend on.
LEMMA ShardStepKeeps ==
    ASSUME CacheInv, NEW st, ShardInv(st.c, st.h, Holding), Become(st), UNCHANGED <<held, finding>>
    PROVE  CacheInv'
<1>1. DOMAIN Holding = Handles /\ \A x \in DOMAIN Holding : Holding[x] = Cardinality(Holders(held', x))
  BY DEF Holding
<1>2. ShardInv(lru', handle', Holding') /\ Handles' = Handles
  BY <1>1, BecomeKeeps
<1> QED
  BY <1>2 DEF CacheInv

\* The invariant is inductive.
LEMMA CacheStepInv == CacheInv /\ [CacheNext]_cache_vars => CacheInv'
<1> SUFFICES ASSUME CacheInv, [CacheNext]_cache_vars
             PROVE  CacheInv'
  OBVIOUS
<1>1. ASSUME UNCHANGED <<lru, handle, held>>, finding' \in [Readers -> SUBSET Files]
      PROVE  CacheInv'
  <2>1. Holding' = Holding /\ Handles' = Handles
    BY <1>1 DEF Holding, Handles, Holders
  <2> QED
    BY <1>1, <2>1 DEF CacheInv
<1>2. finding \in [Readers -> SUBSET Files]
  BY DEF CacheInv
<1>3. ASSUME NEW r \in Readers, NEW f \in Files, FindTableMiss(r, f)
      PROVE  CacheInv'
  BY <1>1, <1>2, <1>3 DEF FindTableMiss
<1>4. ASSUME NEW r \in Readers, OpenFails(r)
      PROVE  CacheInv'
  BY <1>1, <1>2, <1>4 DEF OpenFails
<1>5. ASSUME NEW f \in Files, Evict(f)
      PROVE  CacheInv'
  <2>1. f \in Nat
    BY CacheConstants
  <2>2. Become(EraseKey(Shard(lru, handle), f)) /\ UNCHANGED <<held, finding>>
    BY <1>5 DEF Evict, Cache, Shard
  <2>3. ShardInv(Shard(lru, handle).c, Shard(lru, handle).h, Holding)
    BY DEF CacheInv, Shard
  <2> QED
    BY <2>1, <2>2, <2>3, EraseKeeps, ShardStepKeeps
<1>6. ASSUME Prune
      PROVE  CacheInv'
  <2>1. Become(EvictOldest(Shard(lru, handle), TRUE)) /\ UNCHANGED <<held, finding>>
    BY <1>6 DEF Prune, Cache, Shard
  <2>2. ShardInv(Shard(lru, handle).c, Shard(lru, handle).h, Holding)
    BY DEF CacheInv, Shard
  <2> QED
    BY <2>1, <2>2, EvictKeeps, ShardStepKeeps
<1>7. CASE UNCHANGED cache_vars
  BY <1>1, <1>2, <1>7 DEF cache_vars
<1>8. CASE CacheNext
  BY <1>3, <1>4, <1>5, <1>6, <1>8, FindTableHitKeeps, ReleaseTableKeeps, InsertTableKeeps DEF CacheNext
<1> QED
  BY <1>7, <1>8

\* An empty cache satisfies the invariant.
LEMMA CacheInitInv == CacheInit => CacheInv
<1> SUFFICES ASSUME CacheInit
             PROVE  CacheInv
  OBVIOUS
<1>1. PICK cap \in Capacities :
         lru = [capacity |-> cap, usage |-> 0, lru |-> <<>>, in_use |-> {}, elems |-> 0,
                buckets |-> [i \in 0..(FirstLength - 1) |-> {}]]
  BY DEF CacheInit
<1>2. handle = <<>> /\ held = [r \in Readers |-> {}] /\ finding = [r \in Readers |-> {}]
  BY DEF CacheInit
<1>3. Handles = {} /\ Len(handle) = 0 /\ 1..Len(handle) = {} /\ Kept(handle) = {}
  BY <1>2 DEF Handles, Kept
<1> DEFINE nb == [i \in 0..(FirstLength - 1) |-> {}]
<1>4. nb \in HashTables /\ \A b \in DOMAIN nb : nb[b] = {}
  <2>1. nb \in [0..(FirstLength - 1) -> SUBSET Nat] /\ FirstLength \in Nat \ {0}
    BY CacheConstants
  <2> QED
    BY <2>1 DEF HashTables
<1>5. cap \in Nat /\ <<>> \in Seq(Nat)
  BY CacheConstants
<1>6. lru = [capacity |-> cap, usage |-> 0, lru |-> <<>>, in_use |-> {}, elems |-> 0, buckets |-> nb]
  BY <1>1
<1> HIDE DEF nb
<1>7. /\ lru \in CacheType /\ lru.lru = <<>> /\ lru.in_use = {} /\ lru.elems = 0 /\ lru.usage = 0
      /\ lru.buckets = nb
  BY <1>4, <1>5, <1>6 DEF CacheType
<1>8. Cardinality({}) = 0
  BY FS_EmptySet
<1>9. TableInv(lru, handle, Kept(handle))
  BY <1>3, <1>4, <1>7, <1>8 DEF TableInv
<1>10. ListsInv(lru, handle, Holding)
  <2>1. Distinct(<<>>) /\ Elems(<<>>) = {}
    BY DEF Distinct, Elems
  <2> QED
    BY <1>3, <1>7, <1>8, <2>1 DEF ListsInv
<1>11. RefsInv(handle, Holding)
  <2>1. handle \in Seq(HandleType)
    BY <1>2
  <2>2. Holding \in [1..Len(handle) -> Nat]
    BY <1>3 DEF Holding
  <2> QED
    BY <1>3, <2>1, <2>2 DEF RefsInv
<1> QED
  BY <1>2, <1>7, <1>9, <1>10, <1>11 DEF CacheInv, ShardInv

\* The invariant gives what the cache promises.
LEMMA CacheInvSound == CacheInv => CacheSound
<1> SUFFICES ASSUME CacheInv
             PROVE  CacheSound
  OBVIOUS
<1> DEFINE kept == {x \in Handles : handle[x].in_cache}
           holders(x) == Cardinality({r \in Readers : x \in held[r]})
<1>1. /\ lru \in CacheType /\ RefsInv(handle, Holding)
      /\ TableInv(lru, handle, kept) /\ ListsInv(lru, handle, Holding)
  BY DEF CacheInv, ShardInv, Kept, Handles
<1>2. Kept(handle) = kept /\ Handles = 1..Len(handle) /\ handle \in Seq(HandleType)
  BY <1>1 DEF Kept, Handles, RefsInv
<1>3. \A x \in Handles : Holding[x] = holders(x) /\ holders(x) \in Nat
  BY HoldersFinite DEF Holding, Holders
<1>4. \A x \in Handles : x \in kept <=> handle[x].in_cache
  OBVIOUS
<1>5. kept \subseteq Handles
  OBVIOUS
<1> HIDE DEF kept, holders
<1>6. \A x \in Handles : /\ handle[x].refs = holders(x) + (IF x \in kept THEN 1 ELSE 0)
                         /\ handle[x].deleted = (IF handle[x].refs = 0 THEN 1 ELSE 0)
  BY <1>1, <1>2, <1>3, <1>4 DEF RefsInv
<1>7. \A x \in kept : FindPointer(lru, handle, handle[x].key) = {x}
  <2> SUFFICES ASSUME NEW x \in kept
               PROVE  FindPointer(lru, handle, handle[x].key) = {x}
    OBVIOUS
  <2>1. handle[x].key \in Nat
    BY <1>2, <1>5, HandleFields
  <2>2. \A y : y \in FindPointer(lru, handle, handle[x].key) <=> y \in kept /\ handle[y].key = handle[x].key
    BY <1>1, <1>2, <2>1, LookupFinds
  <2>3. \A y \in kept : handle[y].key = handle[x].key => y = x
    BY <1>1 DEF TableInv
  <2> QED
    BY <2>2, <2>3
<1>8. UNION {lru.buckets[b] : b \in DOMAIN lru.buckets} = kept
  <2>1. \A x \in kept : handle[x].key \in Nat
    BY <1>2, <1>5, HandleFields
  <2>2. \A x \in kept : \E b \in DOMAIN lru.buckets : x \in lru.buckets[b]
    BY <1>1, <2>1, BucketOf DEF TableInv
  <2>3. \A b \in DOMAIN lru.buckets : lru.buckets[b] \subseteq kept
    BY <1>1 DEF TableInv
  <2> QED
    BY <2>2, <2>3
<1>9. lru.lru \in Seq(Nat)
  BY <1>1 DEF CacheType
<1>10. ToSet(lru.lru) = Elems(lru.lru)
  BY <1>9 DEF ToSet, Elems
<1>11. \A x : x \in Elems(lru.lru) <=> x \in kept /\ holders(x) = 0
  BY <1>1, <1>2, <1>3, <1>5 DEF ListsInv
<1>12. \A x : x \in lru.in_use <=> x \in kept /\ holders(x) > 0
  BY <1>1, <1>2, <1>3, <1>5 DEF ListsInv
<1>13. ToSet(lru.lru) = {x \in kept : holders(x) = 0} /\ lru.in_use = {x \in kept : holders(x) > 0}
  BY <1>10, <1>11, <1>12
<1>14. lru.usage = Cardinality(kept) /\ lru.elems = lru.usage
  BY <1>1, <1>2 DEF ListsInv, TableInv
<1> QED
  BY <1>6, <1>7, <1>8, <1>13, <1>14 DEF CacheSound, kept, holders

\* For any number of readers, files, capacities and handles, however the readers'
\* lookups, openings, insertions and releases and the evictions interleave,
\* CacheSound holds: a held table stays open, one that nobody needs is closed
\* exactly once, and the hash table, the lists and the charge agree.
THEOREM CacheIsSound == CacheSpec => []CacheSound
<1>1. CacheInit => CacheInv
  BY CacheInitInv
<1>2. CacheInv /\ [CacheNext]_cache_vars => CacheInv'
  BY CacheStepInv
<1>3. CacheInv => CacheSound
  BY CacheInvSound
<1> QED
  BY <1>1, <1>2, <1>3, PTL DEF CacheSpec
=============================================================================
