------------------------------ MODULE MemTable ------------------------------
(***************************************************************************)
(* The memtable (db/memtable.cc) and its skip list (db/skiplist.h).  One   *)
(* writer inserts while a reader walks the list without a lock: every      *)
(* store of a link and every load of one is a step.  max_height_ is loaded *)
(* relaxed, so the reader may see any value it ever had.                   *)
(*                                                                         *)
(* An entry (user key, sequence number) is a number that orders entries as *)
(* internal keys are ordered.                                              *)
(***************************************************************************)
EXTENDS Integers, Sequences, FiniteSets, FiniteSetsExt

CONSTANTS
    MemUserKeys,    \* user keys written and read
    kMaxHeight,     \* 12 in the code
    MaxMemEntries,  \* bound: entries inserted
    MaxMemReads     \* bound: operations of the reader

ASSUME MemTableConstants ==
    /\ MemUserKeys \subseteq Nat \ {0} /\ kMaxHeight \in Nat \ {0}
    /\ MaxMemEntries \in Nat /\ MaxMemReads \in Nat

VARIABLES
    sl,      \* links of the nodes and the heights stored in max_height_
    wr,      \* the writer
    rdr,     \* the reader and its iterator
    mem_seq  \* LastSequence(), published when an insertion is over

mem_vars == <<sl, wr, rdr, mem_seq>>

Span == MaxMemEntries + 1
EntryOf(k, s)  == k * Span + (Span - 1 - s)
UserKeyOf(e)   == e \div Span
SequenceOf(e)  == Span - 1 - (e % Span)
EntryNumbers   == {EntryOf(k, s) : k \in MemUserKeys, s \in 1..MaxMemEntries}

HeadNode == 0      \* head_
Nil      == -1     \* nullptr
Unset    == -2     \* a link that no store has initialised
SkipLevels == 0..(kMaxHeight - 1)

Inserted == {e \in EntryNumbers : sl.linked[e]}

MemInit ==
    /\ sl = [next |-> [n \in EntryNumbers \cup {HeadNode} |->
                         [l \in SkipLevels |-> IF n = HeadNode THEN Nil ELSE Unset]],
             heights |-> <<1>>, linked |-> [e \in EntryNumbers |-> FALSE]]
    /\ wr = [pc |-> "idle", key |-> 0, height |-> 0, prev |-> [l \in SkipLevels |-> HeadNode],
             level |-> 0]
    /\ rdr = [pc |-> "idle", op |-> "none", target |-> 0, x |-> HeadNode, level |-> 0,
              node |-> Nil, before |-> {}, seq |-> 0, n |-> 0]
    /\ mem_seq = 0

MaxHeight == sl.heights[Len(sl.heights)]

\* KeyIsAfterNode: null is infinite.
KeyIsAfterNode(key, n) == n # Nil /\ n < key

\* FindGreaterOrEqual of the only writer: the last node before key on a level.
PrevOn(l, key) ==
    Max({HeadNode} \cup {n \in Inserted : n < key /\ sl.next[n][l] # Unset})

-----------------------------------------------------------------------------
(* Insert *)

\* MemTable::Add up to RandomHeight: the nodes before the new one are found.
StartInsert(k, height) ==
    LET key == EntryOf(k, mem_seq + 1)
    IN  /\ wr.pc = "idle" /\ mem_seq < MaxMemEntries
        /\ wr' = [pc |-> "height", key |-> key, height |-> height, level |-> 0,
                  prev |-> [l \in SkipLevels |-> IF l < MaxHeight THEN PrevOn(l, key) ELSE HeadNode]]
        /\ UNCHANGED <<sl, rdr, mem_seq>>

\* max_height_ grows before any link to the new node exists.
StoreMaxHeight ==
    /\ wr.pc = "height"
    /\ sl' = IF wr.height > MaxHeight THEN [sl EXCEPT !.heights = Append(@, wr.height)] ELSE sl
    /\ wr' = [wr EXCEPT !.pc = "link"]
    /\ UNCHANGED <<rdr, mem_seq>>

\* Mutant: the new node is published before it points on.
LinkForwardLate ==
    /\ wr.pc = "link"
    /\ sl' = [sl EXCEPT !.next[wr.prev[wr.level]][wr.level] = wr.key]
    /\ wr' = [wr EXCEPT !.pc = "publish"]
    /\ UNCHANGED <<rdr, mem_seq>>

\* NoBarrier_SetNext: the new node points on.
LinkForward ==
    /\ wr.pc = "link"
    /\ sl' = [sl EXCEPT !.next[wr.key][wr.level] = sl.next[wr.prev[wr.level]][wr.level]]
    /\ wr' = [wr EXCEPT !.pc = "publish"]
    /\ UNCHANGED <<rdr, mem_seq>>

\* SetNext: the node before it points to the new node.
Publish ==
    /\ wr.pc = "publish"
    /\ sl' = [sl EXCEPT !.next[wr.prev[wr.level]][wr.level] = wr.key,
                        !.linked[wr.key] = TRUE]
    /\ wr' = [wr EXCEPT !.level = @ + 1, !.pc = IF wr.level + 1 < wr.height THEN "link" ELSE "linked"]
    /\ UNCHANGED <<rdr, mem_seq>>

\* DBImpl::Write sets the last sequence when the batch is in the memtable.
FinishInsert ==
    /\ wr.pc = "linked"
    /\ mem_seq' = mem_seq + 1 /\ wr' = [wr EXCEPT !.pc = "idle"]
    /\ UNCHANGED <<sl, rdr>>

-----------------------------------------------------------------------------
(* The reader *)

\* The entries whose insertion was over when an operation began.
Complete == {e \in Inserted : SequenceOf(e) <= mem_seq}

Begin(op, target, pc, x) ==
    /\ rdr.pc = "idle" /\ rdr.n < MaxMemReads
    /\ \E i \in DOMAIN sl.heights :
          rdr' = [rdr EXCEPT !.pc = pc, !.op = op, !.target = target, !.x = x,
                             !.level = sl.heights[i] - 1, !.before = Complete, !.seq = mem_seq,
                             !.n = @ + 1]
    /\ UNCHANGED <<sl, wr, mem_seq>>

BeginGet(k)  == Begin("get", EntryOf(k, mem_seq), "ge", HeadNode)
BeginSeek(e) == Begin("seek", e, "ge", HeadNode)
BeginPrev    == rdr.node # Nil /\ Begin("prev", rdr.node, "lt", HeadNode)
BeginLast    == Begin("last", 0, "last", HeadNode)

\* One load of FindGreaterOrEqual, FindLessThan or FindLast.
StopHere(next) ==
    CASE rdr.pc = "last" -> next = Nil
      [] OTHER -> ~KeyIsAfterNode(rdr.target, next)
Found(next) ==
    CASE rdr.pc = "ge" -> next
      [] OTHER -> IF rdr.x = HeadNode THEN Nil ELSE rdr.x
Walk ==
    /\ rdr.pc \in {"ge", "lt", "last"}
    /\ LET next == sl.next[rdr.x][rdr.level]
       IN  rdr' = IF ~StopHere(next) THEN [rdr EXCEPT !.x = next]
                  ELSE IF rdr.level > 0 THEN [rdr EXCEPT !.level = @ - 1]
                  ELSE [rdr EXCEPT !.pc = "done", !.node = Found(next)]
    /\ UNCHANGED <<sl, wr, mem_seq>>

\* Iterator::Next and Iterator::SeekToFirst are one load.
StepNext(op, x) ==
    /\ rdr.pc = "idle" /\ rdr.n < MaxMemReads
    /\ rdr' = [rdr EXCEPT !.pc = "done", !.op = op, !.target = x, !.before = Complete,
                          !.seq = mem_seq, !.node = sl.next[x][0], !.n = @ + 1]
    /\ UNCHANGED <<sl, wr, mem_seq>>
ReadNext  == rdr.node # Nil /\ StepNext("next", rdr.node)
ReadFirst == StepNext("first", HeadNode)

\* The result is handed to the caller; MemTable::Get leaves no iterator behind.
Return ==
    /\ rdr.pc = "done"
    /\ rdr' = [rdr EXCEPT !.pc = "idle", !.node = IF rdr.op = "get" THEN Nil ELSE @]
    /\ UNCHANGED <<sl, wr, mem_seq>>

MemNext ==
    \/ \E k \in MemUserKeys, h \in 1..kMaxHeight : StartInsert(k, h)
    \/ StoreMaxHeight \/ LinkForward \/ Publish \/ FinishInsert
    \/ \E k \in MemUserKeys : BeginGet(k)
    \/ \E e \in EntryNumbers : BeginSeek(e)
    \/ BeginPrev \/ BeginLast \/ Walk \/ ReadNext \/ ReadFirst \/ Return

MemSpec == MemInit /\ [][MemNext]_mem_vars

-----------------------------------------------------------------------------
\* What MemTable::Get must find: the newest entry of the key the reader may see.
NewestEntry(k, s) ==
    LET S == {e \in rdr.before : UserKeyOf(e) = k /\ SequenceOf(e) <= s}
    IN  IF S = {} THEN Nil ELSE Min(S)
GetResult == IF rdr.node # Nil /\ UserKeyOf(rdr.node) = UserKeyOf(rdr.target) THEN rdr.node ELSE Nil

\* A walk that meets an insertion half done, or starts from an old height, never
\* follows a link that was not initialised, misses no entry whose insertion was
\* over when it began and never steps the wrong way; Get finds exactly the
\* newest entry its sequence number allows.
MemReadsAgree ==
    /\ rdr.x # Unset /\ rdr.node # Unset
    /\ rdr.pc = "done" =>
         LET n == rdr.node
         IN  CASE rdr.op = "get" -> GetResult = NewestEntry(UserKeyOf(rdr.target), rdr.seq)
               [] rdr.op = "seek" ->
                    /\ n = Nil \/ (n \in Inserted /\ n >= rdr.target)
                    /\ \A e \in rdr.before : e >= rdr.target => n # Nil /\ n <= e
               [] rdr.op \in {"next", "first"} ->
                    /\ n = Nil \/ (n \in Inserted /\ n > rdr.target)
                    /\ \A e \in rdr.before : e > rdr.target => n # Nil /\ n <= e
               [] rdr.op = "prev" ->
                    /\ n = Nil \/ (n \in Inserted /\ n < rdr.target)
                    /\ \A e \in rdr.before : e < rdr.target => n >= e
               [] OTHER ->
                    /\ n = Nil \/ n \in Inserted
                    /\ \A e \in rdr.before : n >= e
=============================================================================
