---------------------------- MODULE TableFormat -----------------------------
(***************************************************************************)
(* Tables of the on-device leveldb: TableBuilder (table/table_builder.cc)  *)
(* with its BlockBuilders and its FilterBlockBuilder, and Table            *)
(* (table/table.cc) with Block::Iter and FilterBlockReader.                *)
(*                                                                         *)
(* A user key is a sequence of small bytes; an internal key is a user key  *)
(* and a sequence number, stored as the bytes followed by one cell for the *)
(* eight-byte tag.  Sizes count cells.  The offset of an entry in a block  *)
(* is its number; handles are block numbers.                               *)
(***************************************************************************)
EXTENDS Integers, Sequences, FiniteSets, FiniteSetsExt, SequencesExt

CONSTANTS
    TableKeys,        \* internal keys [u, s] that may be added
    LookupKeys,       \* internal keys that are looked up
    MaxByte,          \* 0xff in the code
    MaxSeq,           \* kMaxSequenceNumber
    BlockSize,        \* options.block_size
    RestartInterval,  \* options.block_restart_interval
    FilterBase,       \* kFilterBase, 2048 in the code
    BitsPerKey,       \* bits_per_key_ of the Bloom filter
    MinBits,          \* 64 in the code
    Probes,           \* k_ of the Bloom filter
    HashWidth         \* 32 in the code

ASSUME TableFormatAssumption ==
    /\ \A k \in TableKeys : k.s \in 0..MaxSeq /\ \A i \in DOMAIN k.u : k.u[i] \in 0..MaxByte
    /\ RestartInterval >= 1 /\ FilterBase >= 1 /\ BitsPerKey >= 0 /\ MinBits >= 1

VARIABLES
    tb,        \* the builder, then the file
    tb_added,  \* the keys added, in order
    tb_table,  \* the opened table, or NoTable
    cursor     \* a Block::Iter on one block of the table

tb_vars == <<tb, tb_added, tb_table, cursor>>

-----------------------------------------------------------------------------
(* Keys: BytewiseComparatorImpl and InternalKeyComparator. *)

LexLess(a, b) ==
    \E i \in 1..Len(b) :
        /\ \A j \in 1..(i - 1) : j <= Len(a) /\ a[j] = b[j]
        /\ i <= Len(a) => a[i] < b[i]
KeyLess(a, b) == LexLess(a.u, b.u) \/ (a.u = b.u /\ a.s > b.s)

Flat(k)   == Append(k.u, -1 - k.s)
Parsed(f) == [u |-> Front(f), s |-> -1 - Last(f)]

SharedPrefix(a, b) ==
    Max({n \in 0..Min({Len(a), Len(b)}) : \A i \in 1..n : a[i] = b[i]})

\* BytewiseComparatorImpl::FindShortestSeparator.
UserSeparator(start, limit) ==
    LET d == SharedPrefix(start, limit)
    IN  IF /\ d < Min({Len(start), Len(limit)})
           /\ start[d + 1] < MaxByte
           /\ start[d + 1] + 1 < limit[d + 1]
        THEN Append(SubSeq(start, 1, d), start[d + 1] + 1)
        ELSE start
\* BytewiseComparatorImpl::FindShortSuccessor.
UserSuccessor(key) ==
    LET S == {i \in DOMAIN key : key[i] # MaxByte}
    IN  IF S = {} THEN key ELSE Append(SubSeq(key, 1, Min(S) - 1), key[Min(S)] + 1)

\* A user key that became shorter and larger gets the earliest possible tag.
Shortened(key, u) ==
    IF Len(u) < Len(key.u) /\ LexLess(key.u, u) THEN [u |-> u, s |-> MaxSeq] ELSE key
FindShortestSeparator(start, limit) == Shortened(start, UserSeparator(start.u, limit.u))
FindShortSuccessor(key) == Shortened(key, UserSuccessor(key.u))

-----------------------------------------------------------------------------
(* The Bloom filter of a set of user keys. *)

Word == 2 ^ HashWidth
\* Hash (util/hash.cc), by a small mixing function.
BloomHash(u) ==
    LET h[i \in 0..Len(u)] == IF i = 0 THEN 5 ELSE (h[i - 1] * 7 + u[i] + 3) % Word
    IN  h[Len(u)]
Rotated(h) == ((h \div 2 ^ (HashWidth \div 2)) + h * 2 ^ (HashWidth - HashWidth \div 2)) % Word
ProbesOf(u, bits) ==
    {((BloomHash(u) + j * Rotated(BloomHash(u))) % Word) % bits : j \in 0..(Probes - 1)}

CreateFilter(users) ==
    LET wanted == Max({MinBits, Cardinality(users) * BitsPerKey})
        bits   == ((wanted + 7) \div 8) * 8
    IN  [bits |-> bits, on |-> UNION {ProbesOf(u, bits) : u \in users}]
NoFilter == [bits |-> 0, on |-> {}]
BloomMayMatch(u, f) == f.bits # 0 /\ ProbesOf(u, f.bits) \subseteq f.on

\* FilterBlockBuilder: fs are the filters made, keys the user keys since (a set:
\* a repeated key only adds to the number of bits).
GenerateFilter(f) ==
    [fs |-> Append(f.fs, IF f.keys = {} THEN NoFilter ELSE CreateFilter(f.keys)), keys |-> {}]

\* Mutant: the filter of the current 2 KiB is made before its last block is in it.
StartBlockEarly(f, offset) ==
    LET index == offset \div FilterBase
        Gen[n \in 0..(index + 1)] == IF n = 0 THEN f
                                     ELSE IF Len(Gen[n - 1].fs) <= index THEN GenerateFilter(Gen[n - 1])
                                     ELSE Gen[n - 1]
    IN  Gen[index + 1]

\* StartBlock: a filter for every 2 KiB that ends before the offset.
StartBlock(f, offset) ==
    LET index == offset \div FilterBase
        Gen[n \in 0..index] == IF n = 0 THEN f
                               ELSE IF Len(Gen[n - 1].fs) < index THEN GenerateFilter(Gen[n - 1])
                               ELSE Gen[n - 1]
    IN  Gen[index]
\* FilterBlockBuilder::Finish.
FinishFilter(f) == IF f.keys # {} THEN GenerateFilter(f).fs ELSE f.fs

\* FilterBlockReader::KeyMayMatch.
KeyMayMatch(fs, offset, u) ==
    LET index == offset \div FilterBase
    IN  index < Len(fs) => BloomMayMatch(u, fs[index + 1])

-----------------------------------------------------------------------------
(* BlockBuilder. *)

EmptyBlock == [ents |-> <<>>, restarts |-> <<1>>, counter |-> 0, last |-> <<>>]

AddEntry(b, key, val, interval) ==
    LET restart == b.counter >= interval
        shared  == IF restart THEN 0 ELSE SharedPrefix(b.last, key)
    IN  [ents |-> Append(b.ents, [shared |-> shared, delta |-> SubSeq(key, shared + 1, Len(key)),
                                  val |-> val]),
         restarts |-> IF restart THEN Append(b.restarts, Len(b.ents) + 1) ELSE b.restarts,
         counter  |-> IF restart THEN 1 ELSE b.counter + 1,
         last     |-> key]

CurrentSizeEstimate(b) ==
    Len(b.restarts) + FoldSeq(LAMBDA e, n : n + 1 + Len(e.delta), 0, b.ents)

-----------------------------------------------------------------------------
(* Block::Iter.  cur is past the last entry when not valid; nxt is         *)
(* NextEntryOffset().                                                      *)

End(b) == Len(b.ents) + 1
Exhausted(b, i, err) == [i EXCEPT !.cur = End(b), !.ri = Len(b.restarts) + 1, !.err = err]
NewIter(b) == [cur |-> End(b), ri |-> Len(b.restarts) + 1, key |-> <<>>, nxt |-> 1, err |-> FALSE]
BlockValid(b, i) == i.cur < End(b)

ParseNextKey(b, i) ==
    IF i.nxt >= End(b) THEN [Exhausted(b, i, i.err) EXCEPT !.nxt = End(b)]
    ELSE LET e == b.ents[i.nxt]
         IN  IF Len(i.key) < e.shared THEN [Exhausted(b, i, TRUE) EXCEPT !.key = <<>>]
             ELSE [i EXCEPT !.cur = i.nxt, !.nxt = i.nxt + 1,
                            !.key = SubSeq(i.key, 1, e.shared) \o e.delta,
                            !.ri = Max({i.ri} \cup {r \in DOMAIN b.restarts :
                                                      r > i.ri /\ b.restarts[r] < i.nxt})]

SeekToRestartPoint(b, i, r) == [i EXCEPT !.key = <<>>, !.ri = r, !.nxt = b.restarts[r]]

\* Repeat ParseNextKey until it fails or Stop holds.
ParseUntil(b, i, Stop(_)) ==
    LET Run[n \in 0..End(b)] ==
            IF n = 0 THEN ParseNextKey(b, i)
            ELSE IF ~BlockValid(b, Run[n - 1]) \/ Stop(Run[n - 1]) THEN Run[n - 1]
            ELSE ParseNextKey(b, Run[n - 1])
    IN  Run[End(b)]

BlockFirst(b, i) == ParseNextKey(b, SeekToRestartPoint(b, i, 1))
BlockLast(b, i) ==
    ParseUntil(b, SeekToRestartPoint(b, i, Len(b.restarts)), LAMBDA x : x.nxt >= End(b))
BlockNext(b, i) == ParseNextKey(b, i)
\* Mutant: the restart point of the current entry itself is taken.
BlockPrevFromHere(b, i) ==
    LET R == {r \in 1..i.ri : b.restarts[r] <= i.cur}
    IN  IF R = {} THEN Exhausted(b, i, i.err)
        ELSE ParseUntil(b, SeekToRestartPoint(b, i, Max(R)), LAMBDA x : x.nxt >= i.cur)

BlockPrev(b, i) ==
    LET R == {r \in 1..i.ri : b.restarts[r] < i.cur}
    IN  IF R = {} THEN Exhausted(b, i, i.err)
        ELSE ParseUntil(b, SeekToRestartPoint(b, i, Max(R)), LAMBDA x : x.nxt >= i.cur)

\* The binary search over restart points of Block::Iter::Seek.
SearchRestart(b, target) ==
    LET Step(lr) ==
            LET mid == (lr[1] + lr[2] + 1) \div 2
                key == Parsed(b.ents[b.restarts[mid]].delta)
            IN  IF KeyLess(key, target) THEN <<mid, lr[2]>> ELSE <<lr[1], mid - 1>>
        Run[n \in 0..Len(b.restarts)] ==
            IF n = 0 THEN <<1, Len(b.restarts)>>
            ELSE IF Run[n - 1][1] < Run[n - 1][2] THEN Step(Run[n - 1]) ELSE Run[n - 1]
    IN  Run[Len(b.restarts)][1]

BlockSeek(b, i, target) ==
    ParseUntil(b, SeekToRestartPoint(b, i, SearchRestart(b, target)),
               LAMBDA x : ~KeyLess(Parsed(x.key), target))

BlockEntry(b, i) == b.ents[i.cur].val

-----------------------------------------------------------------------------
(* TableBuilder. *)

NoTable == [open |-> FALSE]

TableInit ==
    /\ \E filter \in BOOLEAN :
          tb = [phase |-> "build", ok |-> TRUE, data |-> EmptyBlock, index |-> EmptyBlock,
                last |-> [u |-> <<>>, s |-> 0], pending |-> FALSE, offset |-> 0,
                filtered |-> filter, filter |-> [fs |-> <<>>, keys |-> {}],
                blocks |-> <<>>]
    /\ tb_added = <<>> /\ tb_table = NoTable
    /\ cursor = [blk |-> 0, ref |-> 0]

\* WriteBlock and WriteRawBlock of a data block; fails: an Append of it fails.
WriteDataBlock(b, fails) ==
    IF fails THEN [b EXCEPT !.ok = FALSE, !.data = EmptyBlock]
    ELSE [b EXCEPT !.blocks = Append(b.blocks, [at |-> b.offset, block |-> b.data]),
                   !.offset = b.offset + CurrentSizeEstimate(b.data) + 1,
                   !.data = EmptyBlock, !.pending = TRUE]

Flush(b, fails) ==
    IF ~b.ok \/ b.data.ents = <<>> THEN b
    ELSE LET w == WriteDataBlock(b, fails)
         IN  [w EXCEPT !.filter = IF b.filtered THEN StartBlock(w.filter, w.offset) ELSE w.filter]

IndexEntry(b, sep) ==
    [b EXCEPT !.index = AddEntry(b.index, Flat(sep), Len(b.blocks), 1), !.pending = FALSE]

TableAdd(key, fails) ==
    /\ tb.phase = "build"
    /\ \A i \in DOMAIN tb_added : KeyLess(tb_added[i], key)
    /\ IF ~tb.ok THEN UNCHANGED tb
       ELSE LET i == IF tb.pending THEN IndexEntry(tb, FindShortestSeparator(tb.last, key)) ELSE tb
                a == [i EXCEPT !.last = key,
                               !.filter.keys = IF i.filtered THEN @ \cup {key.u} ELSE @,
                               !.data = AddEntry(i.data, Flat(key), key, RestartInterval)]
            IN  /\ fails => CurrentSizeEstimate(a.data) >= BlockSize
                /\ tb' = IF CurrentSizeEstimate(a.data) >= BlockSize THEN Flush(a, fails) ELSE a
    /\ tb_added' = Append(tb_added, key)
    /\ UNCHANGED <<tb_table, cursor>>

\* TableBuilder::Finish; fails: writing the last data block, the filter, the
\* metaindex block, the index block or the footer fails, or BuildTable cannot
\* sync or close the file.  BuildTable then removes the file.
TableFinish(fails) ==
    /\ tb.phase = "build"
    /\ LET b == Flush(tb, FALSE)
           f == IF b.filtered THEN [b EXCEPT !.filter.fs = FinishFilter(b.filter), !.filter.keys = {}]
                ELSE b
           i == IF f.pending THEN IndexEntry(f, FindShortSuccessor(f.last)) ELSE f
       IN  tb' = IF tb.ok /\ ~fails THEN [i EXCEPT !.phase = "file"]
                 ELSE [tb EXCEPT !.phase = "removed"]
    /\ UNCHANGED <<tb_added, tb_table, cursor>>

-----------------------------------------------------------------------------
(* Table.  Checksums are verified; a block is damaged, or none.            *)

Parts == {"none", "meta", "filter", "data"}

\* Table::Open, ReadMeta and ReadFilter: a filter that cannot be read is not used.
TableOpen(part, n) ==
    /\ tb.phase = "file" /\ ~tb_table.open
    /\ part = "data" => n \in DOMAIN tb.blocks
    /\ part # "data" => n = 0
    /\ tb_table' = [open |-> TRUE, bad |-> n, usefilter |-> tb.filtered /\ part \notin {"meta", "filter"}]
    /\ UNCHANGED <<tb, tb_added, cursor>>

\* A damaged footer or index block: the table cannot be opened.
TableOpenFails ==
    /\ tb.phase = "file" /\ ~tb_table.open
    /\ tb' = [tb EXCEPT !.phase = "unreadable"]
    /\ UNCHANGED <<tb_added, tb_table, cursor>>

NotFound == [found |-> FALSE, err |-> FALSE]
ReadError == [found |-> FALSE, err |-> TRUE]

\* Table::InternalGet with BlockReader and ReadBlock.
InternalGet(k) ==
    LET ii == BlockSeek(tb.index, NewIter(tb.index), k)
    IN  IF ~BlockValid(tb.index, ii) THEN NotFound
        ELSE LET n == BlockEntry(tb.index, ii)
                 b == tb.blocks[n].block
                 d == BlockSeek(b, NewIter(b), k)
             IN  IF tb_table.usefilter /\ ~KeyMayMatch(tb.filter.fs, tb.blocks[n].at, k.u)
                 THEN NotFound
                 ELSE IF n = tb_table.bad THEN ReadError
                 ELSE IF ~BlockValid(b, d) THEN NotFound
                 ELSE [found |-> TRUE, err |-> FALSE, key |-> Parsed(d.key), val |-> BlockEntry(b, d)]

\* A Block::Iter on block n; ref is the entry it must be at, 0 when not valid.
CursorOn(n) == tb.blocks[n].block
Ready == tb_table.open /\ cursor.blk # 0
Entries(n) == [i \in DOMAIN CursorOn(n).ents |-> CursorOn(n).ents[i].val]

OpenCursor(n) ==
    /\ tb_table.open /\ cursor.blk = 0 /\ n # tb_table.bad
    /\ cursor' = [blk |-> n, ref |-> 0, i |-> NewIter(CursorOn(n))]
    /\ UNCHANGED <<tb, tb_added, tb_table>>

MoveCursor(i, ref) ==
    /\ cursor' = [cursor EXCEPT !.i = i, !.ref = ref]
    /\ UNCHANGED <<tb, tb_added, tb_table>>

CursorFirst == Ready /\ MoveCursor(BlockFirst(CursorOn(cursor.blk), cursor.i), 1)
CursorLast  == Ready /\ MoveCursor(BlockLast(CursorOn(cursor.blk), cursor.i),
                                   Len(CursorOn(cursor.blk).ents))
CursorNext  ==
    /\ Ready /\ BlockValid(CursorOn(cursor.blk), cursor.i)
    /\ MoveCursor(BlockNext(CursorOn(cursor.blk), cursor.i),
                  IF cursor.ref = Len(CursorOn(cursor.blk).ents) THEN 0 ELSE cursor.ref + 1)
CursorPrev  ==
    /\ Ready /\ BlockValid(CursorOn(cursor.blk), cursor.i)
    /\ MoveCursor(BlockPrev(CursorOn(cursor.blk), cursor.i), cursor.ref - 1)
CursorSeek(k) ==
    LET es == Entries(cursor.blk)
        S  == {i \in DOMAIN es : ~KeyLess(es[i], k)}
    IN  /\ Ready
        /\ MoveCursor(BlockSeek(CursorOn(cursor.blk), cursor.i, k), IF S = {} THEN 0 ELSE Min(S))

TableNext ==
    \/ \E k \in TableKeys, fails \in BOOLEAN : TableAdd(k, fails)
    \/ \E fails \in BOOLEAN : TableFinish(fails)
    \/ \E part \in Parts, n \in 0..Len(tb.blocks) : TableOpen(part, n)
    \/ TableOpenFails
    \/ \E n \in DOMAIN tb.blocks : OpenCursor(n)
    \/ CursorFirst \/ CursorLast \/ CursorNext \/ CursorPrev
    \/ \E k \in LookupKeys : CursorSeek(k)

-----------------------------------------------------------------------------
\* The entry a lookup must find: the newest of the user key not after k.
Wanted(k) == {e \in ToSet(tb_added) : e.u = k.u /\ ~KeyLess(e, k)
                 /\ \A x \in ToSet(tb_added) : x.u = k.u /\ KeyLess(x, e) => KeyLess(x, k)}

\* A lookup in a table finds the entry that was added, through the shortened
\* index keys, the Bloom filter of the right 2 KiB of the file and the prefix
\* compression; it says nothing is there only when nothing is; a damaged block
\* is an error and never an answer.
TableGetAgrees ==
    LET Agrees(k, r) ==
            /\ r.err \/ Wanted(k) = IF r.found THEN {e \in ToSet(tb_added) : e = r.val /\ e.u = k.u} ELSE {}
            /\ r.found => r.key = r.val
            /\ r.err => tb_table.bad # 0
    IN  tb_table.open => \A k \in LookupKeys : Agrees(k, InternalGet(k))

\* Whatever moves are made on a block, forward and backward, the iterator is at
\* the entry those moves lead to, with the key rebuilt from its prefix.
CursorAgrees ==
    Ready => LET b == CursorOn(cursor.blk)
             IN  /\ ~cursor.i.err
                 /\ BlockValid(b, cursor.i) <=> cursor.ref # 0
                 /\ cursor.ref # 0 => /\ cursor.i.cur = cursor.ref
                                      /\ Parsed(cursor.i.key) = b.ents[cursor.ref].val
=============================================================================
