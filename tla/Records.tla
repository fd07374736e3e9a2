------------------------------- MODULE Records ------------------------------
(***************************************************************************)
(* What the on-device leveldb stores in its logs and manifests: WriteBatch *)
(* (db/write_batch.cc), VersionEdit (db/version_edit.cc) and the numbers   *)
(* of file names (db/filename.cc, util/logging.cc), over the varints and   *)
(* length-prefixed strings of util/coding.cc.                              *)
(*                                                                         *)
(* A byte holds a digit in base Half (128 in the code); a byte of Half or  *)
(* more says that another follows.                                         *)
(***************************************************************************)
EXTENDS Integers, Sequences, FiniteSets, FiniteSetsExt, SequencesExt

CONSTANTS
    Half,          \* 128 in the code
    VarintBytes,   \* longest varint: 5 or 10 in the code
    Strings,       \* keys, values and names: sequences of bytes
    Numbers,       \* file numbers and sequence numbers
    EditLevels,    \* levels an edit may name
    kNumLevels,    \* 7 in the code
    MaxOps,        \* bound: operations of a batch
    MaxFields,     \* bound: fields of an edit
    Radix,         \* 10 in the code
    MaxUint,       \* 2^64 - 1 in the code
    MaxDigits      \* bound: digits of a file name

VARIABLES
    bt,   \* two batches, and the reading of the first
    ed,   \* a version edit, and the reading of it
    fname \* the digits of a file name, and the parsing of it

-----------------------------------------------------------------------------
(* util/coding.cc *)

\* What is left of v after n bytes.
Shifted(v) ==
    LET left[n \in 0..VarintBytes] == IF n = 0 THEN v ELSE left[n - 1] \div Half IN left
PutVarint(v) ==
    LET length == Min({n \in 1..VarintBytes : Shifted(v)[n] = 0})
    IN  [i \in 1..length |-> (Shifted(v)[i - 1] % Half) + (IF i < length THEN Half ELSE 0)]
PutLengthPrefixedSlice(s) == PutVarint(Len(s)) \o s

\* Numbers and lengths fit the longest varint, and digits fit a number.
ASSUME RecordsAssumption ==
    /\ Half \in Nat \ {0, 1} /\ VarintBytes \in Nat \ {0} /\ MaxOps \in Nat
    /\ Radix \in Nat \ {0, 1} /\ MaxUint \in Nat /\ MaxUint >= Radix - 1
    /\ \A n \in Numbers : n \in Nat /\ Shifted(n)[VarintBytes] = 0
    /\ \A s \in Strings : s \in Seq(Nat) /\ Shifted(Len(s))[VarintBytes] = 0

Fail == [ok |-> FALSE]
\* The number of the first n bytes, of which the last is the most significant.
Joined(input, n) ==
    LET last[k \in 0..n] == IF k = 0 THEN 0 ELSE last[k - 1] * Half + (input[n + 1 - k] % Half)
    IN  last[n]
GetVarint(input) ==
    LET S == {n \in 1..VarintBytes : n <= Len(input) /\ input[n] < Half}
    IN  IF S = {} THEN Fail
        ELSE [ok |-> TRUE, v |-> Joined(input, Min(S)), rest |-> SubSeq(input, Min(S) + 1, Len(input))]
\* Mutant: the length is not compared with what is left.
GetLengthPrefixedSliceUnchecked(input) ==
    LET g == GetVarint(input)
    IN  IF ~g.ok THEN Fail
        ELSE LET n == Min({g.v, Len(g.rest)})
             IN  [ok |-> TRUE, v |-> SubSeq(g.rest, 1, n), rest |-> SubSeq(g.rest, n + 1, Len(g.rest))]

GetLengthPrefixedSlice(input) ==
    LET g == GetVarint(input)
    IN  IF ~g.ok THEN Fail ELSE IF Len(g.rest) < g.v THEN Fail
        ELSE [ok |-> TRUE, v |-> SubSeq(g.rest, 1, g.v), rest |-> SubSeq(g.rest, g.v + 1, Len(g.rest))]

\* GetLevel and GetInternalKey (db/version_edit.cc); a key is never empty.
GetLevel(input) ==
    LET g == GetVarint(input) IN IF ~g.ok THEN Fail ELSE IF g.v >= kNumLevels THEN Fail ELSE g
GetInternalKey(input) ==
    LET g == GetLengthPrefixedSlice(input)
    IN  IF ~g.ok THEN Fail ELSE IF g.v = <<>> THEN Fail ELSE g

-----------------------------------------------------------------------------
(* WriteBatch *)

kTypeDeletion == 0
kTypeValue    == 1

ClearBatch == [count |-> 0, rep |-> <<>>, ops |-> <<>>]

BatchInit ==
    bt = [phase |-> "build", b |-> <<ClearBatch, ClearBatch>>, in |-> <<>>, cut |-> FALSE,
          seq |-> 1, found |-> 0, out |-> <<>>, st |-> "none"]

Operation(op) ==
    IF op.del THEN <<kTypeDeletion>> \o PutLengthPrefixedSlice(op.key)
    ELSE <<kTypeValue>> \o PutLengthPrefixedSlice(op.key) \o PutLengthPrefixedSlice(op.val)

\* WriteBatch::Put and WriteBatch::Delete.
BatchPut(i, key, val) ==
    LET op == [del |-> FALSE, key |-> key, val |-> val]
    IN  /\ bt.phase = "build" /\ bt.b[1].count + bt.b[2].count < MaxOps
        /\ bt' = [bt EXCEPT !.b[i] = [count |-> @.count + 1, rep |-> @.rep \o Operation(op),
                                      ops |-> Append(@.ops, op)]]
BatchDelete(i, key) ==
    LET op == [del |-> TRUE, key |-> key, val |-> <<>>]
    IN  /\ bt.phase = "build" /\ bt.b[1].count + bt.b[2].count < MaxOps
        /\ bt' = [bt EXCEPT !.b[i] = [count |-> @.count + 1, rep |-> @.rep \o Operation(op),
                                      ops |-> Append(@.ops, op)]]

\* WriteBatch::Append: the second batch is added to the first.
BatchAppend ==
    /\ bt.phase = "build" /\ bt.b[2].count > 0
    /\ bt' = [bt EXCEPT !.b = <<[count |-> @[1].count + @[2].count, rep |-> @[1].rep \o @[2].rep,
                                 ops |-> @[1].ops \o @[2].ops], ClearBatch>>]

\* The batch is read back, whole or without its tail.
StartIterate(n) ==
    /\ bt.phase = "build" /\ bt.b[2].count = 0
    /\ bt' = [bt EXCEPT !.phase = "iterate", !.in = SubSeq(bt.b[1].rep, 1, n),
                        !.cut = n < Len(bt.b[1].rep)]

\* One round of WriteBatch::Iterate with MemTableInserter.
Iterate ==
    /\ bt.phase = "iterate"
    /\ LET tag  == Head(bt.in)
           rest == Tail(bt.in)
           key  == GetLengthPrefixedSlice(rest)
           val  == IF tag = kTypeDeletion THEN [ok |-> TRUE, v |-> <<>>, rest |-> key.rest]
                   ELSE GetLengthPrefixedSlice(key.rest)
           bad  == [bt EXCEPT !.phase = "done", !.found = @ + 1, !.st = "corruption"]
       IN  bt' = IF bt.in = <<>>
                 THEN [bt EXCEPT !.phase = "done",
                                 !.st = IF bt.found = bt.b[1].count THEN "ok" ELSE "corruption"]
                 ELSE IF tag \notin {kTypeDeletion, kTypeValue} THEN bad
                 ELSE IF ~key.ok THEN bad ELSE IF ~val.ok THEN bad
                 ELSE [bt EXCEPT !.in = val.rest, !.found = @ + 1, !.seq = @ + 1,
                                 !.out = Append(@, [s |-> bt.seq,
                                    op |-> [del |-> tag = kTypeDeletion, key |-> key.v, val |-> val.v]])]

BatchNext ==
    \/ \E i \in 1..2, k \in Strings, v \in Strings : BatchPut(i, k, v)
    \/ \E i \in 1..2, k \in Strings : BatchDelete(i, k)
    \/ BatchAppend
    \/ \E n \in 0..Len(bt.b[1].rep) : StartIterate(n)
    \/ Iterate

BatchSpec == BatchInit /\ [][BatchNext]_bt

-----------------------------------------------------------------------------
(* VersionEdit *)

kComparator     == 1
kLogNumber      == 2
kNextFileNumber == 3
kLastSequence   == 4
kCompactPointer == 5
kDeletedFile    == 6
kNewFile        == 7
kPrevLogNumber  == 9
ScalarOrder == <<kComparator, kLogNumber, kPrevLogNumber, kNextFileNumber, kLastSequence>>
NumberTags  == {kLogNumber, kPrevLogNumber, kNextFileNumber, kLastSequence}

\* has_x_ is that x is in the domain of scalar.
ClearEdit == [scalar |-> <<>>, pointers |-> <<>>, deleted |-> {}, new |-> <<>>]

EditInit == ed = [phase |-> "build", e |-> ClearEdit, n |-> 0, in |-> <<>>, len |-> 0, cut |-> FALSE,
                  d |-> ClearEdit, msg |-> FALSE]

EncodeNewFile(f) ==
    PutVarint(kNewFile) \o PutVarint(f.level) \o PutVarint(f.number) \o PutVarint(f.size)
    \o PutLengthPrefixedSlice(f.smallest) \o PutLengthPrefixedSlice(f.largest)
EncodePointer(p) == PutVarint(kCompactPointer) \o PutVarint(p.level) \o PutLengthPrefixedSlice(p.key)
EncodeDeleted(x) == PutVarint(kDeletedFile) \o PutVarint(x[1]) \o PutVarint(x[2])
EncodeScalar(tag, v) ==
    PutVarint(tag) \o (IF tag = kComparator THEN PutLengthPrefixedSlice(v) ELSE PutVarint(v))

\* std::set keeps the deleted files in increasing order.
InOrder(S) == SetToSortSeq(S, LAMBDA x, y : x[1] < y[1] \/ (x[1] = y[1] /\ x[2] < y[2]))

EncodeTo(e) ==
    LET scalars == SelectSeq(ScalarOrder, LAMBDA t : t \in DOMAIN e.scalar)
    IN  FlattenSeq([i \in DOMAIN scalars |-> EncodeScalar(scalars[i], e.scalar[scalars[i]])])
        \o FlattenSeq([i \in DOMAIN e.pointers |-> EncodePointer(e.pointers[i])])
        \o FlattenSeq([i \in DOMAIN InOrder(e.deleted) |-> EncodeDeleted(InOrder(e.deleted)[i])])
        \o FlattenSeq([i \in DOMAIN e.new |-> EncodeNewFile(e.new[i])])

SetScalar(e, tag, v) ==
    [e EXCEPT !.scalar = [t \in DOMAIN e.scalar \cup {tag} |-> IF t = tag THEN v ELSE e.scalar[t]]]

\* SetComparatorName, SetLogNumber, SetPrevLogNumber, SetNextFile, SetLastSequence,
\* SetCompactPointer, RemoveFile and AddFile (db/version_edit.h).
Build(e) ==
    /\ ed.phase = "build" /\ ed.n < MaxFields
    /\ ed' = [ed EXCEPT !.e = e, !.n = @ + 1]
EditSetName(s)          == Build(SetScalar(ed.e, kComparator, s))
EditSetNumber(tag, v)   == Build(SetScalar(ed.e, tag, v))
EditSetPointer(l, k)    == Build([ed.e EXCEPT !.pointers = Append(@, [level |-> l, key |-> k])])
EditRemoveFile(l, n)    == Build([ed.e EXCEPT !.deleted = @ \cup {<<l, n>>}])
EditAddFile(l, n, a, b) == Build([ed.e EXCEPT !.new = Append(@, [level |-> l, number |-> n, size |-> n,
                                                                 smallest |-> a, largest |-> b])])

StartDecode(n) ==
    /\ ed.phase = "build"
    /\ ed' = [ed EXCEPT !.phase = "decode", !.in = SubSeq(EncodeTo(ed.e), 1, n),
                        !.len = n, !.cut = n < Len(EncodeTo(ed.e))]

\* Read one value after another with the getters of a field.
GetAll(input, getters) ==
    LET Get(kind, i) == CASE kind = "number" -> GetVarint(i) [] kind = "string" -> GetLengthPrefixedSlice(i)
                          [] kind = "level" -> GetLevel(i)   [] kind = "key" -> GetInternalKey(i)
        Run[n \in 0..Len(getters)] ==
            IF n = 0 THEN [ok |-> TRUE, vs |-> <<>>, rest |-> input]
            ELSE IF ~Run[n - 1].ok THEN Fail
            ELSE LET g == Get(getters[n], Run[n - 1].rest)
                 IN  IF g.ok THEN [ok |-> TRUE, vs |-> Append(Run[n - 1].vs, g.v), rest |-> g.rest]
                     ELSE Fail
    IN  Run[Len(getters)]

Getters(tag) ==
    CASE tag = kComparator -> <<"string">>
      [] tag \in NumberTags -> <<"number">>
      [] tag = kCompactPointer -> <<"level", "key">>
      [] tag = kDeletedFile -> <<"level", "number">>
      [] tag = kNewFile -> <<"level", "number", "number", "key", "key">>
KnownTags == NumberTags \cup {kComparator, kCompactPointer, kDeletedFile, kNewFile}

Decoded(d, tag, v) ==
    CASE tag \in NumberTags \cup {kComparator} -> SetScalar(d, tag, v[1])
      [] tag = kCompactPointer -> [d EXCEPT !.pointers = Append(@, [level |-> v[1], key |-> v[2]])]
      [] tag = kDeletedFile -> [d EXCEPT !.deleted = @ \cup {<<v[1], v[2]>>}]
      [] tag = kNewFile -> [d EXCEPT !.new = Append(@, [level |-> v[1], number |-> v[2], size |-> v[3],
                                                        smallest |-> v[4], largest |-> v[5]])]

\* What DecodeFrom makes of a field: its tag t, then its values g.
Malformed == [ed EXCEPT !.phase = "done", !.msg = TRUE]
DecodeValues(tag, g) ==
    IF g.ok THEN [ed EXCEPT !.in = g.rest, !.d = Decoded(ed.d, tag, g.vs)] ELSE Malformed
DecodeField(t) ==
    IF t.v \in KnownTags THEN DecodeValues(t.v, GetAll(t.rest, Getters(t.v))) ELSE Malformed

\* Mutant: what is left when no tag can be read is ignored.
AfterTagLeavesRest(t) == IF t.ok THEN DecodeField(t) ELSE [ed EXCEPT !.phase = "done"]

AfterTag(t) ==
    IF t.ok THEN DecodeField(t) ELSE [ed EXCEPT !.phase = "done", !.msg = ed.in # <<>>]

\* One round of VersionEdit::DecodeFrom, or its end.
DecodeFrom == ed.phase = "decode" /\ ed' = AfterTag(GetVarint(ed.in))

NonEmpty == Strings \ {<<>>}
EditNext ==
    \/ \E s \in Strings : EditSetName(s)
    \/ \E tag \in NumberTags, v \in Numbers : EditSetNumber(tag, v)
    \/ \E l \in EditLevels, k \in NonEmpty : EditSetPointer(l, k)
    \/ \E l \in EditLevels, n \in Numbers : EditRemoveFile(l, n)
    \/ \E l \in EditLevels, n \in Numbers, a \in NonEmpty, b \in NonEmpty : EditAddFile(l, n, a, b)
    \/ \E n \in 0..Len(EncodeTo(ed.e)) : StartDecode(n)
    \/ DecodeFrom

-----------------------------------------------------------------------------
(* File names: ParseFileName (db/filename.cc) and ConsumeDecimalNumber     *)
(* (util/logging.cc).  A name is a head, digits and a tail; "none" is none. *)

\* LogFileName, TableFileName, SSTTableFileName, DescriptorFileName, TempFileName.
FileNames == {[head |-> "none", tail |-> ".log", type |-> "log"],
              [head |-> "none", tail |-> ".ldb", type |-> "table"],
              [head |-> "none", tail |-> ".sst", type |-> "table"],
              [head |-> "MANIFEST-", tail |-> "none", type |-> "descriptor"],
              [head |-> "none", tail |-> ".dbtmp", type |-> "temp"]}

NameInit == fname = [phase |-> "build", head |-> "none", tail |-> "none", digits |-> <<>>,
                     at |-> 0, value |-> 0, type |-> "none", ok |-> FALSE]

AddDigit(d) ==
    /\ fname.phase = "build" /\ Len(fname.digits) < MaxDigits
    /\ fname' = [fname EXCEPT !.digits = Append(@, d)]
\* Some name of the directory, which need not be one the program made.
StartParse(head, tail) ==
    /\ fname.phase = "build"
    /\ fname' = [fname EXCEPT !.phase = "parse", !.head = head, !.tail = tail]

\* What ParseFileName makes of the rest of the name.
TypeOf(head, rest) ==
    CASE head = "MANIFEST-" -> IF rest = "none" THEN "descriptor" ELSE "none"
      [] head = "none" /\ rest = ".log" -> "log"
      [] head = "none" /\ rest \in {".sst", ".ldb"} -> "table"
      [] head = "none" /\ rest = ".dbtmp" -> "temp"
      [] OTHER -> "none"
NumberRead(f) ==
    LET type == TypeOf(f.head, f.tail)
    IN  [f EXCEPT !.phase = "done", !.type = type, !.ok = f.at # 0 /\ type # "none"]

kLastDigitOfMaxUint64 == MaxUint % Radix

\* Mutant: the last digit is not looked at when the number is about to overflow.
ConsumeDecimalNumberWraps ==
    /\ fname.phase = "parse"
    /\ fname' =
         IF fname.at = Len(fname.digits)
         THEN NumberRead(fname)
         ELSE IF fname.value > MaxUint \div Radix THEN [fname EXCEPT !.phase = "done"]
         ELSE [fname EXCEPT !.at = @ + 1,
                            !.value = (@ * Radix + fname.digits[fname.at + 1]) % (MaxUint + 1)]

\* One digit is consumed, or the end is reached; a number that does not fit fails.
ConsumeDecimalNumber ==
    /\ fname.phase = "parse"
    /\ fname' =
         IF fname.at = Len(fname.digits)
         THEN NumberRead(fname)
         ELSE LET d == fname.digits[fname.at + 1]
              IN  IF \/ fname.value > MaxUint \div Radix
                     \/ fname.value = MaxUint \div Radix /\ d > kLastDigitOfMaxUint64
                  THEN [fname EXCEPT !.phase = "done"]
                  ELSE [fname EXCEPT !.at = @ + 1, !.value = (@ * Radix + d) % (MaxUint + 1)]

NameNext ==
    \/ (\E d \in 0..(Radix - 1) : AddDigit(d)) 
    \/ (\E head \in {"none", "MANIFEST-"}, tail \in {n.tail : n \in FileNames} \cup {".bak"} :
          StartParse(head, tail))
    \/ ConsumeDecimalNumber

NameSpec == NameInit /\ [][NameNext]_fname

-----------------------------------------------------------------------------
\* The operations of a batch, and of batches joined by group commit, reach the
\* memtable in order under consecutive sequence numbers; a batch that lost its
\* tail is reported, and what reached the memtable before is a prefix of it.
BatchReadsBack ==
    LET ops == bt.b[1].ops
        delivered == [i \in DOMAIN bt.out |-> bt.out[i].op]
    IN  /\ IsPrefix(delivered, ops)
        /\ \A i \in DOMAIN bt.out : bt.out[i].s = i
        /\ bt.phase = "done" => (bt.st = "ok" <=> ~bt.cut) /\ (bt.st = "ok" => delivered = ops)

\* A version edit is read back as it was written; one that lost its tail is
\* reported, or ends between two fields and lacks only the last ones.
EditReadsBack ==
    ed.phase = "done" =>
        /\ ~ed.cut => ~ed.msg /\ ed.d = ed.e
        /\ ~ed.msg => EncodeTo(ed.d) = SubSeq(EncodeTo(ed.e), 1, ed.len)
                      /\ \A t \in DOMAIN ed.d.scalar : ed.d.scalar[t] = ed.e.scalar[t]
                      /\ IsPrefix(ed.d.new, ed.e.new) /\ ed.d.deleted \subseteq ed.e.deleted

\* The number of the first n digits.
Value(digits) ==
    LET first[n \in 0..Len(digits)] == IF n = 0 THEN 0 ELSE first[n - 1] * Radix + digits[n]
    IN  first[Len(digits)]

\* A file of the directory is recognised, with its exact number, when it is one
\* the program may have made and the number fits 64 bits, and else left alone: none
\* is taken for a file of another kind or another number.
FileNameExact ==
    fname.phase = "done" =>
        LET made == {n \in FileNames : n.head = fname.head /\ n.tail = fname.tail}
        IN  /\ fname.ok <=> (made # {} /\ fname.digits # <<>> /\ Value(fname.digits) <= MaxUint)
            /\ fname.ok => /\ fname.value = Value(fname.digits)
                           /\ \A n \in made : fname.type = n.type
=============================================================================
