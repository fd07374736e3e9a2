--------------------------- MODULE EnvPosixProofs ---------------------------
(***************************************************************************)
(* Proofs about the operating-system layer of leveldb, for any number of   *)
(* threads, processes and files and any limits.                            *)
(***************************************************************************)
EXTENDS EnvPosix, FunctionTheorems, FiniteSetTheorems, SequenceTheorems, TLAPS

-----------------------------------------------------------------------------
(* The lock on the directory *)

LockPcs == {"idle", "insert", "close", "fcntl", "held", "remove", "unlocked"}

\* The threads between PosixLockTable::Insert and PosixLockTable::Remove.
Inside == {"fcntl", "held", "remove", "unlocked"}

LockType ==
  /\ lk \in [table: [Processes -> BOOLEAN], owner: SUBSET Processes, dropped: BOOLEAN,
             pc: [Processes -> [LockThreads -> LockPcs]]]

\* The lock table lets one thread of a process in; the kernel's lock is the
\* holder's unless a close has dropped it.
LockInv ==
  /\ LockType
  /\ \A p \in Processes, t \in LockThreads : lk.pc[p][t] \in Inside => lk.table[p]
  /\ \A p \in Processes, t, u \in LockThreads :
        lk.pc[p][t] \in Inside /\ lk.pc[p][u] \in Inside => t = u
  /\ \A p \in Processes, t \in LockThreads :
        ~lk.dropped /\ lk.pc[p][t] = "held" => lk.owner = {p}

LEMMA LockInitially == LockInit => LockInv
<1> SUFFICES ASSUME LockInit PROVE LockInv
  OBVIOUS
<1> QED
  BY DEF LockInit, LockInv, LockType, LockPcs, Inside

LEMMA LockStep ==
  ASSUME LockInv, [LockNext]_lk
  PROVE  LockInv'
<1> USE DEF LockInv, LockType, LockPcs, Inside
<1>1. ASSUME NEW p \in Processes, NEW t \in LockThreads, LockOpen(p, t)
      PROVE  LockInv'
  BY <1>1 DEF LockOpen
<1>2. ASSUME NEW p \in Processes, NEW t \in LockThreads, InsertLock(p, t)
      PROVE  LockInv'
  BY <1>2 DEF InsertLock
<1>3. ASSUME NEW p \in Processes, NEW t \in LockThreads, CloseUnused(p, t)
      PROVE  LockInv'
  <2>1. /\ lk'.table = lk.table /\ lk'.owner = lk.owner \ {p}
        /\ lk'.dropped = (lk.dropped \/ \E u \in LockThreads : lk.pc[p][u] = "held")
        /\ lk'.pc = [lk.pc EXCEPT ![p][t] = "idle"]
        /\ lk' \in [table: [Processes -> BOOLEAN], owner: SUBSET Processes,
                    dropped: BOOLEAN, pc: [Processes -> [LockThreads -> LockPcs]]]
    BY <1>3 DEF CloseUnused, CloseLocked
  <2>2. \A q \in Processes, u \in LockThreads :
          lk'.pc[q][u] = IF q = p /\ u = t THEN "idle" ELSE lk.pc[q][u]
    BY <2>1
  <2>3. ASSUME NEW q \in Processes, NEW u \in LockThreads, ~lk'.dropped, lk'.pc[q][u] = "held"
        PROVE  lk'.owner = {q}
    BY <2>1, <2>2, <2>3
  <2>4. \A q \in Processes, u \in LockThreads : lk'.pc[q][u] \in Inside => lk'.table[q]
    BY <2>1, <2>2
  <2> QED
    BY <2>1, <2>2, <2>3, <2>4
<1>4. ASSUME NEW p \in Processes, NEW t \in LockThreads, SetLock(p, t)
      PROVE  LockInv'
  BY <1>4 DEF SetLock
<1>5. ASSUME NEW p \in Processes, NEW t \in LockThreads, RemoveLock(p, t)
      PROVE  LockInv'
  <2>1. /\ lk'.table = [lk.table EXCEPT ![p] = FALSE] /\ lk'.owner = lk.owner \ {p}
        /\ lk'.dropped = (lk.dropped \/ \E u \in LockThreads : lk.pc[p][u] = "held")
        /\ lk'.pc = [lk.pc EXCEPT ![p][t] = "idle"]
        /\ lk' \in [table: [Processes -> BOOLEAN], owner: SUBSET Processes,
                    dropped: BOOLEAN, pc: [Processes -> [LockThreads -> LockPcs]]]
    BY <1>5 DEF RemoveLock, CloseLocked
  <2> QED
    BY <2>1, <1>5 DEF RemoveLock
<1>6. ASSUME NEW p \in Processes, NEW t \in LockThreads, Unlock(p, t)
      PROVE  LockInv'
  <2>1. /\ lk'.table = lk.table /\ lk'.owner = lk.owner \ {p}
        /\ lk'.dropped = lk.dropped
        /\ lk'.pc = [lk.pc EXCEPT ![p][t] = "unlocked"]
        /\ lk' \in [table: [Processes -> BOOLEAN], owner: SUBSET Processes,
                    dropped: BOOLEAN, pc: [Processes -> [LockThreads -> LockPcs]]]
    BY <1>6 DEF Unlock
  <2> QED
    BY <2>1, <1>6 DEF Unlock
<1>7. ASSUME NEW p \in Processes, NEW t \in LockThreads, UnlockRemove(p, t)
      PROVE  LockInv'
  BY <1>7 DEF UnlockRemove
<1>8. CASE UNCHANGED lk
  BY <1>8
<1> QED
  BY <1>1, <1>2, <1>3, <1>4, <1>5, <1>6, <1>7, <1>8 DEF LockNext

LEMMA LockInvGivesOneOwner == LockInv => OneOwner
<1> SUFFICES ASSUME LockInv PROVE OneOwner
  OBVIOUS
<1>1. ASSUME NEW p \in Processes PROVE Cardinality(Holders(p)) <= 1
  <2>1. CASE Holders(p) = {}
    BY <2>1, FS_EmptySet
  <2>2. CASE Holders(p) # {}
    <3>1. PICK t \in LockThreads : Holders(p) = {t}
      BY <2>2 DEF Holders, LockInv, Inside
    <3> QED
      BY <3>1, FS_Singleton
  <2> QED
    BY <2>1, <2>2
<1>2. ASSUME ~lk.dropped PROVE Cardinality(Owners) <= 1 /\ Owners \subseteq lk.owner
  <2>1. \A p \in Owners : lk.owner = {p}
    BY <1>2 DEF Owners, Holders, LockInv
  <2>2. CASE Owners = {}
    BY <2>2, FS_EmptySet
  <2>3. CASE Owners # {}
    <3>1. PICK p \in Owners : TRUE
      BY <2>3
    <3>2. Owners = {p} /\ lk.owner = {p}
      BY <2>1, <3>1
    <3>3. Cardinality(Owners) = 1
      BY <3>2, FS_Singleton
    <3> QED
      BY <3>2, <3>3
  <2> QED
    BY <2>2, <2>3
<1> QED
  BY <1>1, <1>2 DEF OneOwner

\* At most one thread of a process is past PosixLockTable::Insert with the lock,
\* and, unless a process closed another descriptor of the lock file while it held
\* the lock, at most one process of all is, and the kernel's lock is its own.
THEOREM DirectoryHasOneOwner == LockSpec => []OneOwner
<1>1. LockSpec => []LockInv
  BY LockInitially, LockStep, PTL DEF LockSpec
<1> QED
  BY <1>1, LockInvGivesOneOwner, PTL

-----------------------------------------------------------------------------
(* The buffered file *)

\* Numbered bytes in order, all below hi.
Run(s, hi) ==
  /\ s \in Seq(Nat)
  /\ \A i, j \in DOMAIN s : i < j => s[i] < s[j]
  /\ \A i \in DOMAIN s : s[i] < hi

LEMMA RunPrefix ==
  ASSUME NEW s, NEW hi \in Nat, Run(s, hi), NEW m \in 0..Len(s)
  PROVE  Run(SubSeq(s, 1, m), hi) /\ Len(SubSeq(s, 1, m)) = m
<1>1. s \in Seq(Nat)
  BY DEF Run
<1>2. SubSeq(s, 1, m) \in Seq(Nat) /\ Len(SubSeq(s, 1, m)) = m
  BY <1>1
<1>3. \A i \in 1..m : SubSeq(s, 1, m)[i] = s[i]
  BY <1>1
<1> QED
  BY <1>1, <1>2, <1>3 DEF Run

\* What Append adds to what has been appended before.
LEMMA RunExtend ==
  ASSUME NEW s, NEW hi \in Nat, Run(s, hi), NEW size \in Nat
  PROVE  Run(s \o [i \in 1..size |-> hi + i - 1], hi + size)
<1> DEFINE d == [i \in 1..size |-> hi + i - 1]
           x == s \o d
<1>1. s \in Seq(Nat) /\ Len(s) \in Nat
  BY DEF Run
<1>2. d \in Seq(Nat) /\ Len(d) = size /\ \A i \in 1..size : d[i] = hi + i - 1
  OBVIOUS
<1> HIDE DEF d
<1>3. x \in Seq(Nat) /\ Len(x) = Len(s) + size
  BY <1>1, <1>2, ConcatProperties
<1>4. \A i \in 1..Len(s) : x[i] = s[i] /\ x[i] < hi
  BY <1>1, <1>2 DEF Run
<1>5. \A i \in (Len(s) + 1)..(Len(s) + size) : x[i] = hi + (i - Len(s)) - 1
  BY <1>1, <1>2
<1>0. DOMAIN x = 1..(Len(s) + size) /\ DOMAIN s = 1..Len(s)
  BY <1>1, <1>3
<1> HIDE DEF x
<1>6. ASSUME NEW i \in DOMAIN x PROVE x[i] < hi + size
  <2>1. i \in 1..Len(s) \/ i \in (Len(s) + 1)..(Len(s) + size)
    BY <1>1, <1>3
  <2> QED
    BY <2>1, <1>1, <1>3, <1>4, <1>5
<1>7. ASSUME NEW i \in DOMAIN x, NEW j \in DOMAIN x, i < j PROVE x[i] < x[j]
  <2>1. CASE j \in 1..Len(s)
    <3>1. i \in DOMAIN s /\ j \in DOMAIN s /\ x[i] = s[i] /\ x[j] = s[j]
      BY <2>1, <1>0, <1>1, <1>4, <1>7
    <3> QED
      BY <3>1, <1>7 DEF Run
  <2>2. CASE j \in (Len(s) + 1)..(Len(s) + size)
    <3>1. x[j] = hi + (j - Len(s)) - 1
      BY <2>2, <1>5
    <3>2. CASE i \in 1..Len(s)
      <4>1. x[i] < hi /\ x[i] \in Nat
        BY <3>2, <1>0, <1>1, <1>4
      <4> QED
        BY <2>2, <3>1, <4>1, <1>1
    <3>3. CASE i \in (Len(s) + 1)..(Len(s) + size)
      BY <2>2, <3>1, <3>3, <1>1, <1>3, <1>5, <1>7
    <3> QED
      BY <3>2, <3>3, <1>1, <1>3
  <2> QED
    BY <2>1, <2>2, <1>1, <1>3
<1> QED
  BY <1>3, <1>6, <1>7 DEF Run, x, d

LEMMA CatPrefix ==
  ASSUME NEW a \in Seq(Nat), NEW b \in Seq(Nat), NEW n \in 0..Len(b)
  PROVE  a \o SubSeq(b, 1, n) = SubSeq(a \o b, 1, Len(a) + n)
<1> DEFINE x == a \o SubSeq(b, 1, n)
           y == SubSeq(a \o b, 1, Len(a) + n)
<1>1. x \in Seq(Nat) /\ Len(x) = Len(a) + n
  OBVIOUS
<1>2. y \in Seq(Nat) /\ Len(y) = Len(a) + n
  OBVIOUS
<1>3. ASSUME NEW i \in 1..(Len(a) + n) PROVE x[i] = y[i]
  <2>1. y[i] = (a \o b)[i]
    OBVIOUS
  <2>2. (a \o b)[i] = IF i <= Len(a) THEN a[i] ELSE b[i - Len(a)]
    BY ConcatProperties
  <2>3. SubSeq(b, 1, n) \in Seq(Nat) /\ Len(SubSeq(b, 1, n)) = n
    OBVIOUS
  <2>4. x[i] = IF i <= Len(a) THEN a[i] ELSE SubSeq(b, 1, n)[i - Len(a)]
    BY <2>3, ConcatProperties
  <2>5. i > Len(a) => SubSeq(b, 1, n)[i - Len(a)] = b[i - Len(a)]
    OBVIOUS
  <2> QED
    BY <2>1, <2>2, <2>4, <2>5
<1> QED
  BY <1>1, <1>2, <1>3, SeqEqual

LEMMA CatAssociative ==
  ASSUME NEW a \in Seq(Nat), NEW b \in Seq(Nat), NEW c \in Seq(Nat)
  PROVE  (a \o b) \o c = a \o (b \o c)
  BY ConcatAssociative

LEMMA SplitData ==
  ASSUME NEW d \in Seq(Nat), NEW n \in 0..Len(d)
  PROVE  SubSeq(d, 1, n) \o SubSeq(d, n + 1, Len(d)) = d
<1>1. Len(d) \in Nat /\ 1 \in 1..(Len(d) + 1) /\ n \in (1 - 1)..Len(d) /\ Len(d) \in n..Len(d)
  OBVIOUS
<1>2. SubSeq(d, 1, n) \o SubSeq(d, n + 1, Len(d)) = SubSeq(d, 1, Len(d))
  BY <1>1, ConcatAdjacentSubSeq
<1> QED
  BY <1>2, SubSeqFull

LEMMA Within ==
  ASSUME NEW a \in Nat, NEW b \in Nat, NEW n \in 0..b
  PROVE  a + n \in 0..(a + b)
  OBVIOUS

LEMMA PrefixOfCat ==
  ASSUME NEW a \in Seq(Nat), NEW b \in Seq(Nat), NEW m \in 0..Len(a)
  PROVE  SubSeq(a, 1, m) = SubSeq(a \o b, 1, m)
<1> DEFINE x == SubSeq(a, 1, m)
           y == SubSeq(a \o b, 1, m)
<1>1. a \o b \in Seq(Nat) /\ Len(a \o b) = Len(a) + Len(b) /\ Len(a) \in Nat /\ Len(b) \in Nat
  BY ConcatProperties
<1>2. x \in Seq(Nat) /\ Len(x) = m
  OBVIOUS
<1>3. y \in Seq(Nat) /\ Len(y) = m
  BY <1>1
<1>4. ASSUME NEW i \in 1..m PROVE x[i] = y[i]
  <2>1. x[i] = a[i]
    OBVIOUS
  <2>2. y[i] = (a \o b)[i]
    BY <1>1
  <2>3. (a \o b)[i] = a[i]
    BY ConcatProperties
  <2> QED
    BY <2>1, <2>2, <2>3
<1> QED
  BY <1>2, <1>3, <1>4, SeqEqual

\* A buffered file.
WritableFile ==
  [buf: Seq(Nat), file: Seq(Nat), next: Nat, sync: Nat, acked: Nat, appends: Nat, failed: BOOLEAN,
   manifest: BOOLEAN, dirsync: BOOLEAN, open: BOOLEAN]

\* The bytes of x up to number a are among its first s bytes.
Covered(x, a, s) == \A i \in DOMAIN x : x[i] <= a => i <= s

LEMMA CoveredPrefix ==
  ASSUME NEW x \in Seq(Nat), NEW m \in 0..Len(x), NEW a \in Nat, NEW s \in Nat, Covered(x, a, s)
  PROVE  Covered(SubSeq(x, 1, m), a, s)
<1> DEFINE y == SubSeq(x, 1, m)
<1>1. y \in Seq(Nat) /\ Len(y) = m /\ \A i \in 1..m : y[i] = x[i]
  OBVIOUS
<1>2. DOMAIN y = 1..m /\ 1..m \subseteq DOMAIN x
  BY <1>1
<1> HIDE DEF y
<1>3. Covered(y, a, s)
  BY <1>1, <1>2 DEF Covered
<1> QED
  BY <1>3 DEF y

\* Bytes numbered from n on are not among those up to a < n.
LEMMA CoveredExtend ==
  ASSUME NEW x \in Seq(Nat), NEW y \in Seq(Nat), NEW n \in Nat, NEW a \in Nat, NEW s \in Nat,
         a < n, \A i \in 1..Len(y) : y[i] >= n, Covered(x, a, s)
  PROVE  Covered(x \o y, a, s)
<1> DEFINE z == x \o y
<1>1. /\ z \in Seq(Nat) /\ Len(z) = Len(x) + Len(y) /\ Len(x) \in Nat /\ Len(y) \in Nat
      /\ \A i \in 1..Len(x) : z[i] = x[i]
      /\ \A i \in Len(x) + 1 .. Len(x) + Len(y) : z[i] = y[i - Len(x)]
  BY ConcatProperties
<1>2. DOMAIN z = 1..(Len(x) + Len(y)) /\ DOMAIN x = 1..Len(x)
  BY <1>1
<1> HIDE DEF z
<1>3. ASSUME NEW i \in DOMAIN z, z[i] <= a PROVE i <= s
  <2>1. CASE i \in 1..Len(x)
    BY <2>1, <1>1, <1>2, <1>3 DEF Covered
  <2>2. CASE i \in Len(x) + 1 .. Len(x) + Len(y)
    <3>1. i - Len(x) \in 1..Len(y) /\ z[i] = y[i - Len(x)]
      BY <2>2, <1>1
    <3>2. y[i - Len(x)] >= n /\ y[i - Len(x)] \in Nat
      BY <3>1
    <3> QED
      BY <3>1, <3>2, <1>3
  <2> QED
    BY <2>1, <2>2, <1>1, <1>2
<1>4. Covered(z, a, s)
  BY <1>3 DEF Covered
<1> QED
  BY <1>4 DEF z

All(f) == f.file \o f.buf

\* What has been appended and not lost, followed by the data r an Append still
\* has in hand, is in order, nothing is lost before a failure, and what the last
\* Sync answered for is on the device.
Pending(f, r) ==
  /\ f \in WritableFile /\ r \in Seq(Nat)
  /\ f.next > 0
  /\ Run(All(f) \o r, f.next)
  /\ ~f.failed => Len(All(f) \o r) = f.next - 1
  /\ f.acked < f.next /\ Covered(All(f) \o r, f.acked, f.sync)
  /\ Len(f.buf) <= BufferSize
  /\ f.manifest /\ f.sync > 0 => f.dirsync

\* Between two calls nothing is in hand.
FileInv(f) == Pending(f, <<>>)

LEMMA NothingInHand ==
  ASSUME NEW f \in WritableFile
  PROVE  /\ All(f) \in Seq(Nat) /\ All(f) \o <<>> = All(f)
         /\ Len(All(f)) = Len(f.file) + Len(f.buf)
         /\ f.file \in Seq(Nat) /\ f.buf \in Seq(Nat) /\ Len(f.file) \in Nat /\ Len(f.buf) \in Nat
<1>1. f.file \in Seq(Nat) /\ f.buf \in Seq(Nat)
  BY DEF WritableFile
<1>2. All(f) \in Seq(Nat) /\ Len(All(f)) = Len(f.file) + Len(f.buf)
  BY <1>1, ConcatProperties DEF All
<1> QED
  BY <1>1, <1>2, ConcatEmptySeq, LenProperties

LEMMA FileInitially == FileInit => FileInv(wf)
<1> SUFFICES ASSUME FileInit PROVE FileInv(wf)
  OBVIOUS
<1>1. PICK m \in BOOLEAN :
        wf = [buf |-> <<>>, file |-> <<>>, next |-> 1, sync |-> 0, acked |-> 0, appends |-> 0,
              failed |-> FALSE, manifest |-> m, dirsync |-> FALSE, open |-> TRUE]
  BY DEF FileInit
<1>2. wf \in WritableFile /\ wf.next = 1 /\ wf.sync = 0 /\ wf.acked = 0 /\ wf.buf = <<>> /\ wf.file = <<>>
  BY <1>1 DEF WritableFile
<1>3. All(wf) \o <<>> = <<>>
  BY <1>2 DEF All
<1>4. <<>> \in Seq(Nat) /\ Len(<<>>) = 0 /\ DOMAIN <<>> = {}
  OBVIOUS
<1>5. Run(<<>>, 1) /\ Covered(<<>>, 0, 0)
  BY <1>4 DEF Run, Covered
<1> QED
  BY <1>2, <1>3, <1>4, <1>5, EnvConstants DEF FileInv, Pending

\* The updates the operations are made of.
LEMMA SetBuffer ==
  ASSUME NEW f \in WritableFile, NEW c \in Seq(Nat)
  PROVE  LET g == [f EXCEPT !.buf = c]
         IN  /\ g \in WritableFile /\ g.buf = c /\ g.file = f.file /\ g.failed = f.failed
             /\ g.next = f.next /\ g.sync = f.sync /\ g.acked = f.acked /\ g.manifest = f.manifest
             /\ g.dirsync = f.dirsync
  BY DEF WritableFile

LEMMA Outcome ==
  ASSUME NEW d \in Seq(Nat), NEW o \in WriteOutcomes(d)
  PROVE  o.n \in 0..Len(d) /\ o.ok \in BOOLEAN /\ (o.ok => o.n = Len(d))
<1>1. CASE o = [n |-> Len(d), ok |-> TRUE]
  BY <1>1
<1>2. CASE o \in {[n |-> n, ok |-> FALSE] : n \in 0..(Len(d) - 1)}
  <2>1. PICK n \in 0..(Len(d) - 1) : o = [n |-> n, ok |-> FALSE]
    BY <1>2
  <2> QED
    BY <2>1
<1> QED
  BY <1>1, <1>2 DEF WriteOutcomes

LEMMA Written ==
  ASSUME NEW f \in WritableFile, NEW d \in Seq(Nat), NEW o \in WriteOutcomes(d)
  PROVE  LET g == WriteUnbuffered(f, d, o)
         IN  /\ g \in WritableFile /\ g.file = f.file \o SubSeq(d, 1, o.n) /\ g.buf = f.buf
             /\ g.failed = (f.failed \/ ~o.ok)
             /\ g.next = f.next /\ g.sync = f.sync /\ g.acked = f.acked /\ g.manifest = f.manifest
             /\ g.dirsync = f.dirsync
<1> DEFINE c == f.file \o SubSeq(d, 1, o.n)
           b == f.failed \/ ~o.ok
<1>1. o.n \in 0..Len(d)
  BY Outcome
<1>2. f.file \in Seq(Nat) /\ SubSeq(d, 1, o.n) \in Seq(Nat)
  BY <1>1 DEF WritableFile
<1>3. c \in Seq(Nat) /\ b \in BOOLEAN
  BY <1>2, ConcatProperties
<1>4. WriteUnbuffered(f, d, o) = [f EXCEPT !.file = c, !.failed = b]
  BY DEF WriteUnbuffered
<1> HIDE DEF c, b
<1> DEFINE g == [f EXCEPT !.file = c, !.failed = b]
<1>5. /\ g.file = c /\ g.failed = b /\ g.buf = f.buf
      /\ g.next = f.next /\ g.sync = f.sync /\ g.acked = f.acked /\ g.manifest = f.manifest
      /\ g.dirsync = f.dirsync
  BY Zenon DEF WritableFile
<1>6. g \in WritableFile
  BY <1>3 DEF WritableFile
<1> QED
  BY <1>4, <1>5, <1>6, Zenon DEF c, b

\* A prefix of what was in order is in order; less than all of it remains only
\* after a failure.
LEMMA PrefixKept ==
  ASSUME NEW f, NEW r, Pending(f, r), NEW g \in WritableFile,
         NEW m \in 0..Len(All(f) \o r),
         All(g) = SubSeq(All(f) \o r, 1, m),
         ~g.failed => ~f.failed /\ m = Len(All(f) \o r),
         g.next = f.next, g.acked = f.acked, g.sync = f.sync, Len(g.buf) <= BufferSize,
         g.manifest /\ g.sync > 0 => g.dirsync
  PROVE  FileInv(g)
<1>1. f.next \in Nat /\ Run(All(f) \o r, f.next)
  BY DEF Pending, WritableFile
<1>2. Run(All(g), g.next) /\ Len(All(g)) = m
  <2> DEFINE x == All(f) \o r
  <2>1. Run(x, f.next) /\ m \in 0..Len(x) /\ f.next \in Nat
    BY <1>1
  <2> HIDE DEF x
  <2>2. Run(SubSeq(x, 1, m), f.next) /\ Len(SubSeq(x, 1, m)) = m
    BY <2>1, RunPrefix
  <2> QED
    BY <2>2, Zenon DEF x
<1>3. All(g) \o <<>> = All(g) /\ <<>> \in Seq(Nat)
  BY NothingInHand
<1>4. ~g.failed => Len(All(g)) = g.next - 1
  BY <1>2 DEF Pending
<1>5. g.acked < g.next /\ Covered(All(g), g.acked, g.sync)
  <2> DEFINE x == All(f) \o r
  <2>1. x \in Seq(Nat) /\ m \in 0..Len(x) /\ Covered(x, f.acked, f.sync) /\ f.acked < f.next
        /\ f.acked \in Nat /\ f.sync \in Nat
    BY <1>1 DEF Pending, WritableFile, Run
  <2> HIDE DEF x
  <2>2. Covered(SubSeq(x, 1, m), f.acked, f.sync)
    BY <2>1, CoveredPrefix
  <2>3. All(g) = SubSeq(x, 1, m)
    BY DEF x
  <2> QED
    BY <2>1, <2>2, <2>3
<1> QED
  BY <1>2, <1>3, <1>4, <1>5 DEF FileInv, Pending

\* FlushBuffer keeps what is pending when it succeeds, and leaves a prefix of it
\* when it fails.
LEMMA FlushPending ==
  ASSUME NEW f, NEW r, Pending(f, r), NEW o \in WriteOutcomes(f.buf)
  PROVE  LET g == FlushBuffer(f, o)
         IN  /\ g \in WritableFile /\ g.buf = <<>>
             /\ o.ok => Pending(g, r)
             /\ ~o.ok => FileInv(g)
<1> DEFINE w == WriteUnbuffered(f, f.buf, o)
           g == [w EXCEPT !.buf = <<>>]
<1>1. f \in WritableFile /\ r \in Seq(Nat)
  BY DEF Pending
<1>2. /\ All(f) \in Seq(Nat) /\ f.file \in Seq(Nat) /\ f.buf \in Seq(Nat)
      /\ Len(All(f)) = Len(f.file) + Len(f.buf) /\ Len(f.file) \in Nat /\ Len(f.buf) \in Nat
  BY <1>1, NothingInHand
<1>3. o.n \in 0..Len(f.buf) /\ o.ok \in BOOLEAN /\ (o.ok => o.n = Len(f.buf))
  BY <1>2, Outcome
<1>4. /\ w \in WritableFile /\ w.file = f.file \o SubSeq(f.buf, 1, o.n)
      /\ w.failed = (f.failed \/ ~o.ok)
      /\ w.next = f.next /\ w.sync = f.sync /\ w.acked = f.acked /\ w.manifest = f.manifest
      /\ w.dirsync = f.dirsync
  BY <1>1, <1>2, Written
<1> HIDE DEF w
<1>5. <<>> \in Seq(Nat) /\ Len(<<>>) = 0
  OBVIOUS
<1>6. /\ g \in WritableFile /\ g.buf = <<>> /\ g.file = f.file \o SubSeq(f.buf, 1, o.n)
      /\ g.failed = (f.failed \/ ~o.ok)
      /\ g.next = f.next /\ g.sync = f.sync /\ g.acked = f.acked /\ g.manifest = f.manifest
      /\ g.dirsync = f.dirsync
  BY <1>4, <1>5, SetBuffer
<1> HIDE DEF g
<1>7. All(g) = SubSeq(All(f), 1, Len(f.file) + o.n)
  <2>1. All(g) = g.file
    BY <1>6, ConcatEmptySeq DEF All, WritableFile
  <2> QED
    BY <2>1, <1>2, <1>3, <1>6, CatPrefix DEF All
<1>8. ASSUME o.ok PROVE Pending(g, r)
  <2>1. All(g) = All(f)
    BY <1>2, <1>3, <1>7, <1>8, SubSeqFull
  <2>2. ~g.failed => ~f.failed
    BY <1>6
  <2>3. /\ Run(All(g) \o r, g.next) /\ (~g.failed => Len(All(g) \o r) = g.next - 1) /\ g.next > 0
        /\ g.acked < g.next /\ Covered(All(g) \o r, g.acked, g.sync)
    BY <2>1, <2>2, <1>6 DEF Pending
  <2>4. Len(g.buf) <= BufferSize
    BY <1>5, <1>6, EnvConstants
  <2>5. g.manifest /\ g.sync > 0 => g.dirsync
    BY <1>6 DEF Pending
  <2> QED
    BY <2>3, <2>4, <2>5, <1>1, <1>6 DEF Pending
<1>9. ASSUME ~o.ok PROVE FileInv(g)
  <2> DEFINE m == Len(f.file) + o.n
  <2>0. o.n \in 0..Len(f.buf)
    BY <1>3
  <2>1. m \in 0..Len(All(f)) /\ Len(All(f)) \in Nat
    <3>1. Len(f.file) + o.n \in 0..(Len(f.file) + Len(f.buf))
      BY <1>2, <2>0, Within
    <3>2. Len(All(f)) \in Nat
      BY <1>2, LenProperties
    <3> QED
      BY <3>1, <3>2, <1>2
  <2>2. Len(All(f) \o r) = Len(All(f)) + Len(r) /\ Len(r) \in Nat
    BY <1>1, <1>2, ConcatProperties, LenProperties
  <2>3. m \in 0..Len(All(f) \o r)
    BY <2>1, <2>2
  <2>4. SubSeq(All(f), 1, m) = SubSeq(All(f) \o r, 1, m)
    BY <1>1, <1>2, <2>1, PrefixOfCat
  <2> HIDE DEF m
  <2>5. g.failed
    BY <1>6, <1>9
  <2>6. Len(g.buf) <= BufferSize
    BY <1>5, <1>6, EnvConstants
  <2>7. g.manifest /\ g.sync > 0 => g.dirsync
    BY <1>6 DEF Pending
  <2>8. All(g) = SubSeq(All(f) \o r, 1, m) /\ g.next = f.next /\ g \in WritableFile
        /\ g.acked = f.acked /\ g.sync = f.sync
    BY <1>6, <1>7, <2>4 DEF m
  <2> QED
    BY <2>3, <2>5, <2>6, <2>7, <2>8, PrefixKept
<1> QED
  BY <1>6, <1>8, <1>9 DEF FlushBuffer, w, g

\* The last part of Append, when the rest fits the buffer that was just flushed.
LEMMA RestBuffered ==
  ASSUME NEW f, NEW r, Pending(f, r), f.buf = <<>>, Len(r) < BufferSize
  PROVE  FileInv([f EXCEPT !.buf = r])
<1> DEFINE g == [f EXCEPT !.buf = r]
<1>1. f \in WritableFile /\ r \in Seq(Nat) /\ f.file \in Seq(Nat)
  BY DEF Pending, WritableFile
<1>2. /\ g \in WritableFile /\ g.buf = r /\ g.file = f.file /\ g.failed = f.failed
      /\ g.next = f.next /\ g.sync = f.sync /\ g.acked = f.acked /\ g.manifest = f.manifest
      /\ g.dirsync = f.dirsync
  BY <1>1, SetBuffer
<1> HIDE DEF g
<1>3. All(f) = f.file
  BY <1>1, ConcatEmptySeq DEF All
<1>4. All(g) = All(f) \o r
  BY <1>2, <1>3 DEF All
<1>5. All(g) \o <<>> = All(g) /\ <<>> \in Seq(Nat)
  BY <1>2, NothingInHand
<1>6. FileInv(g)
  BY <1>1, <1>2, <1>4, <1>5, EnvConstants DEF FileInv, Pending
<1> QED
  BY <1>6 DEF g

\* The last part of Append, when the rest is written without the buffer.
LEMMA RestWritten ==
  ASSUME NEW f, NEW r, Pending(f, r), f.buf = <<>>, NEW q \in WriteOutcomes(r)
  PROVE  FileInv(WriteUnbuffered(f, r, q))
<1> DEFINE g == WriteUnbuffered(f, r, q)
           m == Len(f.file) + q.n
<1>1. f \in WritableFile /\ r \in Seq(Nat) /\ f.file \in Seq(Nat) /\ Len(r) \in Nat /\ Len(f.file) \in Nat
  BY DEF Pending, WritableFile
<1>2. q.n \in 0..Len(r) /\ q.ok \in BOOLEAN /\ (q.ok => q.n = Len(r))
  BY <1>1, Outcome
<1>3. /\ g \in WritableFile /\ g.file = f.file \o SubSeq(r, 1, q.n) /\ g.buf = <<>>
      /\ g.failed = (f.failed \/ ~q.ok)
      /\ g.next = f.next /\ g.sync = f.sync /\ g.acked = f.acked /\ g.manifest = f.manifest
      /\ g.dirsync = f.dirsync
  BY <1>1, Written
<1> HIDE DEF g
<1>4. All(f) = f.file /\ All(g) = g.file
  BY <1>1, <1>3, ConcatEmptySeq DEF All, WritableFile
<1>5. All(g) = SubSeq(All(f) \o r, 1, m)
  BY <1>1, <1>2, <1>3, <1>4, CatPrefix
<1>6. Len(All(f) \o r) = Len(f.file) + Len(r)
  BY <1>1, <1>4, ConcatProperties
<1>7. m \in 0..Len(All(f) \o r) /\ (q.ok => m = Len(All(f) \o r))
  <2>1. q.n \in 0..Len(r)
    BY <1>2
  <2>2. m \in 0..Len(All(f) \o r)
    BY <1>1, <2>1, <1>6, Within
  <2>3. q.ok => m = Len(All(f) \o r)
    BY <1>2, <1>6
  <2> QED
    BY <2>2, <2>3
<1> HIDE DEF m
<1>8. /\ ~g.failed => ~f.failed /\ m = Len(All(f) \o r)
      /\ Len(g.buf) <= BufferSize
      /\ g.manifest /\ g.sync > 0 => g.dirsync
  BY <1>1, <1>2, <1>3, <1>7, EnvConstants DEF Pending
<1>9. FileInv(g)
  BY <1>3, <1>5, <1>7, <1>8, PrefixKept
<1> QED
  BY <1>9 DEF g

\* Append: the part that fits goes to the buffer; the rest waits for a flush.
LEMMA AppendKeeps ==
  ASSUME FileInv(wf), NEW size \in AppendSizes, AppendData(size)
  PROVE  FileInv(wf')
<1> DEFINE data == [i \in 1..size |-> wf.next + i - 1]
           copy == Min({size, BufferSize - Len(wf.buf)})
           head == SubSeq(data, 1, copy)
           more == wf.buf \o head
           f    == [wf EXCEPT !.buf = more, !.next = @ + size, !.appends = @ + 1]
           rest == SubSeq(data, copy + 1, size)
<1>1. /\ wf \in WritableFile /\ wf.next \in Nat /\ wf.appends \in Nat /\ Len(wf.buf) <= BufferSize
      /\ wf.next > 0
  BY DEF FileInv, Pending, WritableFile
<1>2. /\ All(wf) \in Seq(Nat) /\ All(wf) \o <<>> = All(wf)
      /\ wf.file \in Seq(Nat) /\ wf.buf \in Seq(Nat) /\ Len(wf.buf) \in Nat
  BY <1>1, NothingInHand
<1>3. size \in Nat /\ BufferSize \in Nat
  BY EnvConstants
<1>4. data \in Seq(Nat) /\ Len(data) = size
  BY <1>1, <1>3
<1>18. \A i \in 1..Len(data) : data[i] >= wf.next
  BY <1>1, <1>3, <1>4
<1>5. Run(All(wf) \o data, wf.next + size)
  BY <1>1, <1>2, <1>3, RunExtend DEF FileInv, Pending
<1>6. ~wf.failed => Len(All(wf) \o data) = (wf.next + size) - 1
  <2> HIDE DEF data
  <2>1. Len(All(wf) \o data) = Len(All(wf)) + size
    BY <1>2, <1>4, ConcatProperties
  <2>2. ~wf.failed => Len(All(wf)) = wf.next - 1
    BY <1>2 DEF FileInv, Pending
  <2> QED
    BY <2>1, <2>2, <1>1, <1>3
<1>7. copy \in 0..size /\ Len(wf.buf) + copy <= BufferSize
  <2>1. copy = IF size <= BufferSize - Len(wf.buf) THEN size ELSE BufferSize - Len(wf.buf)
    BY <1>1, <1>2, <1>3 DEF Min
  <2> QED
    BY <2>1, <1>1, <1>2, <1>3
<1> HIDE DEF data, copy
<1>8. head \in Seq(Nat) /\ Len(head) = copy /\ rest \in Seq(Nat)
  BY <1>3, <1>4, <1>7
<1>9. head \o rest = data
  BY <1>4, <1>7, SplitData
<1> HIDE DEF head, rest
<1>10. more \in Seq(Nat) /\ Len(more) <= BufferSize
  BY <1>2, <1>7, <1>8, ConcatProperties
<1>11. (wf.file \o more) \o rest = All(wf) \o data
  <2>1. wf.file \o more = All(wf) \o head
    BY <1>2, <1>8, CatAssociative DEF All
  <2>2. (All(wf) \o head) \o rest = All(wf) \o (head \o rest)
    BY <1>2, <1>8, CatAssociative
  <2> QED
    BY <2>1, <2>2, <1>9
<1>12. /\ wf.open /\ wf.appends < MaxAppends
       /\ IF rest = <<>> THEN wf' = f
          ELSE \E o \in WriteOutcomes(f.buf) :
                 LET g == FlushBuffer(f, o)
                 IN  IF ~o.ok THEN wf' = g
                     ELSE IF Len(rest) < BufferSize THEN wf' = [g EXCEPT !.buf = rest]
                     ELSE \E q \in WriteOutcomes(rest) : wf' = WriteUnbuffered(g, rest, q)
  BY DEF AppendData, data, copy, head, rest
<1> HIDE DEF more
<1>13. /\ f.buf = more /\ f.file = wf.file /\ f.next = wf.next + size
       /\ f.failed = wf.failed /\ f.manifest = wf.manifest /\ f.sync = wf.sync /\ f.acked = wf.acked
       /\ f.dirsync = wf.dirsync
  BY <1>1, Zenon DEF WritableFile
<1>14. f \in WritableFile
  <2> DEFINE n == wf.next + size
             a == wf.appends + 1
  <2>1. n \in Nat /\ a \in Nat
    BY <1>1, <1>3
  <2>2. f = [wf EXCEPT !.buf = more, !.next = n, !.appends = a]
    OBVIOUS
  <2> HIDE DEF n, a, f
  <2> QED
    BY <2>1, <2>2, <1>1, <1>10 DEF WritableFile
<1> HIDE DEF f
<1>15. Pending(f, rest)
  <2>1. All(f) \o rest = All(wf) \o data
    BY <1>11, <1>13 DEF All
  <2>2. Run(All(f) \o rest, f.next) /\ (~f.failed => Len(All(f) \o rest) = f.next - 1)
    <3>1. Run(All(f) \o rest, f.next)
      BY <2>1, <1>5, <1>13
    <3>2. ~f.failed => Len(All(f) \o rest) = f.next - 1
      <4>0. f.failed = wf.failed /\ f.next = wf.next + size
        BY <1>13, Zenon
      <4>1. f.failed = wf.failed /\ f.next - 1 = (wf.next + size) - 1
        BY <4>0, Zenon
      <4>2. ~wf.failed => Len(All(f) \o rest) = (wf.next + size) - 1
        BY <2>1, <1>6, Zenon
      <4> QED
        BY <4>1, <4>2, Zenon
    <3> QED
      BY <3>1, <3>2
  <2>3. f.next > 0
    BY <1>1, <1>3, <1>13
  <2>4. f.manifest /\ f.sync > 0 => f.dirsync
    BY <1>13 DEF FileInv, Pending
  <2>5. Len(f.buf) <= BufferSize
    BY <1>10, <1>13
  <2>6. f.acked < f.next /\ Covered(All(f) \o rest, f.acked, f.sync)
    <3>1. wf.acked \in Nat /\ wf.sync \in Nat /\ wf.acked < wf.next /\ Covered(All(wf), wf.acked, wf.sync)
      BY <1>2 DEF FileInv, Pending, WritableFile
    <3>2. Covered(All(wf) \o data, wf.acked, wf.sync)
      BY <3>1, <1>1, <1>2, <1>4, <1>18, CoveredExtend
    <3>3. wf.acked < wf.next + size
      BY <3>1, <1>1, <1>3
    <3> QED
      BY <2>1, <3>2, <3>3, <1>13
  <2> QED
    BY <2>2, <2>3, <2>4, <2>5, <2>6, <1>8, <1>14 DEF Pending
<1>16. CASE rest = <<>>
  BY <1>12, <1>15, <1>16 DEF FileInv
<1>17. CASE rest # <<>>
  <2>1. PICK o \in WriteOutcomes(f.buf) :
           IF ~o.ok THEN wf' = FlushBuffer(f, o)
           ELSE IF Len(rest) < BufferSize THEN wf' = [FlushBuffer(f, o) EXCEPT !.buf = rest]
           ELSE \E q \in WriteOutcomes(rest) : wf' = WriteUnbuffered(FlushBuffer(f, o), rest, q)
    BY <1>12, <1>17
  <2> DEFINE g == FlushBuffer(f, o)
  <2>2. g.buf = <<>> /\ (o.ok => Pending(g, rest)) /\ (~o.ok => FileInv(g))
    BY <1>15, FlushPending
  <2> HIDE DEF g
  <2>3. CASE ~o.ok
    BY <2>1, <2>2, <2>3 DEF g
  <2>4. CASE o.ok /\ Len(rest) < BufferSize
    BY <2>1, <2>2, <2>4, RestBuffered DEF g
  <2>5. CASE o.ok /\ ~(Len(rest) < BufferSize)
    BY <2>1, <2>2, <2>5, RestWritten DEF g
  <2> QED
    BY <2>3, <2>4, <2>5
<1> QED
  BY <1>16, <1>17

LEMMA FlushKeeps ==
  ASSUME NEW f, FileInv(f), NEW o \in WriteOutcomes(f.buf)
  PROVE  FileInv(FlushBuffer(f, o))
  BY FlushPending DEF FileInv

\* A file that differs from f only in what the invariant does not look at.
LEMMA SameBytes ==
  ASSUME NEW f, FileInv(f), NEW g \in WritableFile, g.buf = f.buf, g.file = f.file,
         g.next = f.next, ~g.failed => ~f.failed, g.acked = f.acked, g.sync = f.sync,
         g.manifest /\ g.sync > 0 => g.dirsync
  PROVE  FileInv(g)
<1>1. All(g) = All(f)
  BY DEF All
<1> QED
  BY <1>1 DEF FileInv, Pending

LEMMA SyncKeeps == FileInv(wf) /\ SyncFile => FileInv(wf')
<1> SUFFICES ASSUME FileInv(wf), SyncFile PROVE FileInv(wf')
  OBVIOUS
<1> DEFINE d == [wf EXCEPT !.dirsync = wf.manifest]
<1>1. wf \in WritableFile
  BY DEF FileInv, Pending
<1>2. /\ d \in WritableFile /\ d.buf = wf.buf /\ d.file = wf.file /\ d.next = wf.next
      /\ d.failed = wf.failed /\ d.manifest = wf.manifest /\ d.dirsync = wf.manifest
      /\ d.acked = wf.acked /\ d.sync = wf.sync
  BY <1>1 DEF WritableFile
<1>3. PICK o \in WriteOutcomes(wf.buf) :
        wf' = IF o.ok THEN [FlushBuffer(d, o) EXCEPT !.sync = Len(FlushBuffer(d, o).file),
                                                    !.acked = FlushBuffer(d, o).next - 1]
              ELSE FlushBuffer(d, o)
  BY DEF SyncFile
<1> HIDE DEF d
<1>4. FileInv(d)
  BY <1>2, SameBytes
<1> DEFINE g == FlushBuffer(d, o)
<1>5. /\ FileInv(g) /\ g \in WritableFile /\ g.manifest = d.manifest /\ g.dirsync = d.dirsync
      /\ g.buf = <<>>
  <2>1. FileInv(g)
    BY <1>2, <1>4, FlushKeeps
  <2>2. g.manifest = d.manifest /\ g.dirsync = d.dirsync
    BY <1>2 DEF FlushBuffer, WriteUnbuffered, WritableFile
  <2>3. g.buf = <<>>
    BY <1>2, <1>4, FlushPending DEF FileInv
  <2> QED
    BY <2>1, <2>2, <2>3 DEF FileInv, Pending
<1> HIDE DEF g
<1> DEFINE h == [g EXCEPT !.sync = Len(g.file), !.acked = g.next - 1]
<1>6. Len(g.file) \in Nat /\ g.next - 1 \in Nat /\ g.next - 1 < g.next
  BY <1>5, NothingInHand DEF FileInv, Pending, WritableFile
<1>7. /\ h \in WritableFile /\ h.buf = g.buf /\ h.file = g.file /\ h.next = g.next
      /\ h.failed = g.failed /\ h.manifest = g.manifest /\ h.dirsync = g.dirsync
      /\ h.sync = Len(g.file) /\ h.acked = g.next - 1
  <2> DEFINE s == Len(g.file)
             a == g.next - 1
  <2>1. s \in Nat /\ a \in Nat
    BY <1>6
  <2>2. h = [g EXCEPT !.sync = s, !.acked = a]
    OBVIOUS
  <2> HIDE DEF s, a, h
  <2>3. /\ h \in WritableFile /\ h.buf = g.buf /\ h.file = g.file /\ h.next = g.next
        /\ h.failed = g.failed /\ h.manifest = g.manifest /\ h.dirsync = g.dirsync
        /\ h.sync = s /\ h.acked = a
    BY <2>1, <2>2, <1>5 DEF WritableFile
  <2> QED
    BY <2>3 DEF s, a
<1> HIDE DEF h
<1>8. FileInv(h)
  \* The buffer is empty, so every byte there is lies within the synced part.
  <2>1. All(h) = All(g) /\ All(g) \in Seq(Nat) /\ Len(All(g)) = Len(g.file) /\ All(g) \o <<>> = All(g)
    <3>1. All(h) = All(g)
      BY <1>7 DEF All
    <3>2. Len(<<>>) = 0
      OBVIOUS
    <3>3. /\ All(g) \in Seq(Nat) /\ All(g) \o <<>> = All(g)
          /\ Len(All(g)) = Len(g.file) + Len(g.buf)
      BY <1>5, NothingInHand
    <3>4. Len(All(g)) = Len(g.file)
      BY <3>2, <3>3, <1>5, <1>6
    <3> QED
      BY <3>1, <3>3, <3>4
  <2>2. \A i \in DOMAIN All(g) : i <= Len(g.file)
    BY <2>1, <1>6
  <2>3. Covered(All(h) \o <<>>, h.acked, h.sync)
    BY <2>1, <2>2, <1>7 DEF Covered
  <2>4. h.acked < h.next
    BY <1>6, <1>7
  <2>5. /\ g.next > 0 /\ Run(All(g), g.next) /\ (~g.failed => Len(All(g)) = g.next - 1)
        /\ Len(g.buf) <= BufferSize
    BY <1>5, <2>1 DEF FileInv, Pending
  <2>6. h.manifest /\ h.sync > 0 => h.dirsync
    BY <1>2, <1>5, <1>7
  <2>7. <<>> \in Seq(Nat)
    OBVIOUS
  <2> QED
    BY <2>1, <2>3, <2>4, <2>5, <2>6, <2>7, <1>7 DEF FileInv, Pending
<1>9. wf' = h \/ wf' = g
  BY <1>3 DEF g, h
<1> QED
  BY <1>5, <1>8, <1>9

LEMMA SyncFailsKeeps == FileInv(wf) /\ SyncFails => FileInv(wf')
<1> SUFFICES ASSUME FileInv(wf), SyncFails PROVE FileInv(wf')
  OBVIOUS
<1>0. ASSUME NEW f, FileInv(f) PROVE FileInv([f EXCEPT !.failed = TRUE])
  <2> DEFINE g == [f EXCEPT !.failed = TRUE]
  <2>1. f \in WritableFile
    BY <1>0 DEF FileInv, Pending
  <2>2. /\ g \in WritableFile /\ g.buf = f.buf /\ g.file = f.file /\ g.next = f.next
        /\ g.failed /\ g.manifest = f.manifest /\ g.dirsync = f.dirsync /\ g.sync = f.sync /\ g.acked = f.acked
    BY <2>1 DEF WritableFile
  <2>3. f.manifest /\ f.sync > 0 => f.dirsync
    BY <1>0 DEF FileInv, Pending
  <2> HIDE DEF g
  <2>4. FileInv(g)
    BY <1>0, <2>2, <2>3, SameBytes
  <2> QED
    BY <2>4 DEF g
<1> DEFINE d == [wf EXCEPT !.dirsync = wf.manifest]
<1>1. wf \in WritableFile
  BY DEF FileInv, Pending
<1>2. /\ d \in WritableFile /\ d.buf = wf.buf /\ d.file = wf.file /\ d.next = wf.next
      /\ d.failed = wf.failed /\ d.manifest = wf.manifest /\ d.dirsync = wf.manifest
      /\ d.acked = wf.acked /\ d.sync = wf.sync
  BY <1>1 DEF WritableFile
<1>3. CASE wf' = [wf EXCEPT !.failed = TRUE]
  BY <1>0, <1>3
<1>4. CASE \E o \in WriteOutcomes(wf.buf) : o.ok /\ wf' = [FlushBuffer(d, o) EXCEPT !.failed = TRUE]
  <2>1. PICK o \in WriteOutcomes(wf.buf) : wf' = [FlushBuffer(d, o) EXCEPT !.failed = TRUE]
    BY <1>4
  <2> HIDE DEF d
  <2>2. FileInv(d)
    BY <1>2, SameBytes
  <2>3. FileInv(FlushBuffer(d, o))
    BY <1>2, <2>2, FlushKeeps
  <2> QED
    BY <2>1, <2>3, <1>0
<1> QED
  BY <1>3, <1>4 DEF SyncFails

LEMMA CloseKeeps == FileInv(wf) /\ CloseWritable => FileInv(wf')
<1> SUFFICES ASSUME FileInv(wf), CloseWritable PROVE FileInv(wf')
  OBVIOUS
<1>1. PICK o \in WriteOutcomes(wf.buf) : wf' = [FlushBuffer(wf, o) EXCEPT !.open = FALSE]
  BY DEF CloseWritable
<1> DEFINE f == FlushBuffer(wf, o)
           g == [f EXCEPT !.open = FALSE]
<1>2. FileInv(f)
  BY FlushKeeps
<1> HIDE DEF f
<1>3. f \in WritableFile /\ (f.manifest /\ f.sync > 0 => f.dirsync)
  BY <1>2 DEF FileInv, Pending
<1>4. /\ g \in WritableFile /\ g.buf = f.buf /\ g.file = f.file /\ g.next = f.next
      /\ g.failed = f.failed /\ g.manifest = f.manifest /\ g.dirsync = f.dirsync /\ g.sync = f.sync /\ g.acked = f.acked
  BY <1>3 DEF WritableFile
<1> HIDE DEF g
<1>5. FileInv(g)
  BY <1>2, <1>3, <1>4, SameBytes
<1> QED
  BY <1>1, <1>5 DEF f, g

WfInv == FileInv(wf)

LEMMA FileStep == WfInv /\ [FileNext]_wf => WfInv'
<1> SUFFICES ASSUME FileInv(wf), [FileNext]_wf PROVE FileInv(wf')
  BY DEF WfInv
<1>1. ASSUME NEW n \in AppendSizes, AppendData(n) PROVE FileInv(wf')
  BY <1>1, AppendKeeps
<1>2. ASSUME FlushFile PROVE FileInv(wf')
  BY <1>2, FlushKeeps DEF FlushFile
<1> QED
  BY <1>1, <1>2, SyncKeeps, SyncFailsKeeps, CloseKeeps DEF FileNext

\* However appends, flushes, syncs and failed writes alternate, the bytes of the
\* file and of the buffer behind it are in the order of the Append calls, none
\* twice, none is missing until a call has failed, and every one of them appended
\* before a Sync that returned ok is on the device (PosixWritableFile).
THEOREM BytesStayInOrder == FileSpec => []FileInOrder
<1>0. FileInit => WfInv
  BY FileInitially DEF WfInv
<1>1. FileSpec => []WfInv
  BY <1>0, FileStep, PTL DEF FileSpec
<1>2. WfInv => FileInOrder
  <2> SUFFICES ASSUME FileInv(wf) PROVE FileInOrder
    BY DEF WfInv
  <2>1. All(wf) \o <<>> = All(wf)
    BY NothingInHand DEF FileInv, Pending
  <2> QED
    BY <2>1 DEF FileInv, Pending, FileInOrder, Run, Covered, All
<1> QED
  BY <1>1, <1>2, PTL

-----------------------------------------------------------------------------
(* The limits *)

LimPcs == {"idle", "mmap", "map", "mmap_back", "fd", "keep", "fd_back", "temporary", "reading"}
Kinds == {"mmap", "fd", "temp"}

\* A thread that is opening a file has room for it.
LimType ==
  /\ lim \in [mmaps: Int, fds: Int, open: Int, pc: [Openers -> LimPcs], files: [Openers -> Seq(Kinds)]]
  /\ \A t \in Openers :
        /\ NumberOpen(t) <= MaxOpenTables
        /\ lim.pc[t] \notin {"idle", "reading"} => NumberOpen(t) < MaxOpenTables

Opening == {"mmap", "mmap_back", "map", "fd", "fd_back", "keep", "temporary", "reading"}

\* The permits are accounted for, and those granted (a map or a descriptor that a
\* thread is about to make permanent included) are within the limits.
LimInv ==
  /\ LimType
  /\ Cardinality(FilesOf("mmap")) + Cardinality(At({"map"})) <= MaxMmaps
  /\ Cardinality(FilesOf("fd")) + Cardinality(At({"keep"})) <= MaxOpenFiles
  /\ lim.mmaps = MaxMmaps - Cardinality(FilesOf("mmap")) - Cardinality(At({"map", "mmap_back"}))
  /\ lim.fds = MaxOpenFiles - Cardinality(FilesOf("fd")) - Cardinality(At({"keep", "fd_back"}))
  /\ lim.open = Cardinality(FilesOf("fd")) + Cardinality(At(Opening))

LEMMA AtFinite ==
  ASSUME NEW P
  PROVE  IsFiniteSet(At(P)) /\ Cardinality(At(P)) \in Nat
<1>1. At(P) \in SUBSET Openers
  BY DEF At
<1>2. IsFiniteSet(At(P))
  BY <1>1, FS_Subset, EnvConstants
<1> QED
  BY <1>2, FS_CardinalityType

LEMMA FilesFinite ==
  ASSUME NEW k
  PROVE  IsFiniteSet(FilesOf(k)) /\ Cardinality(FilesOf(k)) \in Nat
<1>1. FilesOf(k) \in SUBSET (Openers \X (1..MaxOpenTables))
  BY DEF FilesOf
<1>2. IsFiniteSet(1..MaxOpenTables)
  BY FS_Interval, EnvConstants
<1>3. IsFiniteSet(Openers \X (1..MaxOpenTables))
  BY <1>2, FS_Product, EnvConstants
<1>4. IsFiniteSet(FilesOf(k))
  BY <1>1, <1>3, FS_Subset
<1> QED
  BY <1>4, FS_CardinalityType

\* A step of thread t moves it out of one set of places and into another.
LEMMA PcMoves ==
  ASSUME LimType, NEW t \in Openers, NEW q \in LimPcs,
         lim'.pc = [lim.pc EXCEPT ![t] = q], NEW P
  PROVE  Cardinality(At(P)') = Cardinality(At(P)) - (IF lim.pc[t] \in P THEN 1 ELSE 0)
                                                  + (IF q \in P THEN 1 ELSE 0)
<1> DEFINE S == At(P)
           R == S \ {t}
<1>1. IsFiniteSet(S) /\ Cardinality(S) \in Nat
  BY AtFinite
<1>2. IsFiniteSet(R) /\ Cardinality(R) = Cardinality(S) - (IF lim.pc[t] \in P THEN 1 ELSE 0)
  <2>1. t \in S <=> lim.pc[t] \in P
    BY DEF At
  <2> HIDE DEF S
  <2> QED
    BY <2>1, <1>1, FS_RemoveElement
<1>3. At(P)' = IF q \in P THEN R \cup {t} ELSE R
  BY DEF At, LimType
<1>4. Cardinality(R \cup {t}) = Cardinality(R) + 1
  <2> HIDE DEF S
  <2> QED
    BY <1>2, FS_AddElement
<1> HIDE DEF S, R
<1>5. Cardinality(R) \in Int
  BY <1>1, <1>2
<1> QED
  BY <1>1, <1>2, <1>3, <1>4, <1>5 DEF S

LEMMA FilesStay ==
  ASSUME lim'.files = lim.files, NEW k
  PROVE  FilesOf(k)' = FilesOf(k)
  BY DEF FilesOf, NumberOpen

LEMMA FilesGrow ==
  ASSUME LimType, NEW t \in Openers, NumberOpen(t) < MaxOpenTables, NEW m \in Kinds,
         lim'.files = [lim.files EXCEPT ![t] = Append(lim.files[t], m)], NEW k
  PROVE  Cardinality(FilesOf(k)') = Cardinality(FilesOf(k)) + (IF m = k THEN 1 ELSE 0)
<1> DEFINE n == Len(lim.files[t]) + 1
           S == FilesOf(k)
<1>1. lim.files[t] \in Seq(Kinds) /\ n \in 1..MaxOpenTables
  BY EnvConstants DEF LimType, NumberOpen
<1>2. /\ lim'.files[t] = Append(lim.files[t], m)
      /\ \A u \in Openers : u # t => lim'.files[u] = lim.files[u]
  BY DEF LimType
<1>3. /\ Len(lim'.files[t]) = n /\ lim'.files[t][n] = m
      /\ \A i \in 1..Len(lim.files[t]) : lim'.files[t][i] = lim.files[t][i]
  BY <1>1, <1>2
<1>4. <<t, n>> \notin S
  BY <1>1 DEF FilesOf, NumberOpen
<1>5. S' = IF m = k THEN S \cup {<<t, n>>} ELSE S
  <2>1. ASSUME NEW f \in Openers \X (1..MaxOpenTables)
        PROVE  f \in S' <=> f \in S \/ (m = k /\ f = <<t, n>>)
    <3>1. f = <<f[1], f[2]>> /\ f[1] \in Openers /\ f[2] \in 1..MaxOpenTables
      OBVIOUS
    <3>2. CASE f[1] # t
      BY <3>1, <3>2, <1>2 DEF FilesOf, NumberOpen
    <3>3. CASE f[1] = t /\ f[2] = n
      BY <3>1, <3>3, <1>1, <1>3 DEF FilesOf, NumberOpen
    <3>4. CASE f[1] = t /\ f[2] < n
      BY <3>1, <3>4, <1>1, <1>3 DEF FilesOf, NumberOpen
    <3>5. CASE f[1] = t /\ f[2] > n
      BY <3>1, <3>5, <1>1, <1>3 DEF FilesOf, NumberOpen
    <3> QED
      BY <3>1, <3>2, <3>3, <3>4, <3>5, <1>1
  <2>2. S' \subseteq Openers \X (1..MaxOpenTables) /\ S \subseteq Openers \X (1..MaxOpenTables)
    BY DEF FilesOf
  <2>3. <<t, n>> \in Openers \X (1..MaxOpenTables)
    BY <1>1
  <2> HIDE DEF S, n
  <2> QED
    BY <2>1, <2>2, <2>3
<1>6. IsFiniteSet(S) /\ Cardinality(S) \in Nat
  BY FilesFinite
<1> HIDE DEF S, n
<1>7. Cardinality(S \cup {<<t, n>>}) = Cardinality(S) + 1
  BY <1>4, <1>6, FS_AddElement
<1> QED
  BY <1>5, <1>6, <1>7 DEF S

LEMMA Removed ==
  ASSUME NEW s \in Seq(Kinds), NEW i \in 1..Len(s)
  PROVE  /\ RemoveAt(s, i) \in Seq(Kinds) /\ Len(RemoveAt(s, i)) = Len(s) - 1
         /\ \A j \in 1..(Len(s) - 1) : RemoveAt(s, i)[j] = IF j < i THEN s[j] ELSE s[j + 1]
<1> DEFINE a == SubSeq(s, 1, i - 1)
           b == SubSeq(s, i + 1, Len(s))
<1>1. a \in Seq(Kinds) /\ Len(a) = i - 1 /\ \A j \in 1..(i - 1) : a[j] = s[j]
  OBVIOUS
<1>2. b \in Seq(Kinds) /\ Len(b) = Len(s) - i /\ \A j \in 1..(Len(s) - i) : b[j] = s[i + j]
  OBVIOUS
<1> HIDE DEF a, b
<1>3. a \o b \in Seq(Kinds) /\ Len(a \o b) = Len(s) - 1
  <2>1. a \o b \in Seq(Kinds) /\ Len(a \o b) = Len(a) + Len(b)
    BY <1>1, <1>2, ConcatProperties
  <2>2. Len(a) + Len(b) = Len(s) - 1
    BY <1>1, <1>2
  <2> QED
    BY <2>1, <2>2
<1>4. ASSUME NEW j \in 1..(Len(s) - 1) PROVE (a \o b)[j] = IF j < i THEN s[j] ELSE s[j + 1]
  <2>1. j \in Int /\ i \in Int /\ Len(s) \in Nat
    OBVIOUS
  <2>2. (a \o b)[j] = IF j <= Len(a) THEN a[j] ELSE b[j - Len(a)]
    BY <1>1, <1>2, ConcatProperties
  <2>3. CASE j < i
    BY <2>1, <2>2, <2>3, <1>1
  <2>4. CASE ~(j < i)
    <3>1. j - Len(a) \in 1..(Len(s) - i) /\ ~(j <= Len(a)) /\ i + (j - Len(a)) = j + 1
      BY <2>1, <2>4, <1>1
    <3> QED
      BY <2>2, <2>4, <3>1, <1>2
  <2> QED
    BY <2>3, <2>4
<1> QED
  BY <1>3, <1>4 DEF RemoveAt, a, b

\* The destructor of a file: the files behind it move up one place.
LEMMA FilesShrink ==
  ASSUME LimType, NEW t \in Openers, NEW i \in 1..NumberOpen(t),
         lim'.files = [lim.files EXCEPT ![t] = RemoveAt(lim.files[t], i)], NEW k
  PROVE  Cardinality(FilesOf(k)') = Cardinality(FilesOf(k)) - (IF lim.files[t][i] = k THEN 1 ELSE 0)
<1> DEFINE s == lim.files[t]
           S == FilesOf(k)
           R == S \ {<<t, i>>}
           N == S'
           up(f) == IF f[1] = t /\ f[2] >= i THEN <<f[1], f[2] + 1>> ELSE f
           h == [f \in N |-> up(f)]
<1>1. s \in Seq(Kinds) /\ i \in 1..Len(s) /\ Len(s) <= MaxOpenTables /\ MaxOpenTables \in Nat
  BY EnvConstants DEF LimType, NumberOpen
<1>2. /\ lim'.files[t] = RemoveAt(s, i)
      /\ \A u \in Openers : u # t => lim'.files[u] = lim.files[u]
  BY DEF LimType
<1>3. /\ Len(lim'.files[t]) = Len(s) - 1
      /\ \A j \in 1..(Len(s) - 1) : lim'.files[t][j] = IF j < i THEN s[j] ELSE s[j + 1]
  <2> HIDE DEF s
  <2>1. /\ Len(RemoveAt(s, i)) = Len(s) - 1
        /\ \A j \in 1..(Len(s) - 1) : RemoveAt(s, i)[j] = IF j < i THEN s[j] ELSE s[j + 1]
    BY <1>1, Removed
  <2> QED
    BY <2>1, <1>2
<1>4. IsFiniteSet(S) /\ Cardinality(S) \in Nat
  BY FilesFinite
<1>5. <<t, i>> \in S <=> s[i] = k
  BY <1>1 DEF FilesOf, NumberOpen
<1>6. IsFiniteSet(R) /\ Cardinality(R) = Cardinality(S) - (IF s[i] = k THEN 1 ELSE 0)
  <2> HIDE DEF S, s
  <2> QED
    BY <1>4, <1>5, FS_RemoveElement
<1>7. \A f \in N : /\ f[1] \in Openers /\ f[2] \in 1..MaxOpenTables /\ f = <<f[1], f[2]>>
                   /\ f[2] <= Len(lim'.files[f[1]]) /\ lim'.files[f[1]][f[2]] = k
  BY DEF FilesOf, NumberOpen
<1>8. \A u \in Openers, j \in 1..MaxOpenTables :
         <<u, j>> \in N <=> j <= Len(lim'.files[u]) /\ lim'.files[u][j] = k
  BY DEF FilesOf, NumberOpen
<1>9. \A u \in Openers, j \in 1..MaxOpenTables :
         <<u, j>> \in S <=> j <= Len(lim.files[u]) /\ lim.files[u][j] = k
  BY DEF FilesOf, NumberOpen
<1>10. \A f \in S : f[1] \in Openers /\ f[2] \in 1..MaxOpenTables /\ f = <<f[1], f[2]>>
  BY DEF FilesOf
<1> HIDE DEF N, S, s
<1>11. ASSUME NEW f \in N PROVE up(f) \in R
  <2>1. CASE f[1] # t
    BY <2>1, <1>2, <1>7, <1>9
  <2>2. CASE f[1] = t /\ f[2] < i
    BY <2>2, <1>1, <1>3, <1>7, <1>9 DEF s
  <2>3. CASE f[1] = t /\ f[2] >= i
    <3>1. f[2] \in 1..(Len(s) - 1) /\ f[2] + 1 \in 1..MaxOpenTables /\ f[2] + 1 <= Len(s) /\ f[2] + 1 # i
      BY <2>3, <1>1, <1>3, <1>7
    <3>2. s[f[2] + 1] = k
      <4>1. lim'.files[t][f[2]] = k
        BY <2>3, <1>7
      <4>2. lim'.files[t][f[2]] = s[f[2] + 1]
        BY <2>3, <3>1, <1>1, <1>3
      <4> QED
        BY <4>1, <4>2
    <3>3. <<t, f[2] + 1>> \in S
      BY <3>1, <3>2, <1>9 DEF s
    <3> QED
      BY <2>3, <3>1, <3>3
  <2> QED
    BY <2>1, <2>2, <2>3, <1>7, <1>1
<1>12. ASSUME NEW f \in N, NEW g \in N, up(f) = up(g) PROVE f = g
  <2>1. f = <<f[1], f[2]>> /\ g = <<g[1], g[2]>> /\ f[2] \in Int /\ g[2] \in Int /\ i \in Int
    BY <1>7
  <2>2. CASE f[1] = t /\ f[2] >= i /\ g[1] = t /\ g[2] >= i
    BY <2>1, <2>2, <1>12
  <2>3. CASE ~(f[1] = t /\ f[2] >= i) /\ ~(g[1] = t /\ g[2] >= i)
    BY <2>3, <1>12
  <2>4. CASE f[1] = t /\ f[2] >= i /\ ~(g[1] = t /\ g[2] >= i)
    BY <2>1, <2>4, <1>12
  <2>5. CASE ~(f[1] = t /\ f[2] >= i) /\ g[1] = t /\ g[2] >= i
    BY <2>1, <2>5, <1>12
  <2> QED
    BY <2>2, <2>3, <2>4, <2>5
<1>13. ASSUME NEW g \in R PROVE \E f \in N : up(f) = g
  <2>1. /\ g \in S /\ g[1] \in Openers /\ g[2] \in 1..MaxOpenTables /\ g = <<g[1], g[2]>>
        /\ g[2] <= Len(lim.files[g[1]]) /\ lim.files[g[1]][g[2]] = k
    BY <1>9, <1>10
  <2>2. CASE g[1] # t
    BY <2>1, <2>2, <1>2, <1>8
  <2>3. CASE g[1] = t /\ g[2] < i
    <3>1. g[2] <= Len(s) - 1 /\ lim'.files[t][g[2]] = s[g[2]]
      BY <2>1, <2>3, <1>1, <1>3
    <3>2. g \in N
      BY <2>1, <2>3, <3>1, <1>3, <1>8 DEF s
    <3> QED
      BY <3>2, <2>1, <2>3, <1>1
  <2>4. CASE g[1] = t /\ g[2] > i
    <3> DEFINE j == g[2] - 1
    <3>1. j \in 1..(Len(s) - 1) /\ j \in 1..MaxOpenTables /\ j >= i /\ j + 1 = g[2]
      BY <2>1, <2>4, <1>1 DEF s
    <3>2. lim'.files[t][j] = k
      BY <3>1, <2>1, <2>4, <1>1, <1>3 DEF s
    <3>3. <<t, j>> \in N
      BY <3>1, <3>2, <1>1, <1>3, <1>8
    <3> HIDE DEF j
    <3>4. up(<<t, j>>) = g
      BY <3>1, <2>1, <2>4
    <3> QED
      BY <3>3, <3>4
  <2>5. g[1] = t => g[2] # i
    BY <2>1
  <2> QED
    BY <2>1, <2>2, <2>3, <2>4, <2>5, <1>1
<1> HIDE DEF up, R
<1>14. h \in [N -> R] /\ \A f \in N : h[f] = up(f)
  BY <1>11
<1> HIDE DEF h
<1>15. /\ \A f, g \in N : h[f] = h[g] => f = g
       /\ \A g \in R : \E f \in N : h[f] = g
  BY <1>12, <1>13, <1>14
<1>16. h \in Bijection(N, R)
  BY <1>14, <1>15, Fun_IsBij
<1>17. ExistsBijection(R, N)
  BY <1>16, Fun_ExistsBij, Fun_ExistsBijSymmetric
<1>18. Cardinality(N) = Cardinality(R)
  BY <1>6, <1>17, FS_Bijection
<1> QED
  BY <1>6, <1>18 DEF N, S, s

LEMMA LimInitially == LimInit => LimInv
<1> SUFFICES ASSUME LimInit PROVE LimInv
  OBVIOUS
<1>1. LimType
  <2>1. <<>> \in Seq(Kinds) /\ Len(<<>>) = 0
    OBVIOUS
  <2> QED
    BY <2>1, EnvConstants DEF LimInit, LimType, LimPcs, NumberOpen
<1>2. \A k : FilesOf(k) = {}
  BY DEF LimInit, FilesOf, NumberOpen
<1>3. At({"map"}) = {} /\ At({"keep"}) = {} /\ At({"map", "mmap_back"}) = {}
      /\ At({"keep", "fd_back"}) = {} /\ At(Opening) = {}
  BY DEF LimInit, At, Opening
<1>4. lim.mmaps = MaxMmaps /\ lim.fds = MaxOpenFiles /\ lim.open = 0
  BY DEF LimInit
<1>5. Cardinality({}) = 0 /\ FilesOf("mmap") = {} /\ FilesOf("fd") = {}
  BY <1>2, FS_EmptySet
<1>6. /\ Cardinality(FilesOf("mmap")) = 0 /\ Cardinality(FilesOf("fd")) = 0
      /\ Cardinality(At({"map"})) = 0 /\ Cardinality(At({"keep"})) = 0
      /\ Cardinality(At({"map", "mmap_back"})) = 0 /\ Cardinality(At({"keep", "fd_back"})) = 0
      /\ Cardinality(At(Opening)) = 0
  BY <1>3, <1>5, Zenon
<1> QED
  BY <1>1, <1>4, <1>6, EnvConstants DEF LimInv

\* A step that moves thread t from p to q.
Moves(t, p, q) == lim.pc[t] = p /\ lim'.pc = [lim.pc EXCEPT ![t] = q]

LEMMA PcCounts ==
  ASSUME LimType, NEW t \in Openers, NEW p \in LimPcs, NEW q \in LimPcs, Moves(t, p, q), NEW P
  PROVE  /\ Cardinality(At(P)) \in Nat
         /\ Cardinality(At(P)') = Cardinality(At(P)) - (IF p \in P THEN 1 ELSE 0)
                                                     + (IF q \in P THEN 1 ELSE 0)
  BY PcMoves, AtFinite DEF Moves

\* The accounts of a step that moves a thread from p to q and changes the numbers
\* of maps and of permanent descriptors by dm and df.
Balanced(p, q, dm, df) ==
  LET in(x, P) == IF x \in P THEN 1 ELSE 0
      mm == {"map", "mmap_back"}
      fd == {"keep", "fd_back"}
  IN  /\ \/ dm + in(q, {"map"}) - in(p, {"map"}) <= 0
         \/ lim.mmaps > 0 /\ dm = 0
      /\ \/ df + in(q, {"keep"}) - in(p, {"keep"}) <= 0
         \/ lim.fds > 0 /\ df = 0
      /\ lim'.mmaps = lim.mmaps - dm - in(q, mm) + in(p, mm)
      /\ lim'.fds = lim.fds - df - in(q, fd) + in(p, fd)
      /\ lim'.open = lim.open + df + in(q, Opening) - in(p, Opening)

FilesChange(dm, df) ==
  /\ Cardinality(FilesOf("mmap")') = Cardinality(FilesOf("mmap")) + dm
  /\ Cardinality(FilesOf("fd")') = Cardinality(FilesOf("fd")) + df

LEMMA Accounts ==
  ASSUME LimInv, LimType', NEW t \in Openers, NEW p \in LimPcs, NEW q \in LimPcs, Moves(t, p, q),
         NEW dm \in Int, NEW df \in Int, FilesChange(dm, df), Balanced(p, q, dm, df)
  PROVE  LimInv'
<1> DEFINE in(x, P) == IF x \in P THEN 1 ELSE 0
           mm == {"map", "mmap_back"}
           fd == {"keep", "fd_back"}
<1>1. LimType
  BY DEF LimInv
<1>2. \A P \in SUBSET LimPcs : /\ Cardinality(At(P)) \in Nat
                               /\ Cardinality(At(P)') = Cardinality(At(P)) - in(p, P) + in(q, P)
  BY <1>1, PcCounts
<1>3. {"map"} \in SUBSET LimPcs /\ {"keep"} \in SUBSET LimPcs /\ mm \in SUBSET LimPcs
      /\ fd \in SUBSET LimPcs /\ Opening \in SUBSET LimPcs
  BY DEF LimPcs, Opening
<1>4. /\ Cardinality(FilesOf("mmap")) \in Nat /\ Cardinality(FilesOf("fd")) \in Nat
  BY FilesFinite
<1>5. Cardinality(At({"map"})) <= Cardinality(At(mm)) /\ Cardinality(At({"keep"})) <= Cardinality(At(fd))
  <2>1. At({"map"}) \in SUBSET At(mm) /\ At({"keep"}) \in SUBSET At(fd)
    BY DEF At
  <2>2. IsFiniteSet(At(mm)) /\ IsFiniteSet(At(fd))
    BY AtFinite
  <2> QED
    BY <2>1, <2>2, FS_Subset
<1>6. /\ in(p, {"map"}) \in 0..1 /\ in(q, {"map"}) \in 0..1 /\ in(p, {"keep"}) \in 0..1 /\ in(q, {"keep"}) \in 0..1
      /\ in(p, mm) \in 0..1 /\ in(q, mm) \in 0..1 /\ in(p, fd) \in 0..1 /\ in(q, fd) \in 0..1
      /\ in(p, Opening) \in 0..1 /\ in(q, Opening) \in 0..1
  OBVIOUS
<1> DEFINE M == Cardinality(FilesOf("mmap"))
           F == Cardinality(FilesOf("fd"))
           A1 == Cardinality(At({"map"}))
           A2 == Cardinality(At({"keep"}))
           A3 == Cardinality(At(mm))
           A4 == Cardinality(At(fd))
           A5 == Cardinality(At(Opening))
<1>7. /\ A1 \in Nat /\ A2 \in Nat /\ A3 \in Nat /\ A4 \in Nat /\ A5 \in Nat
      /\ A1' = A1 - in(p, {"map"}) + in(q, {"map"})
      /\ A2' = A2 - in(p, {"keep"}) + in(q, {"keep"})
      /\ A3' = A3 - in(p, mm) + in(q, mm)
      /\ A4' = A4 - in(p, fd) + in(q, fd)
      /\ A5' = A5 - in(p, Opening) + in(q, Opening)
  BY <1>2, <1>3
<1>8. /\ M + A1 <= MaxMmaps /\ F + A2 <= MaxOpenFiles
      /\ lim.mmaps = MaxMmaps - M - A3 /\ lim.fds = MaxOpenFiles - F - A4 /\ lim.open = F + A5
  BY DEF LimInv
<1>9. M' = M + dm /\ F' = F + df /\ M \in Nat /\ F \in Nat /\ A1 <= A3 /\ A2 <= A4
  BY <1>4, <1>5 DEF FilesChange
<1> HIDE DEF M, F, A1, A2, A3, A4, A5, in, mm, fd
<1>10. /\ M' + A1' <= MaxMmaps /\ F' + A2' <= MaxOpenFiles
       /\ lim'.mmaps = MaxMmaps - M' - A3' /\ lim'.fds = MaxOpenFiles - F' - A4' /\ lim'.open = F' + A5'
  <2>0. /\ \/ dm + in(q, {"map"}) - in(p, {"map"}) <= 0
           \/ lim.mmaps > 0 /\ dm = 0
        /\ \/ df + in(q, {"keep"}) - in(p, {"keep"}) <= 0
           \/ lim.fds > 0 /\ df = 0
        /\ lim'.mmaps = lim.mmaps - dm - in(q, mm) + in(p, mm)
        /\ lim'.fds = lim.fds - df - in(q, fd) + in(p, fd)
        /\ lim'.open = lim.open + df + in(q, Opening) - in(p, Opening)
    BY DEF Balanced, in, mm, fd
  <2>1. M' + A1' <= MaxMmaps
    BY <2>0, <1>6, <1>7, <1>8, <1>9, EnvConstants
  <2>2. F' + A2' <= MaxOpenFiles
    BY <2>0, <1>6, <1>7, <1>8, <1>9, EnvConstants
  <2>3. lim'.mmaps = MaxMmaps - M' - A3'
    BY <2>0, <1>6, <1>7, <1>8, <1>9, EnvConstants
  <2>4. lim'.fds = MaxOpenFiles - F' - A4'
    BY <2>0, <1>6, <1>7, <1>8, <1>9, EnvConstants
  <2>5. lim'.open = F' + A5'
    BY <2>0, <1>6, <1>7, <1>8, <1>9, EnvConstants
  <2> QED
    BY <2>1, <2>2, <2>3, <2>4, <2>5
<1> QED
  BY <1>10 DEF LimInv, M, F, A1, A2, A3, A4, A5, mm, fd

\* A step of thread t to q.
Goes(t, q, m, f, o, fs) ==
  lim' = [lim EXCEPT !.mmaps = m, !.fds = f, !.open = o, !.pc[t] = q, !.files = fs]

LEMMA LimRecord ==
  ASSUME LimType, NEW t \in Openers, NEW q \in LimPcs, NEW m \in Int, NEW f \in Int, NEW o \in Int,
         NEW fs \in [Openers -> Seq(Kinds)],
         Goes(t, q, m, f, o, fs)
  PROVE  /\ lim' \in [mmaps: Int, fds: Int, open: Int, pc: [Openers -> LimPcs],
                      files: [Openers -> Seq(Kinds)]]
         /\ lim'.mmaps = m /\ lim'.fds = f /\ lim'.open = o /\ lim'.files = fs
         /\ lim'.pc = [lim.pc EXCEPT ![t] = q]
  BY DEF LimType, Goes

LEMMA TypeStays ==
  ASSUME LimType, NEW t \in Openers, NEW q \in LimPcs,
         lim' \in [mmaps: Int, fds: Int, open: Int, pc: [Openers -> LimPcs],
                   files: [Openers -> Seq(Kinds)]],
         lim'.pc = [lim.pc EXCEPT ![t] = q], lim'.files = lim.files,
         q \notin {"idle", "reading"} => NumberOpen(t) < MaxOpenTables
  PROVE  LimType'
  BY DEF LimType, NumberOpen

LEMMA TypeGrows ==
  ASSUME LimType, NEW t \in Openers, NEW m \in Kinds, NumberOpen(t) < MaxOpenTables,
         lim' \in [mmaps: Int, fds: Int, open: Int, pc: [Openers -> LimPcs],
                   files: [Openers -> Seq(Kinds)]],
         lim'.pc = [lim.pc EXCEPT ![t] = "idle"],
         lim'.files = [lim.files EXCEPT ![t] = Append(lim.files[t], m)]
  PROVE  LimType'
<1>1. lim.files[t] \in Seq(Kinds) /\ lim.files \in [Openers -> Seq(Kinds)]
  BY DEF LimType
<1>2. ASSUME NEW u \in Openers
      PROVE  /\ Len(lim'.files[u]) <= MaxOpenTables
             /\ lim'.pc[u] \notin {"idle", "reading"} => Len(lim'.files[u]) < MaxOpenTables
  <2>1. CASE u = t
    <3>1. Len(lim'.files[t]) = Len(lim.files[t]) + 1 /\ Len(lim.files[t]) \in Nat
      BY <1>1
    <3>2. lim'.pc[t] = "idle"
      BY DEF LimType
    <3> QED
      BY <2>1, <3>1, <3>2, EnvConstants DEF NumberOpen
  <2>2. CASE u # t
    BY <2>2, <1>1 DEF LimType, NumberOpen
  <2> QED
    BY <2>1, <2>2
<1> QED
  BY <1>2 DEF LimType, NumberOpen

LEMMA StayChange ==
  ASSUME lim'.files = lim.files
  PROVE  FilesChange(0, 0)
<1>1. Cardinality(FilesOf("mmap")) \in Nat /\ Cardinality(FilesOf("fd")) \in Nat
  BY FilesFinite
<1> QED
  BY <1>1, FilesStay DEF FilesChange

LEMMA OpenFileKeeps ==
  ASSUME LimInv, LimType, NEW t \in Openers, OpenFile(t)
  PROVE  LimInv'
<1> DEFINE fs == lim.files
           m == lim.mmaps
           f == lim.fds
           o == lim.open + 1
<1>1. lim.mmaps \in Int /\ lim.fds \in Int /\ lim.open \in Int /\ lim.files \in [Openers -> Seq(Kinds)]
  BY DEF LimType
<1>2. Goes(t, "mmap", m, f, o, fs)
  BY DEF OpenFile, LimType, Goes
<1>0. m \in Int /\ f \in Int /\ o \in Int
  BY <1>1
<1>3. fs \in [Openers -> Seq(Kinds)] /\ "idle" \in LimPcs /\ "mmap" \in LimPcs
  BY <1>1 DEF Kinds, LimPcs
<1> HIDE DEF fs, m, f, o
<1>4. /\ lim' \in [mmaps: Int, fds: Int, open: Int, pc: [Openers -> LimPcs],
                   files: [Openers -> Seq(Kinds)]]
      /\ lim'.mmaps = m /\ lim'.fds = f /\ lim'.open = o
      /\ lim'.files = fs /\ lim'.pc = [lim.pc EXCEPT ![t] = "mmap"]
  BY <1>0, <1>2, <1>3, LimRecord
<1>5. Moves(t, "idle", "mmap") /\ NumberOpen(t) < MaxOpenTables
  BY <1>4 DEF OpenFile, Moves, LimType
<1>6. LimType'
  BY <1>3, <1>4, <1>5, TypeStays DEF fs
<1>7. FilesChange(0, 0)
  BY <1>4, StayChange DEF fs
<1>8. Balanced("idle", "mmap", 0, 0)
  BY <1>1, <1>4 DEF Balanced, Opening, m, f, o
<1> QED
  BY <1>3, <1>5, <1>6, <1>7, <1>8, Accounts

LEMMA MmapBackKeeps ==
  ASSUME LimInv, LimType, NEW t \in Openers, MmapBack(t)
  PROVE  LimInv'
<1> DEFINE fs == lim.files
           m == lim.mmaps + 1
           f == lim.fds
           o == lim.open
<1>1. lim.mmaps \in Int /\ lim.fds \in Int /\ lim.open \in Int /\ lim.files \in [Openers -> Seq(Kinds)]
  BY DEF LimType
<1>2. Goes(t, "fd", m, f, o, fs)
  BY DEF MmapBack, LimType, Goes
<1>0. m \in Int /\ f \in Int /\ o \in Int
  BY <1>1
<1>3. fs \in [Openers -> Seq(Kinds)] /\ "mmap_back" \in LimPcs /\ "fd" \in LimPcs
  BY <1>1 DEF Kinds, LimPcs
<1> HIDE DEF fs, m, f, o
<1>4. /\ lim' \in [mmaps: Int, fds: Int, open: Int, pc: [Openers -> LimPcs],
                   files: [Openers -> Seq(Kinds)]]
      /\ lim'.mmaps = m /\ lim'.fds = f /\ lim'.open = o
      /\ lim'.files = fs /\ lim'.pc = [lim.pc EXCEPT ![t] = "fd"]
  BY <1>0, <1>2, <1>3, LimRecord
<1>5. Moves(t, "mmap_back", "fd") /\ NumberOpen(t) < MaxOpenTables
  BY <1>4 DEF MmapBack, Moves, LimType
<1>6. LimType'
  BY <1>3, <1>4, <1>5, TypeStays DEF fs
<1>7. FilesChange(0, 0)
  BY <1>4, StayChange DEF fs
<1>8. Balanced("mmap_back", "fd", 0, 0)
  BY <1>1, <1>4 DEF Balanced, Opening, m, f, o
<1> QED
  BY <1>3, <1>5, <1>6, <1>7, <1>8, Accounts

LEMMA FdBackKeeps ==
  ASSUME LimInv, LimType, NEW t \in Openers, FdBack(t)
  PROVE  LimInv'
<1> DEFINE fs == lim.files
           m == lim.mmaps
           f == lim.fds + 1
           o == lim.open
<1>1. lim.mmaps \in Int /\ lim.fds \in Int /\ lim.open \in Int /\ lim.files \in [Openers -> Seq(Kinds)]
  BY DEF LimType
<1>2. Goes(t, "temporary", m, f, o, fs)
  BY DEF FdBack, LimType, Goes
<1>0. m \in Int /\ f \in Int /\ o \in Int
  BY <1>1
<1>3. fs \in [Openers -> Seq(Kinds)] /\ "fd_back" \in LimPcs /\ "temporary" \in LimPcs
  BY <1>1 DEF Kinds, LimPcs
<1> HIDE DEF fs, m, f, o
<1>4. /\ lim' \in [mmaps: Int, fds: Int, open: Int, pc: [Openers -> LimPcs],
                   files: [Openers -> Seq(Kinds)]]
      /\ lim'.mmaps = m /\ lim'.fds = f /\ lim'.open = o
      /\ lim'.files = fs /\ lim'.pc = [lim.pc EXCEPT ![t] = "temporary"]
  BY <1>0, <1>2, <1>3, LimRecord
<1>5. Moves(t, "fd_back", "temporary") /\ NumberOpen(t) < MaxOpenTables
  BY <1>4 DEF FdBack, Moves, LimType
<1>6. LimType'
  BY <1>3, <1>4, <1>5, TypeStays DEF fs
<1>7. FilesChange(0, 0)
  BY <1>4, StayChange DEF fs
<1>8. Balanced("fd_back", "temporary", 0, 0)
  BY <1>1, <1>4 DEF Balanced, Opening, m, f, o
<1> QED
  BY <1>3, <1>5, <1>6, <1>7, <1>8, Accounts

LEMMA MapFileKeeps ==
  ASSUME LimInv, LimType, NEW t \in Openers, MapFile(t)
  PROVE  LimInv'
<1> DEFINE fs == [lim.files EXCEPT ![t] = Append(lim.files[t], "mmap")]
           m == lim.mmaps
           f == lim.fds
           o == lim.open - 1
<1>1. lim.mmaps \in Int /\ lim.fds \in Int /\ lim.open \in Int /\ lim.files \in [Openers -> Seq(Kinds)]
  BY DEF LimType
<1>2. Goes(t, "idle", m, f, o, fs)
  BY DEF MapFile, LimType, Goes
<1>0. m \in Int /\ f \in Int /\ o \in Int
  BY <1>1
<1>3. fs \in [Openers -> Seq(Kinds)] /\ "map" \in LimPcs /\ "idle" \in LimPcs
  BY <1>1 DEF Kinds, LimPcs
<1> HIDE DEF fs, m, f, o
<1>4. /\ lim' \in [mmaps: Int, fds: Int, open: Int, pc: [Openers -> LimPcs],
                   files: [Openers -> Seq(Kinds)]]
      /\ lim'.mmaps = m /\ lim'.fds = f /\ lim'.open = o
      /\ lim'.files = fs /\ lim'.pc = [lim.pc EXCEPT ![t] = "idle"]
  BY <1>0, <1>2, <1>3, LimRecord
<1>5. Moves(t, "map", "idle") /\ NumberOpen(t) < MaxOpenTables
  BY <1>4 DEF MapFile, Moves, LimType
<1>6. LimType'
  BY <1>4, <1>5, TypeGrows DEF fs, Kinds
<1>7. FilesChange(1, 0)
  BY <1>4, <1>5, FilesGrow, FilesFinite DEF FilesChange, fs, Kinds
<1>8. Balanced("map", "idle", 1, 0)
  BY <1>1, <1>4 DEF Balanced, Opening, m, f, o
<1> QED
  BY <1>3, <1>5, <1>6, <1>7, <1>8, Accounts

LEMMA MapFailsKeeps ==
  ASSUME LimInv, LimType, NEW t \in Openers, MapFails(t)
  PROVE  LimInv'
<1> DEFINE fs == lim.files
           m == lim.mmaps + 1
           f == lim.fds
           o == lim.open - 1
<1>1. lim.mmaps \in Int /\ lim.fds \in Int /\ lim.open \in Int /\ lim.files \in [Openers -> Seq(Kinds)]
  BY DEF LimType
<1>2. Goes(t, "idle", m, f, o, fs)
  BY DEF MapFails, LimType, Goes
<1>0. m \in Int /\ f \in Int /\ o \in Int
  BY <1>1
<1>3. fs \in [Openers -> Seq(Kinds)] /\ "map" \in LimPcs /\ "idle" \in LimPcs
  BY <1>1 DEF Kinds, LimPcs
<1> HIDE DEF fs, m, f, o
<1>4. /\ lim' \in [mmaps: Int, fds: Int, open: Int, pc: [Openers -> LimPcs],
                   files: [Openers -> Seq(Kinds)]]
      /\ lim'.mmaps = m /\ lim'.fds = f /\ lim'.open = o
      /\ lim'.files = fs /\ lim'.pc = [lim.pc EXCEPT ![t] = "idle"]
  BY <1>0, <1>2, <1>3, LimRecord
<1>5. Moves(t, "map", "idle") /\ NumberOpen(t) < MaxOpenTables
  BY <1>4 DEF MapFails, Moves, LimType
<1>6. LimType'
  BY <1>3, <1>4, <1>5, TypeStays DEF fs
<1>7. FilesChange(0, 0)
  BY <1>4, StayChange DEF fs
<1>8. Balanced("map", "idle", 0, 0)
  BY <1>1, <1>4 DEF Balanced, Opening, m, f, o
<1> QED
  BY <1>3, <1>5, <1>6, <1>7, <1>8, Accounts

LEMMA KeepFdKeeps ==
  ASSUME LimInv, LimType, NEW t \in Openers, KeepFd(t)
  PROVE  LimInv'
<1> DEFINE fs == [lim.files EXCEPT ![t] = Append(lim.files[t], "fd")]
           m == lim.mmaps
           f == lim.fds
           o == lim.open
<1>1. lim.mmaps \in Int /\ lim.fds \in Int /\ lim.open \in Int /\ lim.files \in [Openers -> Seq(Kinds)]
  BY DEF LimType
<1>2. Goes(t, "idle", m, f, o, fs)
  BY DEF KeepFd, LimType, Goes
<1>0. m \in Int /\ f \in Int /\ o \in Int
  BY <1>1
<1>3. fs \in [Openers -> Seq(Kinds)] /\ "keep" \in LimPcs /\ "idle" \in LimPcs
  BY <1>1 DEF Kinds, LimPcs
<1> HIDE DEF fs, m, f, o
<1>4. /\ lim' \in [mmaps: Int, fds: Int, open: Int, pc: [Openers -> LimPcs],
                   files: [Openers -> Seq(Kinds)]]
      /\ lim'.mmaps = m /\ lim'.fds = f /\ lim'.open = o
      /\ lim'.files = fs /\ lim'.pc = [lim.pc EXCEPT ![t] = "idle"]
  BY <1>0, <1>2, <1>3, LimRecord
<1>5. Moves(t, "keep", "idle") /\ NumberOpen(t) < MaxOpenTables
  BY <1>4 DEF KeepFd, Moves, LimType
<1>6. LimType'
  BY <1>4, <1>5, TypeGrows DEF fs, Kinds
<1>7. FilesChange(0, 1)
  BY <1>4, <1>5, FilesGrow, FilesFinite DEF FilesChange, fs, Kinds
<1>8. Balanced("keep", "idle", 0, 1)
  BY <1>1, <1>4 DEF Balanced, Opening, m, f, o
<1> QED
  BY <1>3, <1>5, <1>6, <1>7, <1>8, Accounts

LEMMA OpenPerReadKeeps ==
  ASSUME LimInv, LimType, NEW t \in Openers, OpenPerRead(t)
  PROVE  LimInv'
<1> DEFINE fs == [lim.files EXCEPT ![t] = Append(lim.files[t], "temp")]
           m == lim.mmaps
           f == lim.fds
           o == lim.open - 1
<1>1. lim.mmaps \in Int /\ lim.fds \in Int /\ lim.open \in Int /\ lim.files \in [Openers -> Seq(Kinds)]
  BY DEF LimType
<1>2. Goes(t, "idle", m, f, o, fs)
  BY DEF OpenPerRead, LimType, Goes
<1>0. m \in Int /\ f \in Int /\ o \in Int
  BY <1>1
<1>3. fs \in [Openers -> Seq(Kinds)] /\ "temporary" \in LimPcs /\ "idle" \in LimPcs
  BY <1>1 DEF Kinds, LimPcs
<1> HIDE DEF fs, m, f, o
<1>4. /\ lim' \in [mmaps: Int, fds: Int, open: Int, pc: [Openers -> LimPcs],
                   files: [Openers -> Seq(Kinds)]]
      /\ lim'.mmaps = m /\ lim'.fds = f /\ lim'.open = o
      /\ lim'.files = fs /\ lim'.pc = [lim.pc EXCEPT ![t] = "idle"]
  BY <1>0, <1>2, <1>3, LimRecord
<1>5. Moves(t, "temporary", "idle") /\ NumberOpen(t) < MaxOpenTables
  BY <1>4 DEF OpenPerRead, Moves, LimType
<1>6. LimType'
  BY <1>4, <1>5, TypeGrows DEF fs, Kinds
<1>7. FilesChange(0, 0)
  BY <1>4, <1>5, FilesGrow, FilesFinite DEF FilesChange, fs, Kinds
<1>8. Balanced("temporary", "idle", 0, 0)
  BY <1>1, <1>4 DEF Balanced, Opening, m, f, o
<1> QED
  BY <1>3, <1>5, <1>6, <1>7, <1>8, Accounts

LEMMA AcquireMmapGranted ==
  ASSUME LimInv, LimType, NEW t \in Openers, AcquireMmap(t), lim.mmaps > 0
  PROVE  LimInv'
<1> DEFINE fs == lim.files
           m == lim.mmaps - 1
           f == lim.fds
           o == lim.open
<1>1. lim.mmaps \in Int /\ lim.fds \in Int /\ lim.open \in Int /\ lim.files \in [Openers -> Seq(Kinds)]
  BY DEF LimType
<1>2. Goes(t, "map", m, f, o, fs)
  BY DEF AcquireMmap, LimType, Goes
<1>0. m \in Int /\ f \in Int /\ o \in Int
  BY <1>1
<1>3. fs \in [Openers -> Seq(Kinds)] /\ "mmap" \in LimPcs /\ "map" \in LimPcs
  BY <1>1 DEF Kinds, LimPcs
<1> HIDE DEF fs, m, f, o
<1>4. /\ lim' \in [mmaps: Int, fds: Int, open: Int, pc: [Openers -> LimPcs],
                   files: [Openers -> Seq(Kinds)]]
      /\ lim'.mmaps = m /\ lim'.fds = f /\ lim'.open = o
      /\ lim'.files = fs /\ lim'.pc = [lim.pc EXCEPT ![t] = "map"]
  BY <1>0, <1>2, <1>3, LimRecord
<1>5. Moves(t, "mmap", "map") /\ NumberOpen(t) < MaxOpenTables
  BY <1>4 DEF AcquireMmap, Moves, LimType
<1>6. LimType'
  BY <1>3, <1>4, <1>5, TypeStays DEF fs
<1>7. FilesChange(0, 0)
  BY <1>4, StayChange DEF fs
<1>8. Balanced("mmap", "map", 0, 0)
  BY <1>1, <1>4 DEF Balanced, Opening, m, f, o
<1> QED
  BY <1>3, <1>5, <1>6, <1>7, <1>8, Accounts

LEMMA AcquireMmapRefused ==
  ASSUME LimInv, LimType, NEW t \in Openers, AcquireMmap(t), ~(lim.mmaps > 0)
  PROVE  LimInv'
<1> DEFINE fs == lim.files
           m == lim.mmaps - 1
           f == lim.fds
           o == lim.open
<1>1. lim.mmaps \in Int /\ lim.fds \in Int /\ lim.open \in Int /\ lim.files \in [Openers -> Seq(Kinds)]
  BY DEF LimType
<1>2. Goes(t, "mmap_back", m, f, o, fs)
  BY DEF AcquireMmap, LimType, Goes
<1>0. m \in Int /\ f \in Int /\ o \in Int
  BY <1>1
<1>3. fs \in [Openers -> Seq(Kinds)] /\ "mmap" \in LimPcs /\ "mmap_back" \in LimPcs
  BY <1>1 DEF Kinds, LimPcs
<1> HIDE DEF fs, m, f, o
<1>4. /\ lim' \in [mmaps: Int, fds: Int, open: Int, pc: [Openers -> LimPcs],
                   files: [Openers -> Seq(Kinds)]]
      /\ lim'.mmaps = m /\ lim'.fds = f /\ lim'.open = o
      /\ lim'.files = fs /\ lim'.pc = [lim.pc EXCEPT ![t] = "mmap_back"]
  BY <1>0, <1>2, <1>3, LimRecord
<1>5. Moves(t, "mmap", "mmap_back") /\ NumberOpen(t) < MaxOpenTables
  BY <1>4 DEF AcquireMmap, Moves, LimType
<1>6. LimType'
  BY <1>3, <1>4, <1>5, TypeStays DEF fs
<1>7. FilesChange(0, 0)
  BY <1>4, StayChange DEF fs
<1>8. Balanced("mmap", "mmap_back", 0, 0)
  BY <1>1, <1>4 DEF Balanced, Opening, m, f, o
<1> QED
  BY <1>3, <1>5, <1>6, <1>7, <1>8, Accounts

LEMMA AcquireFdGranted ==
  ASSUME LimInv, LimType, NEW t \in Openers, AcquireFd(t), lim.fds > 0
  PROVE  LimInv'
<1> DEFINE fs == lim.files
           m == lim.mmaps
           f == lim.fds - 1
           o == lim.open
<1>1. lim.mmaps \in Int /\ lim.fds \in Int /\ lim.open \in Int /\ lim.files \in [Openers -> Seq(Kinds)]
  BY DEF LimType
<1>2. Goes(t, "keep", m, f, o, fs)
  BY DEF AcquireFd, LimType, Goes
<1>0. m \in Int /\ f \in Int /\ o \in Int
  BY <1>1
<1>3. fs \in [Openers -> Seq(Kinds)] /\ "fd" \in LimPcs /\ "keep" \in LimPcs
  BY <1>1 DEF Kinds, LimPcs
<1> HIDE DEF fs, m, f, o
<1>4. /\ lim' \in [mmaps: Int, fds: Int, open: Int, pc: [Openers -> LimPcs],
                   files: [Openers -> Seq(Kinds)]]
      /\ lim'.mmaps = m /\ lim'.fds = f /\ lim'.open = o
      /\ lim'.files = fs /\ lim'.pc = [lim.pc EXCEPT ![t] = "keep"]
  BY <1>0, <1>2, <1>3, LimRecord
<1>5. Moves(t, "fd", "keep") /\ NumberOpen(t) < MaxOpenTables
  BY <1>4 DEF AcquireFd, Moves, LimType
<1>6. LimType'
  BY <1>3, <1>4, <1>5, TypeStays DEF fs
<1>7. FilesChange(0, 0)
  BY <1>4, StayChange DEF fs
<1>8. Balanced("fd", "keep", 0, 0)
  BY <1>1, <1>4 DEF Balanced, Opening, m, f, o
<1> QED
  BY <1>3, <1>5, <1>6, <1>7, <1>8, Accounts

LEMMA AcquireFdRefused ==
  ASSUME LimInv, LimType, NEW t \in Openers, AcquireFd(t), ~(lim.fds > 0)
  PROVE  LimInv'
<1> DEFINE fs == lim.files
           m == lim.mmaps
           f == lim.fds - 1
           o == lim.open
<1>1. lim.mmaps \in Int /\ lim.fds \in Int /\ lim.open \in Int /\ lim.files \in [Openers -> Seq(Kinds)]
  BY DEF LimType
<1>2. Goes(t, "fd_back", m, f, o, fs)
  BY DEF AcquireFd, LimType, Goes
<1>0. m \in Int /\ f \in Int /\ o \in Int
  BY <1>1
<1>3. fs \in [Openers -> Seq(Kinds)] /\ "fd" \in LimPcs /\ "fd_back" \in LimPcs
  BY <1>1 DEF Kinds, LimPcs
<1> HIDE DEF fs, m, f, o
<1>4. /\ lim' \in [mmaps: Int, fds: Int, open: Int, pc: [Openers -> LimPcs],
                   files: [Openers -> Seq(Kinds)]]
      /\ lim'.mmaps = m /\ lim'.fds = f /\ lim'.open = o
      /\ lim'.files = fs /\ lim'.pc = [lim.pc EXCEPT ![t] = "fd_back"]
  BY <1>0, <1>2, <1>3, LimRecord
<1>5. Moves(t, "fd", "fd_back") /\ NumberOpen(t) < MaxOpenTables
  BY <1>4 DEF AcquireFd, Moves, LimType
<1>6. LimType'
  BY <1>3, <1>4, <1>5, TypeStays DEF fs
<1>7. FilesChange(0, 0)
  BY <1>4, StayChange DEF fs
<1>8. Balanced("fd", "fd_back", 0, 0)
  BY <1>1, <1>4 DEF Balanced, Opening, m, f, o
<1> QED
  BY <1>3, <1>5, <1>6, <1>7, <1>8, Accounts

LEMMA ReadOpens ==
  ASSUME LimInv, LimType, NEW t \in Openers, ReadTemporary(t), lim.pc[t] = "idle"
  PROVE  LimInv'
<1> DEFINE fs == lim.files
           m == lim.mmaps
           f == lim.fds
           o == lim.open + 1
<1>1. lim.mmaps \in Int /\ lim.fds \in Int /\ lim.open \in Int /\ lim.files \in [Openers -> Seq(Kinds)]
  BY DEF LimType
<1>2. Goes(t, "reading", m, f, o, fs)
  BY DEF LimType, Goes, ReadTemporary
<1>0. m \in Int /\ f \in Int /\ o \in Int
  BY <1>1
<1>3. fs \in [Openers -> Seq(Kinds)] /\ "idle" \in LimPcs /\ "reading" \in LimPcs
  BY <1>1 DEF Kinds, LimPcs
<1> HIDE DEF fs, m, f, o
<1>4. /\ lim' \in [mmaps: Int, fds: Int, open: Int, pc: [Openers -> LimPcs],
                   files: [Openers -> Seq(Kinds)]]
      /\ lim'.mmaps = m /\ lim'.fds = f /\ lim'.open = o
      /\ lim'.files = fs /\ lim'.pc = [lim.pc EXCEPT ![t] = "reading"]
  BY <1>0, <1>2, <1>3, LimRecord
<1>5. Moves(t, "idle", "reading")
  BY <1>4 DEF Moves, LimType
<1>6. LimType'
  BY <1>3, <1>4, <1>5, TypeStays DEF fs
<1>7. FilesChange(0, 0)
  BY <1>4, StayChange DEF fs
<1>8. Balanced("idle", "reading", 0, 0)
  BY <1>1, <1>4 DEF Balanced, Opening, m, f, o
<1> QED
  BY <1>3, <1>5, <1>6, <1>7, <1>8, Accounts

LEMMA ReadCloses ==
  ASSUME LimInv, LimType, NEW t \in Openers, ReadTemporary(t), lim.pc[t] = "reading"
  PROVE  LimInv'
<1> DEFINE fs == lim.files
           m == lim.mmaps
           f == lim.fds
           o == lim.open - 1
<1>1. lim.mmaps \in Int /\ lim.fds \in Int /\ lim.open \in Int /\ lim.files \in [Openers -> Seq(Kinds)]
  BY DEF LimType
<1>2. Goes(t, "idle", m, f, o, fs)
  BY DEF LimType, Goes, ReadTemporary
<1>0. m \in Int /\ f \in Int /\ o \in Int
  BY <1>1
<1>3. fs \in [Openers -> Seq(Kinds)] /\ "reading" \in LimPcs /\ "idle" \in LimPcs
  BY <1>1 DEF Kinds, LimPcs
<1> HIDE DEF fs, m, f, o
<1>4. /\ lim' \in [mmaps: Int, fds: Int, open: Int, pc: [Openers -> LimPcs],
                   files: [Openers -> Seq(Kinds)]]
      /\ lim'.mmaps = m /\ lim'.fds = f /\ lim'.open = o
      /\ lim'.files = fs /\ lim'.pc = [lim.pc EXCEPT ![t] = "idle"]
  BY <1>0, <1>2, <1>3, LimRecord
<1>5. Moves(t, "reading", "idle")
  BY <1>4 DEF Moves, LimType
<1>6. LimType'
  BY <1>3, <1>4, <1>5, TypeStays DEF fs
<1>7. FilesChange(0, 0)
  BY <1>4, StayChange DEF fs
<1>8. Balanced("reading", "idle", 0, 0)
  BY <1>1, <1>4 DEF Balanced, Opening, m, f, o
<1> QED
  BY <1>3, <1>5, <1>6, <1>7, <1>8, Accounts

LEMMA CloseKeepsLimits ==
  ASSUME LimInv, LimType, NEW t \in Openers, NEW i \in 1..NumberOpen(t), CloseFile(t, i)
  PROVE  LimInv'
<1> DEFINE kind == lim.files[t][i]
           fs == [lim.files EXCEPT ![t] = RemoveAt(lim.files[t], i)]
           dm == IF kind = "mmap" THEN 1 ELSE 0
           df == IF kind = "fd" THEN 1 ELSE 0
           m == lim.mmaps + dm
           f == lim.fds + df
           o == lim.open - df
<1>1. /\ lim.mmaps \in Int /\ lim.fds \in Int /\ lim.open \in Int /\ lim.pc[t] = "idle"
      /\ lim.files \in [Openers -> Seq(Kinds)] /\ lim.files[t] \in Seq(Kinds) /\ i \in 1..Len(lim.files[t])
  BY DEF LimType, CloseFile, NumberOpen
<1>2. Goes(t, "idle", m, f, o, fs)
  <2>1. lim' = [lim EXCEPT !.files = fs, !.mmaps = m, !.fds = f, !.open = o]
    BY DEF CloseFile, LimType
  <2>2. lim.pc = [lim.pc EXCEPT ![t] = "idle"]
    BY <1>1 DEF LimType
  <2> HIDE DEF fs, m, f, o
  <2> QED
    BY <2>1, <2>2 DEF Goes, LimType
<1>3. m \in Int /\ f \in Int /\ o \in Int /\ dm \in 0..1 /\ df \in 0..1
  BY <1>1
<1>4. RemoveAt(lim.files[t], i) \in Seq(Kinds) /\ Len(RemoveAt(lim.files[t], i)) = Len(lim.files[t]) - 1
  BY <1>1, Removed
<1>5. fs \in [Openers -> Seq(Kinds)] /\ "idle" \in LimPcs
  BY <1>1, <1>4 DEF LimPcs
<1> HIDE DEF fs, m, f, o
<1>6. /\ lim' \in [mmaps: Int, fds: Int, open: Int, pc: [Openers -> LimPcs],
                   files: [Openers -> Seq(Kinds)]]
      /\ lim'.mmaps = m /\ lim'.fds = f /\ lim'.open = o
      /\ lim'.files = fs /\ lim'.pc = [lim.pc EXCEPT ![t] = "idle"]
  BY <1>2, <1>3, <1>5, LimRecord
<1>7. Moves(t, "idle", "idle")
  BY <1>1, <1>6 DEF Moves
<1>8. LimType'
  <2>1. ASSUME NEW u \in Openers
        PROVE  /\ Len(lim'.files[u]) <= MaxOpenTables
               /\ lim'.pc[u] \notin {"idle", "reading"} => Len(lim'.files[u]) < MaxOpenTables
    <3>1. CASE u = t
      <4>1. lim'.pc[t] = "idle" /\ lim'.files[t] = RemoveAt(lim.files[t], i)
        BY <1>1, <1>6 DEF fs, LimType
      <4> QED
        BY <3>1, <4>1, <1>1, <1>4, EnvConstants DEF LimType, NumberOpen
    <3>2. CASE u # t
      BY <3>2, <1>1, <1>6 DEF LimType, NumberOpen, fs
    <3> QED
      BY <3>1, <3>2
  <2> QED
    BY <2>1, <1>6 DEF LimType, NumberOpen
<1>9. FilesChange(0 - dm, 0 - df)
  <2>1. lim'.files = [lim.files EXCEPT ![t] = RemoveAt(lim.files[t], i)]
    BY <1>6 DEF fs
  <2>2. /\ Cardinality(FilesOf("mmap")') = Cardinality(FilesOf("mmap")) - dm
        /\ Cardinality(FilesOf("fd")') = Cardinality(FilesOf("fd")) - df
    BY <2>1, FilesShrink
  <2>3. Cardinality(FilesOf("mmap")) \in Nat /\ Cardinality(FilesOf("fd")) \in Nat
    BY FilesFinite
  <2> HIDE DEF dm, df
  <2> QED
    BY <2>2, <2>3, <1>3 DEF FilesChange
<1>10. Balanced("idle", "idle", 0 - dm, 0 - df)
  <2> HIDE DEF dm, df
  <2>1. /\ "idle" \notin {"map"} /\ "idle" \notin {"keep"} /\ "idle" \notin Opening
        /\ "idle" \notin {"map", "mmap_back"} /\ "idle" \notin {"keep", "fd_back"}
    BY DEF Opening
  <2>2. (0 - dm) + 0 - 0 <= 0 /\ (0 - df) + 0 - 0 <= 0
    BY <1>3
  <2>3. lim'.mmaps = lim.mmaps - (0 - dm) - 0 + 0 /\ lim'.fds = lim.fds - (0 - df) - 0 + 0
    BY <1>1, <1>3, <1>6 DEF m, f
  <2>4. lim'.open = lim.open + (0 - df) + 0 - 0
    BY <1>1, <1>3, <1>6 DEF o
  <2> QED
    BY <2>1, <2>2, <2>3, <2>4 DEF Balanced
<1>11. 0 - dm \in Int /\ 0 - df \in Int
  BY <1>3
<1> HIDE DEF dm, df
<1> QED
  BY <1>5, <1>7, <1>8, <1>9, <1>10, <1>11, Accounts

LEMMA LimStep == LimInv /\ [LimNext]_lim => LimInv'
<1> SUFFICES ASSUME LimInv, [LimNext]_lim PROVE LimInv'
  OBVIOUS
<1>1. LimType
  BY DEF LimInv
<1>2. CASE UNCHANGED lim
  BY <1>2 DEF LimInv, LimType, FilesOf, At, NumberOpen
<1>3. ASSUME NEW t \in Openers, AcquireMmap(t) PROVE LimInv'
  BY <1>1, <1>3, AcquireMmapGranted, AcquireMmapRefused
<1>4. ASSUME NEW t \in Openers, AcquireFd(t) PROVE LimInv'
  BY <1>1, <1>4, AcquireFdGranted, AcquireFdRefused
<1>5. ASSUME NEW t \in Openers, ReadTemporary(t) PROVE LimInv'
  <2>1. lim.pc[t] = "idle" \/ lim.pc[t] = "reading"
    BY <1>5 DEF ReadTemporary
  <2> QED
    BY <2>1, <1>1, <1>5, ReadOpens, ReadCloses
<1>6. ASSUME NEW t \in Openers, NEW i \in 1..NumberOpen(t), CloseFile(t, i) PROVE LimInv'
  BY <1>1, <1>6, CloseKeepsLimits
<1> QED
  BY <1>1, <1>2, <1>3, <1>4, <1>5, <1>6, OpenFileKeeps, MmapBackKeeps, FdBackKeeps, MapFileKeeps,
     MapFailsKeeps, KeepFdKeeps, OpenPerReadKeeps DEF LimNext

\* Whatever the interleaving of the two halves of Limiter::Acquire, there are never
\* more maps or permanent descriptors than allowed, every permit is held by a file
\* or on its way back, and the descriptors open are those accounted for.
THEOREM LimitsAreKept == LimSpec => []LimitsKept
<1>1. LimSpec => []LimInv
  BY LimInitially, LimStep, PTL DEF LimSpec
<1>2. LimInv => LimitsKept
  <2> SUFFICES ASSUME LimInv PROVE LimitsKept
    OBVIOUS
  <2>1. /\ Cardinality(FilesOf("mmap")) \in Nat /\ Cardinality(FilesOf("fd")) \in Nat
        /\ Cardinality(At({"map"})) \in Nat /\ Cardinality(At({"keep"})) \in Nat
    BY FilesFinite, AtFinite
  <2>2. Cardinality(FilesOf("mmap")) <= MaxMmaps /\ Cardinality(FilesOf("fd")) <= MaxOpenFiles
    BY <2>1, EnvConstants DEF LimInv
  <2> QED
    BY <2>2 DEF LimInv, LimitsKept, Opening
<1> QED
  BY <1>1, <1>2, PTL
=============================================================================
