----------------------------- MODULE FileProofs -----------------------------
(***************************************************************************)
(* Proofs about what the on-device leveldb makes of its files: that repair *)
(* loses nothing (Repair), that write batches are read back as they were   *)
(* written and that file names give exact numbers (Records).               *)
(*                                                                         *)
(* Induction over numbers is by the least counterexample (LeastElement).   *)
(* A recursive definition is first shown to have a value (IterationExists) *)
(* before its equation is used.                                            *)
(***************************************************************************)
EXTENDS Repair, Records, FiniteSetTheorems, SequenceTheorems, WellFoundedInduction, TLAPS

\* A non-empty set of numbers has a least one.
LEMMA LeastElement ==
    ASSUME NEW S \in SUBSET Nat, S # {}
    PROVE  \E m \in S : \A k \in S : m <= k
<1>1. PICK m \in S : \A k \in S : <<k, m>> \notin OpToRel(<, Nat)
  BY NatLessThanWellFounded, WFMin
<1>2. \A k \in S : ~(k < m)
  BY <1>1 DEF OpToRel
<1> QED
  BY <1>2

\* f[n] is what n steps of F make of a.
Iterates(f, K, A, a, F) ==
    /\ f = [n \in 0..K |-> f[n]] /\ f[0] = a /\ \A n \in 0..K : f[n] \in A
    /\ \A n \in 1..K : f[n] = F[n][f[n - 1]]

\* A function that is iterated from a has values for every number of times.
LEMMA IterationExists ==
    ASSUME NEW K \in Nat, NEW A, NEW a \in A, NEW F \in [1..K -> [A -> A]]
    PROVE  \E f : Iterates(f, K, A, a, F)
<1> DEFINE Run(f, k) == /\ f = [n \in 0..k |-> IF n = 0 THEN a ELSE F[n][f[n - 1]]]
                        /\ \A n \in 0..k : f[n] \in A
           bad == {k \in 0..K : ~\E f : Run(f, k)}
<1>1. SUFFICES ASSUME bad # {}
               PROVE  FALSE
  <2>1. PICK f : Run(f, K)
    BY <1>1
  <2>2. \A n \in 0..K : f[n] = IF n = 0 THEN a ELSE F[n][f[n - 1]]
    BY <2>1
  <2>3. f = [n \in 0..K |-> f[n]]
    BY <2>1
  <2>4. 0 \in 0..K /\ \A n \in 1..K : n \in 0..K /\ n # 0
    OBVIOUS
  <2> QED
    BY <2>1, <2>2, <2>3, <2>4 DEF Iterates
<1>2. PICK k \in bad : \A j \in bad : k <= j
  <2>1. bad \in SUBSET Nat
    OBVIOUS
  <2> HIDE DEF bad
  <2> QED
    BY <1>1, <2>1, LeastElement
<1>3. k # 0
  <2>1. Run([n \in 0..0 |-> a], 0)
    OBVIOUS
  <2> QED
    BY <1>2, <2>1
<1>4. k \in 1..K /\ k \in Nat /\ k - 1 \in 0..K /\ k - 1 \notin bad
  <2>1. k \in 0..K /\ \A j \in bad : k <= j
    BY <1>2
  <2> HIDE DEF bad
  <2> QED
    BY <1>3, <2>1
<1>5. PICK f : Run(f, k - 1)
  BY <1>4
<1>6. F[k][f[k - 1]] \in A
  <2>1. k - 1 \in 0..(k - 1)
    BY <1>4
  <2> QED
    BY <1>4, <1>5, <2>1
<1> DEFINE g == [n \in 0..k |-> IF n = k THEN F[k][f[k - 1]] ELSE f[n]]
<1>7. \A n \in 0..k : g[n] \in A /\ g[n] = IF n = 0 THEN a ELSE F[n][g[n - 1]]
  <2> SUFFICES ASSUME NEW n \in 0..k
               PROVE  g[n] \in A /\ g[n] = IF n = 0 THEN a ELSE F[n][g[n - 1]]
    OBVIOUS
  <2>1. CASE n = k
    <3>1. n - 1 \in 0..k /\ n - 1 # k /\ n # 0
      BY <1>4, <2>1
    <3> QED
      BY <1>6, <2>1, <3>1
  <2>2. CASE n # k
    <3>1. n \in 0..(k - 1)
      BY <1>4, <2>2
    <3>2. f[n] \in A /\ f[n] = IF n = 0 THEN a ELSE F[n][f[n - 1]]
      BY <1>5, <3>1
    <3>3. n # 0 => n - 1 \in 0..k /\ n - 1 # k
      BY <1>4, <3>1
    <3> QED
      BY <2>2, <3>2, <3>3
  <2> QED
    BY <2>1, <2>2
<1>8. Run(g, k)
  BY <1>7
<1> QED
  BY <1>2, <1>8

-----------------------------------------------------------------------------
(* Varints *)

\* A number and what is left of it.
LEMMA Division ==
    ASSUME NEW x \in Nat
    PROVE  /\ x \div Half \in Nat /\ x % Half \in 0..(Half - 1) /\ (x \div Half) * Half + (x % Half) = x
           /\ (x % Half) % Half = x % Half /\ ((x % Half) + Half) % Half = x % Half
<1>1. Half \in Nat /\ Half > 0
  BY RecordsAssumption
<1>2. x \div Half \in Nat /\ x % Half \in Nat /\ x % Half < Half /\ x = Half * (x \div Half) + (x % Half)
  BY <1>1
<1>3. Half * (x \div Half) = (x \div Half) * Half
  BY <1>1, <1>2
<1>4. x \div Half \in Nat /\ x % Half \in 0..(Half - 1) /\ (x \div Half) * Half + (x % Half) = x
  BY <1>1, <1>2, <1>3
<1>5. \A r \in 0..(Half - 1) : r % Half = r /\ (r + Half) % Half = r
  BY <1>1
<1> QED
  BY <1>4, <1>5

\* What Shifted computes.
LEMMA ShiftedIs ==
    ASSUME NEW v \in Nat
    PROVE  /\ Shifted(v)[0] = v
           /\ \A n \in 0..VarintBytes : Shifted(v)[n] \in Nat
           /\ \A n \in 1..VarintBytes : Shifted(v)[n] = Shifted(v)[n - 1] \div Half
<1> DEFINE left == CHOOSE left : left = [n \in 0..VarintBytes |-> IF n = 0 THEN v ELSE left[n - 1] \div Half]
           F == [n \in 1..VarintBytes |-> [x \in Nat |-> x \div Half]]
<1>1. VarintBytes \in Nat
  BY RecordsAssumption
<1>2. F \in [1..VarintBytes -> [Nat -> Nat]]
  BY Division
<1>3. PICK f : Iterates(f, VarintBytes, Nat, v, F)
  <2> HIDE DEF F
  <2> QED
    BY <1>1, <1>2, IterationExists
<1>4. \A n \in 1..VarintBytes : n \in 0..VarintBytes /\ n # 0 /\ n - 1 \in 0..VarintBytes
  BY <1>1
<1>5. \A n \in 0..VarintBytes : f[n] = IF n = 0 THEN v ELSE f[n - 1] \div Half
  <2>1. \A n \in 0..VarintBytes : n # 0 => n \in 1..VarintBytes
    BY <1>1
  <2>2. \A n \in 1..VarintBytes : F[n][f[n - 1]] = f[n - 1] \div Half
    BY <1>3, <1>4 DEF Iterates
  <2> HIDE DEF F
  <2> QED
    BY <1>3, <2>1, <2>2 DEF Iterates
<1>6. f = [n \in 0..VarintBytes |-> IF n = 0 THEN v ELSE f[n - 1] \div Half]
  <2>1. f = [n \in 0..VarintBytes |-> f[n]]
    BY <1>3 DEF Iterates
  <2> QED
    BY <1>5, <2>1
<1>7. left = [n \in 0..VarintBytes |-> IF n = 0 THEN v ELSE left[n - 1] \div Half]
  BY <1>6
<1>8. Shifted(v) = left
  BY DEF Shifted
<1> HIDE DEF left
<1>9. left[0] = v /\ \A n \in 1..VarintBytes : left[n] = left[n - 1] \div Half
  <2>1. \A n \in 0..VarintBytes : left[n] = IF n = 0 THEN v ELSE left[n - 1] \div Half
    BY <1>7
  <2>2. 0 \in 0..VarintBytes
    BY <1>1
  <2> QED
    BY <1>4, <2>1, <2>2
<1>10. \A n \in 0..VarintBytes : left[n] \in Nat
  <2> DEFINE bad == {n \in 0..VarintBytes : left[n] \notin Nat}
  <2>1. SUFFICES ASSUME bad # {}
                 PROVE  FALSE
    OBVIOUS
  <2>2. PICK m \in bad : \A j \in bad : m <= j
    <3>1. bad \in SUBSET Nat
      BY <1>1
    <3> HIDE DEF bad
    <3> QED
      BY <2>1, <3>1, LeastElement
  <2>3. m \in 1..VarintBytes /\ m - 1 \notin bad
    <3>1. m # 0
      BY <1>9, <2>2
    <3>2. m \in 0..VarintBytes /\ \A j \in bad : m <= j
      BY <2>2
    <3> HIDE DEF bad
    <3> QED
      BY <1>1, <3>1, <3>2
  <2>4. left[m - 1] \in Nat
    BY <1>4, <2>3
  <2>5. left[m] \in Nat
    BY <1>9, <2>3, <2>4, Division
  <2> QED
    BY <2>2, <2>5
<1> QED
  BY <1>8, <1>9, <1>10

\* Min of a non-empty set of numbers.
LEMMA MinIn ==
    ASSUME NEW S \in SUBSET Nat, S # {}
    PROVE  Min(S) \in S /\ \A k \in S : Min(S) <= k
<1>1. \E m \in S : \A k \in S : m <= k
  BY LeastElement
<1> QED
  BY <1>1 DEF Min

\* A number that fits the longest varint.
Fits(v) == v \in Nat /\ Shifted(v)[VarintBytes] = 0

\* The bytes of a varint: all but the last are Half or more.
LEMMA PutVarintIs ==
    ASSUME NEW v, Fits(v), NEW L, L = Len(PutVarint(v))
    PROVE  /\ PutVarint(v) \in Seq(Nat) /\ L \in 1..VarintBytes /\ L \in Nat /\ Shifted(v)[L] = 0
           /\ \A i \in 1..L : PutVarint(v)[i] % Half = Shifted(v)[i - 1] % Half
           /\ \A i \in 1..L : PutVarint(v)[i] < Half <=> i = L
<1> DEFINE S == {n \in 1..VarintBytes : Shifted(v)[n] = 0}
           length == Min(S)
           Byte(i) == (Shifted(v)[i - 1] % Half) + (IF i < length THEN Half ELSE 0)
<1>1. VarintBytes \in Nat /\ VarintBytes > 0 /\ Half \in Nat /\ Half > 0
  BY RecordsAssumption
<1>2. S \in SUBSET Nat /\ VarintBytes \in S
  BY <1>1 DEF Fits
<1>3. length \in S
  <2> HIDE DEF S
  <2> QED
    BY <1>2, MinIn
<1>4. length \in 1..VarintBytes /\ Shifted(v)[length] = 0
  BY <1>3
<1>5. PutVarint(v) = [i \in 1..length |-> Byte(i)]
  BY DEF PutVarint
<1> HIDE DEF length
<1>6. length \in Nat /\ \A i \in 1..length : i - 1 \in 0..VarintBytes
  BY <1>1, <1>4
<1>7. \A i \in 1..length : Shifted(v)[i - 1] \in Nat
  BY <1>6, ShiftedIs DEF Fits
<1>8. ASSUME NEW i \in 1..length
      PROVE  /\ Byte(i) \in Nat /\ Byte(i) % Half = Shifted(v)[i - 1] % Half
             /\ Byte(i) < Half <=> i = length
  <2> DEFINE x == Shifted(v)[i - 1]
             r == x % Half
  <2>1. r \in 0..(Half - 1) /\ r % Half = r /\ (r + Half) % Half = r
    BY <1>7, Division
  <2> HIDE DEF r
  <2>2. CASE i < length
    <3>1. Byte(i) = r + Half
      BY <2>2 DEF r
    <3>2. r + Half \in Nat /\ ~(r + Half < Half) /\ i # length
      BY <1>1, <1>6, <2>1, <2>2
    <3> QED
      BY <2>1, <3>1, <3>2 DEF r
  <2>3. CASE ~(i < length)
    <3>1. Byte(i) = r + 0 /\ i = length
      BY <1>6, <2>3 DEF r
    <3>2. r + 0 = r /\ r \in Nat /\ r < Half
      BY <1>1, <2>1
    <3> QED
      BY <2>1, <3>1, <3>2 DEF r
  <2> QED
    BY <2>2, <2>3
<1> HIDE DEF Byte
<1>9. PutVarint(v) \in Seq(Nat) /\ Len(PutVarint(v)) = length /\ \A i \in 1..length : PutVarint(v)[i] = Byte(i)
  BY <1>5, <1>6, <1>8
<1>10. L = length
  BY <1>9
<1> QED
  BY <1>4, <1>6, <1>8, <1>9, <1>10

\* The bytes of a varint joined again.
LEMMA JoinedIs ==
    ASSUME NEW v, Fits(v), NEW L, L = Len(PutVarint(v)), NEW input,
           \A i \in 1..L : input[i] = PutVarint(v)[i]
    PROVE  Joined(input, L) = v
<1> DEFINE last == CHOOSE last : last = [k \in 0..L |-> IF k = 0 THEN 0 ELSE last[k - 1] * Half + (input[L + 1 - k] % Half)]
           F == [k \in 1..L |-> [x \in Nat |-> x * Half + (input[L + 1 - k] % Half)]]
<1>1. /\ L \in 1..VarintBytes /\ L \in Nat /\ Shifted(v)[L] = 0
      /\ \A i \in 1..L : PutVarint(v)[i] % Half = Shifted(v)[i - 1] % Half
  BY PutVarintIs
<1>2. VarintBytes \in Nat /\ Half \in Nat
  BY RecordsAssumption
<1>3. /\ Shifted(v)[0] = v /\ \A n \in 0..VarintBytes : Shifted(v)[n] \in Nat
      /\ \A n \in 1..VarintBytes : Shifted(v)[n] = Shifted(v)[n - 1] \div Half
  BY ShiftedIs DEF Fits
<1>4. \A k \in 1..L : /\ L + 1 - k \in 1..L /\ L - k \in 0..VarintBytes /\ k - 1 \in 0..L
                      /\ (L + 1 - k) - 1 = L - k /\ L + 1 - k \in 1..VarintBytes
                      /\ L - (k - 1) = L + 1 - k
  BY <1>1, <1>2
<1>5. \A k \in 1..L : input[L + 1 - k] % Half = Shifted(v)[L - k] % Half
  BY <1>1, <1>4
<1>6. \A k \in 1..L : input[L + 1 - k] % Half \in Nat
  <2>1. \A x \in Nat : x % Half \in Nat
    BY Division, <1>2
  <2> QED
    BY <1>3, <1>4, <1>5, <2>1
<1>7. F \in [1..L -> [Nat -> Nat]]
  BY <1>2, <1>6
<1>8. PICK f : Iterates(f, L, Nat, 0, F)
  <2> HIDE DEF F
  <2>1. L \in Nat /\ 0 \in Nat
    BY <1>1
  <2> QED
    BY <1>7, <2>1, IterationExists
<1>9. \A k \in 0..L : f[k] = IF k = 0 THEN 0 ELSE f[k - 1] * Half + (input[L + 1 - k] % Half)
  <2>1. \A k \in 0..L : k # 0 => k \in 1..L
    BY <1>1
  <2>2. \A k \in 1..L : F[k][f[k - 1]] = f[k - 1] * Half + (input[L + 1 - k] % Half)
    BY <1>4, <1>8 DEF Iterates
  <2> HIDE DEF F
  <2> QED
    BY <1>8, <2>1, <2>2 DEF Iterates
<1>10. f = [k \in 0..L |-> IF k = 0 THEN 0 ELSE f[k - 1] * Half + (input[L + 1 - k] % Half)]
  <2>1. f = [k \in 0..L |-> f[k]]
    BY <1>8 DEF Iterates
  <2> QED
    BY <1>9, <2>1
<1>11. last = [k \in 0..L |-> IF k = 0 THEN 0 ELSE last[k - 1] * Half + (input[L + 1 - k] % Half)]
  BY <1>10
<1>12. Joined(input, L) = last[L]
  BY DEF Joined
<1> HIDE DEF last, F
<1>13. \A k \in 0..L : last[k] = IF k = 0 THEN 0 ELSE last[k - 1] * Half + (input[L + 1 - k] % Half)
  BY <1>11
<1>14. \A k \in 0..L : last[k] = Shifted(v)[L - k]
  <2> DEFINE bad == {k \in 0..L : last[k] # Shifted(v)[L - k]}
  <2>1. SUFFICES ASSUME bad # {}
                 PROVE  FALSE
    OBVIOUS
  <2>2. PICK k \in bad : \A j \in bad : k <= j
    <3>1. bad \in SUBSET Nat
      BY <1>1
    <3> HIDE DEF bad
    <3> QED
      BY <2>1, <3>1, LeastElement
  <2>3. k \in 1..L /\ k \in 0..L /\ k # 0 /\ k - 1 \notin bad
    <3>1. last[0] = 0 /\ L - 0 = L
      BY <1>1, <1>13
    <3>2. k # 0
      BY <1>1, <2>2, <3>1
    <3>3. k \in 0..L /\ \A j \in bad : k <= j
      BY <2>2
    <3> HIDE DEF bad
    <3> QED
      BY <1>1, <3>2, <3>3
  <2>4. last[k - 1] = Shifted(v)[L + 1 - k]
    BY <1>4, <2>3
  <2> DEFINE x == Shifted(v)[L - k]
  <2>5. x \in Nat /\ Shifted(v)[L + 1 - k] = x \div Half
    BY <1>3, <1>4, <2>3
  <2>6. last[k] = (x \div Half) * Half + (x % Half)
    BY <1>5, <1>13, <2>3, <2>4, <2>5
  <2>7. last[k] = x
    BY <2>5, <2>6, Division
  <2> QED
    BY <2>2, <2>7
<1>15. L \in 0..L /\ L - L = 0
  BY <1>1
<1> QED
  BY <1>3, <1>12, <1>14, <1>15

\* The input begins with s, as far as it goes.
Agree(input, s) == \A j \in 1..Len(s) : j <= Len(input) => input[j] = s[j]

\* A varint is read back, unless it is cut off.
LEMMA GetVarintIs ==
    ASSUME NEW v, Fits(v), NEW input \in Seq(Nat), Agree(input, PutVarint(v)), NEW L, L = Len(PutVarint(v))
    PROVE  /\ L <= Len(input) => GetVarint(input) = [ok |-> TRUE, v |-> v, rest |-> SubSeq(input, L + 1, Len(input))]
           /\ ~(L <= Len(input)) => GetVarint(input) = Fail
<1> DEFINE S == {n \in 1..VarintBytes : n <= Len(input) /\ input[n] < Half}
<1>1. VarintBytes \in Nat /\ Len(input) \in Nat
  BY RecordsAssumption
<1>2. /\ L \in 1..VarintBytes /\ L \in Nat
      /\ \A i \in 1..L : PutVarint(v)[i] < Half <=> i = L
  BY PutVarintIs
<1>3. \A i \in 1..L : i <= Len(input) => input[i] = PutVarint(v)[i]
  BY DEF Agree
<1>4. \A n \in S : n \in Nat /\ ~(n < L)
  BY <1>1, <1>2, <1>3
<1>5. CASE L <= Len(input)
  <2>1. L \in S /\ S \in SUBSET Nat
    BY <1>1, <1>2, <1>3, <1>5
  <2>2. GetVarint(input) = [ok |-> TRUE, v |-> Joined(input, Min(S)), rest |-> SubSeq(input, Min(S) + 1, Len(input))]
    BY <2>1 DEF GetVarint
  <2> HIDE DEF S
  <2>3. Min(S) \in S /\ Min(S) <= L
    BY <2>1, MinIn
  <2>4. Min(S) = L
    BY <1>2, <1>4, <2>3
  <2>5. \A i \in 1..L : input[i] = PutVarint(v)[i]
    BY <1>1, <1>2, <1>3, <1>5
  <2>6. Joined(input, L) = v
    BY <2>5, JoinedIs
  <2> QED
    BY <1>5, <2>2, <2>4, <2>6
<1>6. CASE ~(L <= Len(input))
  <2>1. S = {}
    BY <1>1, <1>2, <1>4, <1>6
  <2>2. GetVarint(input) = Fail
    BY <2>1 DEF GetVarint
  <2> QED
    BY <1>6, <2>2
<1> QED
  BY <1>5, <1>6

\* u is the bytes of t after the first a, up to the b-th.
IsPart(u, t, a, b) ==
    /\ u \in Seq(Nat) /\ Len(u) = b - a
    /\ \A i \in 1..(b - a) : u[i] = t[a + i] /\ a + i \in 1..Len(t)

\* SubSeq as used for the rest of an input.
LEMMA PartIs ==
    ASSUME NEW t \in Seq(Nat), NEW a \in Nat, NEW b \in Nat, a <= b, b <= Len(t)
    PROVE  IsPart(SubSeq(t, a + 1, b), t, a, b)
<1> DEFINE m == a + 1
<1>1. Len(t) \in Nat
  OBVIOUS
<1>2. \A i \in m..b : t[i] \in Nat
  BY <1>1
<1>3. /\ SubSeq(t, m, b) \in Seq(Nat)
      /\ Len(SubSeq(t, m, b)) = IF m <= b THEN b - m + 1 ELSE 0
      /\ \A i \in 1..(b - m + 1) : SubSeq(t, m, b)[i] = t[m + i - 1]
  BY <1>2, SubSeqProperties
<1>4. b - m + 1 = b - a /\ (~(m <= b) => b - a = 0)
  OBVIOUS
<1>5. \A i \in 1..(b - a) : m + i - 1 = a + i /\ a + i \in 1..Len(t)
  BY <1>1
<1> QED
  BY <1>3, <1>4, <1>5 DEF IsPart

\* A string is read back, unless it is cut off.
LEMMA GetSliceIs ==
    ASSUME NEW s \in Seq(Nat), Fits(Len(s)), NEW input \in Seq(Nat), Agree(input, PutLengthPrefixedSlice(s)),
           NEW L, L = Len(PutLengthPrefixedSlice(s))
    PROVE  /\ PutLengthPrefixedSlice(s) \in Seq(Nat) /\ L \in Nat /\ L > 0
           /\ L <= Len(input) =>
                GetLengthPrefixedSlice(input) = [ok |-> TRUE, v |-> s, rest |-> SubSeq(input, L + 1, Len(input))]
           /\ ~(L <= Len(input)) => GetLengthPrefixedSlice(input) = Fail
<1> DEFINE n == Len(s)
           p == PutVarint(n)
           P == Len(p)
           e == PutLengthPrefixedSlice(s)
           rest == SubSeq(input, P + 1, Len(input))
<1>1. p \in Seq(Nat) /\ P \in Nat /\ P > 0 /\ n \in Nat /\ Len(input) \in Nat
  BY PutVarintIs
<1>2. e = p \o s
  BY DEF PutLengthPrefixedSlice
<1> HIDE DEF p, n
<1>3. /\ e \in Seq(Nat) /\ L = P + n
      /\ \A i \in 1..(P + n) : e[i] = IF i <= P THEN p[i] ELSE s[i - P]
  <2>1. p \in Seq(Nat) /\ s \in Seq(Nat)
    BY <1>1
  <2>2. /\ p \o s \in Seq(Nat) /\ Len(p \o s) = Len(p) + Len(s)
        /\ \A i \in 1..(Len(p) + Len(s)) : (p \o s)[i] = IF i <= Len(p) THEN p[i] ELSE s[i - Len(p)]
    BY <2>1, ConcatProperties
  <2> HIDE DEF e
  <2> QED
    BY <1>2, <2>2 DEF n, e
<1>4. \A i \in 1..(P + n) : i <= Len(input) => input[i] = e[i]
  BY <1>3 DEF Agree
<1> HIDE DEF e, P, rest
<1>5. Agree(input, p)
  <2>1. \A i \in 1..P : i \in 1..(P + n) /\ i <= P
    BY <1>1
  <2> QED
    BY <1>3, <1>4, <2>1 DEF Agree, P
<1>6. /\ P <= Len(input) => GetVarint(input) = [ok |-> TRUE, v |-> n, rest |-> rest]
      /\ ~(P <= Len(input)) => GetVarint(input) = Fail
  BY <1>5, GetVarintIs DEF p, n, P, rest
<1>7. CASE ~(P <= Len(input))
  <2>1. GetLengthPrefixedSlice(input) = Fail
    BY <1>6, <1>7 DEF GetLengthPrefixedSlice, Fail
  <2>2. ~(L <= Len(input))
    BY <1>1, <1>3, <1>7
  <2> QED
    BY <1>1, <1>3, <2>1, <2>2 DEF e
<1>8. CASE P <= Len(input)
  <2>1. /\ rest \in Seq(Nat) /\ Len(rest) = Len(input) - P
        /\ \A i \in 1..(Len(input) - P) : rest[i] = input[P + i]
    BY <1>1, <1>8 DEF rest
  <2> DEFINE g == [ok |-> TRUE, v |-> n, rest |-> rest]
  <2>2. GetVarint(input) = g /\ g.ok = TRUE /\ g.v = n /\ g.rest = rest
    BY <1>6, <1>8
  <2>3. GetLengthPrefixedSlice(input) =
          IF Len(rest) < n THEN Fail
          ELSE [ok |-> TRUE, v |-> SubSeq(rest, 1, n), rest |-> SubSeq(rest, n + 1, Len(rest))]
    <3> HIDE DEF g
    <3> QED
      BY <2>2 DEF GetLengthPrefixedSlice
  <2>4. CASE Len(rest) < n
    <3>1. ~(L <= Len(input))
      BY <1>1, <1>3, <2>1, <2>4
    <3> QED
      BY <1>1, <1>3, <2>3, <2>4, <3>1 DEF e
  <2>5. CASE ~(Len(rest) < n)
    <3>1. L <= Len(input) /\ Len(rest) \in Nat
      BY <1>1, <1>3, <2>1, <2>5
    <3>2. SubSeq(rest, 1, n) = s
      <4>1. /\ SubSeq(rest, 1, n) \in Seq(Nat) /\ Len(SubSeq(rest, 1, n)) = n
            /\ \A i \in 1..n : SubSeq(rest, 1, n)[i] = rest[i]
        <5>1. n \in Nat /\ 0 <= n /\ n <= Len(rest) /\ 1 = 0 + 1 /\ n - 0 = n
          BY <1>1, <2>5, <3>1
        <5>2. \A i \in 1..n : 0 + i = i
          BY <1>1
        <5>3. IsPart(SubSeq(rest, 0 + 1, n), rest, 0, n)
          BY <2>1, <5>1, PartIs
        <5> QED
          BY <5>1, <5>2, <5>3 DEF IsPart
      <4>2. \A i \in 1..n : /\ i \in 1..(Len(input) - P) /\ P + i \in 1..(P + n) /\ ~(P + i <= P)
                            /\ (P + i) - P = i /\ P + i <= Len(input)
        <5>1. n \in Nat /\ P \in Nat /\ Len(input) \in Nat /\ P + n <= Len(input)
          BY <1>1, <1>3, <3>1
        <5> QED
          BY <5>1
      <4>3. \A i \in 1..n : rest[i] = s[i]
        BY <1>3, <1>4, <2>1, <4>2
      <4> QED
        BY <4>1, <4>3, SeqEqual DEF n
    <3>3. SubSeq(rest, n + 1, Len(rest)) = SubSeq(input, L + 1, Len(input))
      <4> DEFINE a == SubSeq(rest, n + 1, Len(rest))
                 b == SubSeq(input, L + 1, Len(input))
      <4>1. a \in Seq(Nat) /\ Len(a) = Len(rest) - n /\ \A i \in 1..(Len(rest) - n) : a[i] = rest[n + i]
        <5>1. n \in Nat /\ n <= Len(rest) /\ rest \in Seq(Nat) /\ Len(rest) <= Len(rest)
          BY <1>1, <2>1, <2>5, <3>1
        <5>2. IsPart(a, rest, n, Len(rest))
          BY <3>1, <5>1, PartIs
        <5> QED
          BY <5>2 DEF IsPart
      <4>2. b \in Seq(Nat) /\ Len(b) = Len(input) - L /\ \A i \in 1..(Len(input) - L) : b[i] = input[L + i]
        <5>1. L \in Nat /\ Len(input) <= Len(input)
          BY <1>1, <1>3
        <5>2. IsPart(b, input, L, Len(input))
          BY <1>1, <3>1, <5>1, PartIs
        <5> QED
          BY <5>2 DEF IsPart
      <4>3. Len(rest) - n = Len(input) - L /\ Len(rest) - n \in Nat
        BY <1>1, <1>3, <2>1, <3>1
      <4>4. \A i \in 1..(Len(rest) - n) : n + i \in 1..(Len(input) - P) /\ P + (n + i) = L + i
        BY <1>1, <1>3, <2>1, <3>1
      <4> HIDE DEF a, b
      <4>5. \A i \in 1..Len(a) : a[i] = b[i]
        <5>1. \A i \in 1..(Len(rest) - n) : a[i] = rest[n + i] /\ b[i] = input[L + i]
          BY <4>1, <4>2, <4>3
        <5>2. \A i \in 1..(Len(rest) - n) : rest[n + i] = input[L + i]
          BY <2>1, <4>4
        <5> QED
          BY <4>1, <5>1, <5>2
      <4>6. a = b
        BY <4>1, <4>2, <4>3, <4>5, SeqEqual
      <4> QED
        BY <4>6 DEF a, b
    <3> QED
      <4>1. GetLengthPrefixedSlice(input) = [ok |-> TRUE, v |-> s, rest |-> SubSeq(input, L + 1, Len(input))]
        BY <2>3, <2>5, <3>2, <3>3
      <4>2. L \in Nat /\ L > 0
        BY <1>1, <1>3
      <4> QED
        BY <1>3, <3>1, <4>1, <4>2 DEF e
  <2> QED
    BY <2>4, <2>5
<1> QED
  BY <1>7, <1>8

-----------------------------------------------------------------------------
(* Batches *)

\* What is left of an input after n bytes.
Rest(input, n) == SubSeq(input, n + 1, Len(input))

LEMMA RestIs ==
    ASSUME NEW t \in Seq(Nat), NEW a \in Nat, a <= Len(t)
    PROVE  /\ Rest(t, a) \in Seq(Nat) /\ Len(Rest(t, a)) = Len(t) - a
           /\ \A i \in 1..(Len(t) - a) : Rest(t, a)[i] = t[a + i] /\ a + i \in 1..Len(t)
<1>1. Len(t) \in Nat /\ Len(t) <= Len(t)
  OBVIOUS
<1>2. IsPart(SubSeq(t, a + 1, Len(t)), t, a, Len(t))
  BY <1>1, PartIs
<1> QED
  BY <1>2 DEF IsPart, Rest

\* What is left after a and then b bytes.
LEMMA RestOfRest ==
    ASSUME NEW t \in Seq(Nat), NEW a \in Nat, NEW b \in Nat, a + b <= Len(t)
    PROVE  Rest(Rest(t, a), b) = Rest(t, a + b)
<1> DEFINE u == Rest(t, a)
           x == Rest(u, b)
           y == Rest(t, a + b)
<1>1. Len(t) \in Nat /\ a <= Len(t) /\ a + b \in Nat
  OBVIOUS
<1>2. u \in Seq(Nat) /\ Len(u) = Len(t) - a /\ \A i \in 1..(Len(t) - a) : u[i] = t[a + i]
  BY <1>1, RestIs
<1>3. y \in Seq(Nat) /\ Len(y) = Len(t) - (a + b) /\ \A i \in 1..(Len(t) - (a + b)) : y[i] = t[a + b + i]
  BY <1>1, RestIs
<1> HIDE DEF u
<1>4. b <= Len(u)
  BY <1>1, <1>2
<1>5. x \in Seq(Nat) /\ Len(x) = Len(u) - b /\ \A i \in 1..(Len(u) - b) : x[i] = u[b + i]
  BY <1>2, <1>4, RestIs
<1> HIDE DEF x, y
<1>6. Len(u) - b = Len(t) - (a + b)
  BY <1>1, <1>2
<1>7. \A i \in 1..(Len(t) - (a + b)) : b + i \in 1..(Len(t) - a) /\ a + (b + i) = a + b + i
  BY <1>1
<1>8. \A i \in 1..(Len(t) - (a + b)) : x[i] = y[i]
  BY <1>2, <1>3, <1>5, <1>6, <1>7
<1>9. x = y
  BY <1>3, <1>5, <1>6, <1>8, SeqEqual
<1> QED
  BY <1>9 DEF x, y, u

\* An input that begins with two parts.
LEMMA AgreeParts ==
    ASSUME NEW t \in Seq(Nat), NEW p \in Seq(Nat), NEW q \in Seq(Nat), Agree(t, p \o q)
    PROVE  /\ Agree(t, p)
           /\ Len(p) <= Len(t) => Agree(Rest(t, Len(p)), q)
<1>1. Len(t) \in Nat /\ Len(p) \in Nat /\ Len(q) \in Nat
  OBVIOUS
<1>2. /\ Len(p \o q) = Len(p) + Len(q)
      /\ \A i \in 1..(Len(p) + Len(q)) : (p \o q)[i] = IF i <= Len(p) THEN p[i] ELSE q[i - Len(p)]
  BY ConcatProperties
<1>3. \A i \in 1..(Len(p) + Len(q)) : i <= Len(t) => t[i] = IF i <= Len(p) THEN p[i] ELSE q[i - Len(p)]
  BY <1>2 DEF Agree
<1>4. Agree(t, p)
  <2>1. \A i \in 1..Len(p) : i \in 1..(Len(p) + Len(q)) /\ i <= Len(p)
    BY <1>1
  <2> QED
    BY <1>3, <2>1 DEF Agree
<1>5. ASSUME Len(p) <= Len(t)
      PROVE  Agree(Rest(t, Len(p)), q)
  <2> DEFINE u == Rest(t, Len(p))
  <2>1. Len(u) = Len(t) - Len(p) /\ \A i \in 1..(Len(t) - Len(p)) : u[i] = t[Len(p) + i]
    BY <1>1, <1>5, RestIs
  <2> HIDE DEF u
  <2>2. ASSUME NEW i \in 1..Len(q), i <= Len(u)
        PROVE  u[i] = q[i]
    <3>1. /\ i \in 1..(Len(t) - Len(p)) /\ Len(p) + i \in 1..(Len(p) + Len(q)) /\ Len(p) + i <= Len(t)
          /\ ~(Len(p) + i <= Len(p)) /\ (Len(p) + i) - Len(p) = i
      BY <1>1, <1>5, <2>1, <2>2
    <3> QED
      BY <1>3, <2>1, <3>1
  <2> QED
    BY <2>2 DEF Agree, u
<1> QED
  BY <1>4, <1>5

\* The operations a batch may hold.
FitStrings == {s \in Seq(Nat) : Fits(Len(s))}
Ops == {op \in [del: BOOLEAN, key: FitStrings, val: FitStrings] : op.del => op.val = <<>>}
Tag(op) == IF op.del THEN kTypeDeletion ELSE kTypeValue

\* The bytes of an operation.
LEMMA OperationIs ==
    ASSUME NEW op \in Ops
    PROVE  /\ Operation(op) \in Seq(Nat) /\ Len(Operation(op)) \in Nat /\ Len(Operation(op)) > 0
           /\ PutLengthPrefixedSlice(op.key) \in Seq(Nat) /\ PutLengthPrefixedSlice(op.val) \in Seq(Nat)
<1>1. /\ op.key \in Seq(Nat) /\ Fits(Len(op.key)) /\ op.val \in Seq(Nat) /\ Fits(Len(op.val))
  BY DEF Ops, FitStrings
<1>2. \A s \in Seq(Nat) : Fits(Len(s)) => PutLengthPrefixedSlice(s) \in Seq(Nat)
  <2> SUFFICES ASSUME NEW s \in Seq(Nat), Fits(Len(s))
               PROVE  PutLengthPrefixedSlice(s) \in Seq(Nat)
    OBVIOUS
  <2>1. PutVarint(Len(s)) \in Seq(Nat)
    BY PutVarintIs
  <2>2. PutVarint(Len(s)) \o s \in Seq(Nat)
    BY <2>1, ConcatProperties
  <2> QED
    BY <2>2 DEF PutLengthPrefixedSlice
<1> DEFINE K == PutLengthPrefixedSlice(op.key)
           V == PutLengthPrefixedSlice(op.val)
<1>3. K \in Seq(Nat) /\ V \in Seq(Nat)
  BY <1>1, <1>2
<1> HIDE DEF K, V
<1>4. <<0>> \in Seq(Nat) /\ <<1>> \in Seq(Nat) /\ Len(<<0>>) = 1 /\ Len(<<1>>) = 1
  OBVIOUS
<1>5. <<0>> \o K \in Seq(Nat) /\ Len(<<0>> \o K) = 1 + Len(K)
  BY <1>3, <1>4, ConcatProperties
<1>6. <<1>> \o K \in Seq(Nat) /\ Len(<<1>> \o K) = 1 + Len(K)
  BY <1>3, <1>4, ConcatProperties
<1>7. (<<1>> \o K) \o V \in Seq(Nat) /\ Len((<<1>> \o K) \o V) = Len(<<1>> \o K) + Len(V)
  BY <1>3, <1>6, ConcatProperties
<1>8. Len(K) \in Nat /\ Len(V) \in Nat
  BY <1>3
<1>9. Operation(op) = IF op.del THEN <<0>> \o K ELSE (<<1>> \o K) \o V
  BY DEF Operation, kTypeDeletion, kTypeValue, K, V
<1>10. CASE op.del
  BY <1>3, <1>5, <1>8, <1>9, <1>10 DEF K, V
<1>11. CASE ~op.del
  BY <1>3, <1>6, <1>7, <1>8, <1>9, <1>11 DEF K, V
<1> QED
  BY <1>10, <1>11

\* The key and the value that a round reads.
KeyRead(input) == GetLengthPrefixedSlice(Tail(input))
ValueRead(input) ==
    IF Head(input) = kTypeDeletion THEN [ok |-> TRUE, v |-> <<>>, rest |-> KeyRead(input).rest]
    ELSE GetLengthPrefixedSlice(KeyRead(input).rest)
RoundReads(op, input) ==
    LET L == Len(Operation(op))
        key == KeyRead(input)
        val == ValueRead(input)
    IN  /\ Head(input) = Tag(op)
        /\ L <= Len(input) => /\ key.ok = TRUE /\ key.v = op.key
                              /\ val.ok = TRUE /\ val.v = op.val /\ val.rest = Rest(input, L)
        /\ ~(L <= Len(input)) => key.ok = FALSE \/ (key.ok = TRUE /\ val.ok = FALSE)

\* One round of Iterate on an input that begins with an operation, or with a part of it.
LEMMA OperationRead ==
    ASSUME NEW op \in Ops, NEW input \in Seq(Nat), input # <<>>, Agree(input, Operation(op))
    PROVE  RoundReads(op, input)
<1> DEFINE L == Len(Operation(op))
           key == KeyRead(input)
           val == ValueRead(input)
           Round == /\ Head(input) = Tag(op)
                    /\ L <= Len(input) => /\ key.ok = TRUE /\ key.v = op.key
                                          /\ val.ok = TRUE /\ val.v = op.val /\ val.rest = Rest(input, L)
                    /\ ~(L <= Len(input)) => key.ok = FALSE \/ (key.ok = TRUE /\ val.ok = FALSE)
<1> SUFFICES Round
  BY DEF RoundReads
<1>0. /\ L = Len(Operation(op)) /\ key = GetLengthPrefixedSlice(Tail(input))
      /\ val = IF Head(input) = kTypeDeletion THEN [ok |-> TRUE, v |-> <<>>, rest |-> key.rest]
               ELSE GetLengthPrefixedSlice(key.rest)
  BY DEF KeyRead, ValueRead
<1> HIDE DEF L, key, val
<1> DEFINE K == PutLengthPrefixedSlice(op.key)
           V == PutLengthPrefixedSlice(op.val)
           rest == Rest(input, 1)
<1>1. /\ K \in Seq(Nat) /\ V \in Seq(Nat) /\ Operation(op) \in Seq(Nat)
      /\ op.key \in Seq(Nat) /\ Fits(Len(op.key)) /\ op.val \in Seq(Nat) /\ Fits(Len(op.val))
  BY OperationIs DEF Ops, FitStrings
<1>2. Len(input) \in Nat /\ Len(input) >= 1 /\ Head(input) = input[1]
  OBVIOUS
<1>3. Tail(input) = rest
  <2>1. Tail(input) = SubSeq(input, 2, Len(input))
    BY TailIsSubSeq
  <2> QED
    BY <2>1 DEF Rest
<1>4. rest \in Seq(Nat) /\ Len(rest) = Len(input) - 1
  BY <1>2, RestIs
<1>5. Operation(op) = IF op.del THEN <<0>> \o K ELSE (<<1>> \o K) \o V
  BY DEF Operation, kTypeDeletion, kTypeValue
<1> HIDE DEF K, V, rest
<1>6. Len(K) \in Nat /\ Len(V) \in Nat
  BY <1>1
<1>7. ASSUME Agree(rest, K)
      PROVE  /\ Len(K) <= Len(rest) => key = [ok |-> TRUE, v |-> op.key, rest |-> Rest(rest, Len(K))]
             /\ ~(Len(K) <= Len(rest)) => key = Fail
  BY <1>0, <1>1, <1>3, <1>4, <1>7, GetSliceIs DEF K, Rest
<1>8. CASE op.del
  <2>1. Agree(input, <<0>> \o K) /\ L = 1 + Len(K)
    <3>1. <<0>> \in Seq(Nat) /\ Len(<<0>>) = 1
      OBVIOUS
    <3>2. Len(<<0>> \o K) = Len(<<0>>) + Len(K)
      BY <1>1, <3>1, ConcatProperties
    <3> QED
      BY <1>0, <1>5, <1>8, <3>1, <3>2
  <2>2. Agree(input, <<0>>) /\ Agree(rest, K)
    <3>1. <<0>> \in Seq(Nat) /\ Len(<<0>>) = 1
      OBVIOUS
    <3>2. Agree(input, <<0>>) /\ (1 <= Len(input) => Agree(Rest(input, 1), K))
      BY <1>1, <2>1, <3>1, AgreeParts
    <3> QED
      BY <1>2, <3>2 DEF rest
  <2>3. input[1] = 0
    BY <1>2, <2>2 DEF Agree
  <2>4. Head(input) = kTypeDeletion /\ Tag(op) = kTypeDeletion
    BY <1>2, <1>8, <2>3 DEF kTypeDeletion, Tag
  <2>5. val = [ok |-> TRUE, v |-> <<>>, rest |-> key.rest] /\ op.val = <<>>
    BY <1>0, <1>8, <2>4 DEF Ops
  <2>6. CASE L <= Len(input)
    <3>1. Len(K) <= Len(rest) /\ 1 + Len(K) <= Len(input)
      BY <1>2, <1>4, <1>6, <2>1, <2>6
    <3>2. key = [ok |-> TRUE, v |-> op.key, rest |-> Rest(rest, Len(K))]
      BY <1>7, <2>2, <3>1
    <3>3. Rest(rest, Len(K)) = Rest(input, L)
      BY <1>6, <2>1, <3>1, RestOfRest DEF rest
    <3> QED
      BY <2>4, <2>5, <2>6, <3>2, <3>3
  <2>7. CASE ~(L <= Len(input))
    <3>1. ~(Len(K) <= Len(rest))
      BY <1>2, <1>4, <1>6, <2>1, <2>7
    <3>2. key = Fail
      BY <1>7, <2>2, <3>1
    <3> QED
      BY <2>4, <2>7, <3>2 DEF Fail
  <2> QED
    BY <2>6, <2>7
<1>9. CASE ~op.del
  <2>1. <<1>> \in Seq(Nat) /\ Len(<<1>>) = 1
    OBVIOUS
  <2>2. <<1>> \o K \in Seq(Nat) /\ Len(<<1>> \o K) = 1 + Len(K)
    BY <1>1, <2>1, ConcatProperties
  <2>3. Agree(input, (<<1>> \o K) \o V) /\ L = 1 + Len(K) + Len(V)
    <3>1. Len((<<1>> \o K) \o V) = Len(<<1>> \o K) + Len(V)
      BY <1>1, <2>2, ConcatProperties
    <3> QED
      BY <1>0, <1>5, <1>9, <2>2, <3>1
  <2>4. Agree(input, <<1>> \o K) /\ (1 + Len(K) <= Len(input) => Agree(Rest(input, 1 + Len(K)), V))
    <3>1. Agree(input, <<1>> \o K) /\ (Len(<<1>> \o K) <= Len(input) => Agree(Rest(input, Len(<<1>> \o K)), V))
      BY <1>1, <2>2, <2>3, AgreeParts
    <3> QED
      BY <2>2, <3>1
  <2>5. Agree(input, <<1>>) /\ Agree(rest, K)
    <3>1. Agree(input, <<1>>) /\ (Len(<<1>>) <= Len(input) => Agree(Rest(input, Len(<<1>>)), K))
      BY <1>1, <2>1, <2>4, AgreeParts
    <3> QED
      BY <1>2, <2>1, <3>1 DEF rest
  <2>6. input[1] = 1
    BY <1>2, <2>5 DEF Agree
  <2>7. Head(input) = kTypeValue /\ Tag(op) = kTypeValue /\ kTypeValue # kTypeDeletion
    BY <1>2, <1>9, <2>6 DEF kTypeValue, kTypeDeletion, Tag
  <2>8. val = GetLengthPrefixedSlice(key.rest)
    BY <1>0, <2>7
  <2>9. CASE ~(1 + Len(K) <= Len(input))
    <3>1. ~(Len(K) <= Len(rest)) /\ ~(L <= Len(input))
      BY <1>2, <1>4, <1>6, <2>3, <2>9
    <3>2. key = Fail
      BY <1>7, <2>5, <3>1
    <3> QED
      BY <2>7, <3>1, <3>2 DEF Fail
  <2>10. CASE 1 + Len(K) <= Len(input)
    <3>1. Len(K) <= Len(rest)
      BY <1>2, <1>4, <1>6, <2>10
    <3> DEFINE more == Rest(input, 1 + Len(K))
    <3>2. Rest(rest, Len(K)) = more
      BY <1>6, <2>10, RestOfRest DEF rest
    <3>3. more \in Seq(Nat) /\ Len(more) = Len(input) - (1 + Len(K)) /\ Agree(more, V)
      <4>1. 1 + Len(K) \in Nat
        BY <1>6
      <4> QED
        BY <2>4, <2>10, <4>1, RestIs
    <3> HIDE DEF more
    <3>4. key = [ok |-> TRUE, v |-> op.key, rest |-> more]
      BY <1>7, <2>5, <3>1, <3>2
    <3>5. key.ok = TRUE /\ key.v = op.key /\ val = GetLengthPrefixedSlice(more)
      BY <2>8, <3>4
    <3>6. /\ Len(V) <= Len(more) => val = [ok |-> TRUE, v |-> op.val, rest |-> Rest(more, Len(V))]
          /\ ~(Len(V) <= Len(more)) => val = Fail
      BY <1>1, <3>3, <3>5, GetSliceIs DEF V, Rest
    <3>7. CASE L <= Len(input)
      <4>1. Len(V) <= Len(more) /\ (1 + Len(K)) + Len(V) <= Len(input) /\ 1 + Len(K) \in Nat
        BY <1>2, <1>6, <2>3, <3>3, <3>7
      <4>2. Rest(more, Len(V)) = Rest(input, L)
        BY <1>6, <2>3, <4>1, RestOfRest DEF more
      <4>3. val = [ok |-> TRUE, v |-> op.val, rest |-> Rest(input, L)]
        BY <3>6, <4>1, <4>2
      <4> QED
        BY <2>7, <3>5, <3>7, <4>3
    <3>8. CASE ~(L <= Len(input))
      <4>1. ~(Len(V) <= Len(more))
        BY <1>2, <1>6, <2>3, <3>3, <3>8
      <4>2. val = Fail
        BY <3>6, <4>1
      <4> QED
        BY <2>7, <3>5, <3>8, <4>2 DEF Fail
    <3> QED
      BY <3>7, <3>8
  <2> QED
    BY <2>9, <2>10
<1> QED
  BY <1>8, <1>9

\* Where the operations of a batch end in its bytes.
Layout(ends, ops, rep) ==
    /\ ends \in [0..Len(ops) -> Nat] /\ ends[0] = 0 /\ ends[Len(ops)] = Len(rep)
    /\ \A i \in 1..Len(ops) :
         /\ ends[i] = ends[i - 1] + Len(Operation(ops[i])) /\ ends[i] <= Len(rep)
         /\ \A j \in 1..Len(Operation(ops[i])) : rep[ends[i - 1] + j] = Operation(ops[i])[j]

\* The batches whose bytes are those of their operations.
BatchType == [count: Nat, rep: Seq(Nat), ops: Seq(Ops)]
Batches == {r \in BatchType : r.count = Len(r.ops) /\ \E ends : Layout(ends, r.ops, r.rep)}

\* The empty batch.
LEMMA ClearIsBatch == ClearBatch \in Batches
<1> DEFINE ends == [i \in 0..0 |-> 0]
<1>1. <<>> \in Seq(Nat) /\ <<>> \in Seq(Ops) /\ Len(<<>>) = 0
  OBVIOUS
<1>2. Layout(ends, <<>>, <<>>)
  BY <1>1 DEF Layout
<1> QED
  BY <1>1, <1>2 DEF ClearBatch, Batches, BatchType

\* A batch of one operation.
LEMMA OneIsBatch ==
    ASSUME NEW op \in Ops
    PROVE  [count |-> 1, rep |-> Operation(op), ops |-> <<op>>] \in Batches
<1> DEFINE L == Len(Operation(op))
           ops == <<op>>
           ends == [i \in 0..1 |-> IF i = 0 THEN 0 ELSE L]
<1>1. Operation(op) \in Seq(Nat) /\ L \in Nat
  BY OperationIs
<1>2. ops \in Seq(Ops) /\ Len(ops) = 1 /\ ops[1] = op
  OBVIOUS
<1>3. ends \in [0..1 -> Nat] /\ ends[0] = 0 /\ ends[1] = L
  BY <1>1
<1> HIDE DEF ops, ends
<1>4. Layout(ends, ops, Operation(op))
  <2> SUFFICES ASSUME NEW i \in 1..1
               PROVE  /\ ends[i] = ends[i - 1] + Len(Operation(ops[i])) /\ ends[i] <= L
                      /\ \A j \in 1..Len(Operation(ops[i])) :
                           Operation(op)[ends[i - 1] + j] = Operation(ops[i])[j]
    BY <1>2, <1>3 DEF Layout
  <2>1. i = 1 /\ i - 1 = 0
    OBVIOUS
  <2> QED
    BY <1>1, <1>2, <1>3, <2>1
<1> QED
  BY <1>1, <1>2, <1>4 DEF Batches, BatchType, ops

\* The bytes of two batches, one after the other, are those of the operations of both.
LEMMA LayoutsJoin ==
    ASSUME NEW p \in Seq(Ops), NEW s \in Seq(Nat), NEW e, Layout(e, p, s),
           NEW q \in Seq(Ops), NEW t \in Seq(Nat), NEW f, Layout(f, q, t)
    PROVE  \E g : Layout(g, p \o q, s \o t)
<1> DEFINE m == Len(p)
           l == Len(q)
           S == Len(s)
           T == Len(t)
           g == [i \in 0..(m + l) |-> IF i <= m THEN e[i] ELSE S + f[i - m]]
           ops == p \o q
           rep == s \o t
<1>1. m \in Nat /\ l \in Nat /\ S \in Nat /\ T \in Nat
  OBVIOUS
<1>2. Len(ops) = m + l /\ \A i \in 1..(m + l) : ops[i] = IF i <= m THEN p[i] ELSE q[i - m]
  BY ConcatProperties
<1>3. Len(rep) = S + T /\ \A i \in 1..(S + T) : rep[i] = IF i <= S THEN s[i] ELSE t[i - S]
  BY ConcatProperties
<1>4. \A i \in 1..m : p[i] \in Ops
  BY <1>1
<1>5. \A i \in 1..l : q[i] \in Ops
  BY <1>1
<1>6. /\ e \in [0..m -> Nat] /\ e[0] = 0 /\ e[m] = S
      /\ \A i \in 1..m : /\ e[i] = e[i - 1] + Len(Operation(p[i])) /\ e[i] <= S
                         /\ \A j \in 1..Len(Operation(p[i])) : s[e[i - 1] + j] = Operation(p[i])[j]
  BY DEF Layout
<1>7. /\ f \in [0..l -> Nat] /\ f[0] = 0 /\ f[l] = T
      /\ \A i \in 1..l : /\ f[i] = f[i - 1] + Len(Operation(q[i])) /\ f[i] <= T
                         /\ \A j \in 1..Len(Operation(q[i])) : t[f[i - 1] + j] = Operation(q[i])[j]
  BY DEF Layout
<1> HIDE DEF m, l, S, T, ops, rep
<1>8. /\ \A i \in 0..m : g[i] = e[i] /\ e[i] \in Nat
      /\ \A i \in 0..l : g[m + i] = S + f[i] /\ f[i] \in Nat
  <2>1. ASSUME NEW i \in 0..m
        PROVE  g[i] = e[i] /\ e[i] \in Nat
    <3>1. i \in 0..(m + l) /\ i <= m
      BY <1>1, <2>1
    <3> QED
      BY <1>6, <3>1
  <2>2. ASSUME NEW i \in 0..l
        PROVE  g[m + i] = S + f[i] /\ f[i] \in Nat
    <3>1. m + i \in 0..(m + l) /\ (m + i) - m = i /\ (m + i <= m <=> i = 0)
      BY <1>1, <2>2
    <3>2. f[i] \in Nat /\ g[m + i] = IF m + i <= m THEN e[m + i] ELSE S + f[i]
      BY <1>7, <3>1
    <3>3. CASE i = 0
      <4>1. m + i = m
        BY <1>1, <3>3
      <4> HIDE DEF g
      <4> QED
        BY <1>1, <1>6, <1>7, <3>1, <3>2, <3>3, <4>1
    <3>4. CASE i # 0
      BY <3>1, <3>2, <3>4
    <3> QED
      BY <3>3, <3>4
  <2> QED
    BY <2>1, <2>2
<1>9. g \in [0..(m + l) -> Nat]
  <2>1. \A i \in 0..(m + l) : ~(i <= m) => i - m \in 0..l
    BY <1>1
  <2>2. \A i \in 0..(m + l) : i <= m => i \in 0..m
    BY <1>1
  <2>3. ASSUME NEW i \in 0..(m + l)
        PROVE  (IF i <= m THEN e[i] ELSE S + f[i - m]) \in Nat
    <3>1. CASE i <= m
      <4>1. e[i] \in Nat
        BY <1>8, <2>2, <3>1
      <4> QED
        BY <3>1, <4>1
    <3>2. CASE ~(i <= m)
      <4>1. f[i - m] \in Nat
        BY <1>8, <2>1, <3>2
      <4> QED
        BY <1>1, <3>2, <4>1
    <3> QED
      BY <3>1, <3>2
  <2> QED
    BY <2>3
<1> HIDE DEF g
<1>10. g[0] = 0 /\ g[m + l] = S + T
  <2>1. 0 \in 0..m /\ l \in 0..l
    BY <1>1
  <2> QED
    BY <1>6, <1>7, <1>8, <2>1
<1>11. ASSUME NEW i \in 1..(m + l)
       PROVE  /\ g[i] = g[i - 1] + Len(Operation(ops[i])) /\ g[i] <= S + T
              /\ \A j \in 1..Len(Operation(ops[i])) : rep[g[i - 1] + j] = Operation(ops[i])[j]
  <2>1. CASE i <= m
    <3>1. i \in 1..m /\ i \in 0..m /\ i - 1 \in 0..m
      BY <1>1, <2>1
    <3> DEFINE o == Operation(p[i])
    <3>2. ops[i] = p[i] /\ g[i] = e[i] /\ g[i - 1] = e[i - 1] /\ e[i] \in Nat /\ e[i - 1] \in Nat
      BY <1>2, <1>8, <2>1, <3>1
    <3>3. e[i] = e[i - 1] + Len(o) /\ e[i] <= S /\ \A j \in 1..Len(o) : s[e[i - 1] + j] = o[j]
      BY <1>6, <3>1
    <3>4. Len(o) \in Nat
      BY <1>4, <3>1, OperationIs
    <3> HIDE DEF o
    <3>5. \A j \in 1..Len(o) : e[i - 1] + j \in 1..(S + T) /\ e[i - 1] + j <= S
      BY <1>1, <3>2, <3>3, <3>4
    <3>6. \A j \in 1..Len(o) : rep[e[i - 1] + j] = o[j]
      BY <1>3, <3>3, <3>5
    <3> QED
      BY <1>1, <3>2, <3>3, <3>6 DEF o
  <2>2. CASE ~(i <= m)
    <3> DEFINE k == i - m
               o == Operation(q[k])
    <3>1. k \in 1..l /\ k \in 0..l /\ k - 1 \in 0..l /\ m + k = i /\ m + (k - 1) = i - 1
      BY <1>1, <2>2
    <3>2. ops[i] = q[k]
      BY <1>2, <2>2
    <3> HIDE DEF k
    <3>3. g[i] = S + f[k] /\ g[i - 1] = S + f[k - 1] /\ f[k] \in Nat /\ f[k - 1] \in Nat
      BY <1>8, <3>1
    <3>4. f[k] = f[k - 1] + Len(o) /\ f[k] <= T /\ \A j \in 1..Len(o) : t[f[k - 1] + j] = o[j]
      BY <1>7, <3>1
    <3>5. Len(o) \in Nat
      BY <1>5, <3>1, OperationIs
    <3> HIDE DEF o
    <3>6. ASSUME NEW j \in 1..Len(o)
          PROVE  /\ S + f[k - 1] + j \in 1..(S + T) /\ ~(S + f[k - 1] + j <= S)
                 /\ (S + f[k - 1] + j) - S = f[k - 1] + j
      <4>1. \A a \in Nat, b \in Nat, c \in Nat : b = a + c /\ b <= T /\ j <= c
              => S + a + j \in 1..(S + T) /\ ~(S + a + j <= S) /\ (S + a + j) - S = a + j
        BY <1>1, <3>5
      <4>2. j <= Len(o)
        BY <3>5
      <4> QED
        BY <3>3, <3>4, <3>5, <4>1, <4>2
    <3>7. \A j \in 1..Len(o) : rep[S + f[k - 1] + j] = o[j]
      BY <1>3, <3>4, <3>6
    <3>8. g[i] = g[i - 1] + Len(o) /\ g[i] <= S + T
      BY <1>1, <3>3, <3>4, <3>5
    <3> QED
      BY <3>2, <3>3, <3>7, <3>8 DEF o
  <2> QED
    BY <2>1, <2>2
<1>12. Layout(g, ops, rep)
  BY <1>2, <1>3, <1>9, <1>10, <1>11 DEF Layout
<1> QED
  BY <1>12 DEF ops, rep

\* WriteBatch::Append.
LEMMA BatchesJoin ==
    ASSUME NEW r \in Batches, NEW q \in Batches
    PROVE  [count |-> r.count + q.count, rep |-> r.rep \o q.rep, ops |-> r.ops \o q.ops] \in Batches
<1>1. /\ r.count = Len(r.ops) /\ r.rep \in Seq(Nat) /\ r.ops \in Seq(Ops)
      /\ q.count = Len(q.ops) /\ q.rep \in Seq(Nat) /\ q.ops \in Seq(Ops)
  BY DEF Batches, BatchType
<1>2. \E g : Layout(g, r.ops \o q.ops, r.rep \o q.rep)
  <2>1. PICK e : Layout(e, r.ops, r.rep)
    BY DEF Batches
  <2>2. PICK f : Layout(f, q.ops, q.rep)
    BY DEF Batches
  <2> QED
    BY <1>1, <2>1, <2>2, LayoutsJoin
<1>3. r.rep \o q.rep \in Seq(Nat)
  BY <1>1, ConcatProperties
<1>4. r.ops \o q.ops \in Seq(Ops) /\ Len(r.ops \o q.ops) = Len(r.ops) + Len(q.ops)
  BY <1>1, ConcatProperties
<1>5. r.count + q.count \in Nat
  BY DEF Batches, BatchType
<1> QED
  BY <1>1, <1>2, <1>3, <1>4, <1>5 DEF Batches, BatchType

\* WriteBatch::Put and WriteBatch::Delete.
LEMMA BatchGrows ==
    ASSUME NEW r \in Batches, NEW op \in Ops
    PROVE  [count |-> r.count + 1, rep |-> r.rep \o Operation(op), ops |-> Append(r.ops, op)] \in Batches
<1> DEFINE q == [count |-> 1, rep |-> Operation(op), ops |-> <<op>>]
<1>1. q \in Batches
  BY OneIsBatch
<1>2. q.count = 1 /\ q.rep = Operation(op) /\ q.ops = <<op>>
  OBVIOUS
<1> HIDE DEF q
<1>3. [count |-> r.count + q.count, rep |-> r.rep \o q.rep, ops |-> r.ops \o q.ops] \in Batches
  BY <1>1, BatchesJoin
<1>4. Append(r.ops, op) = r.ops \o <<op>>
  <2>1. r.ops \in Seq(Ops)
    BY DEF Batches, BatchType
  <2> QED
    BY <2>1, AppendIsConcat
<1> QED
  BY <1>2, <1>3, <1>4

\* A batch that is read: n bytes of it are left by the cut, and as many operations
\* as the reading delivered are gone from the input.
Reading(n) ==
    LET r == bt.b[1]
        k == Len(bt.out)
    IN  \E ends : /\ Layout(ends, r.ops, r.rep) /\ k <= Len(r.ops) /\ ends[k] <= n
                  /\ bt.in = Rest(SubSeq(r.rep, 1, n), ends[k])

\* What was delivered is a prefix of the batch, under consecutive sequence numbers.
Delivered ==
    /\ Len(bt.out) <= Len(bt.b[1].ops)
    /\ \A i \in 1..Len(bt.out) : bt.out[i].s = i /\ bt.out[i].op = bt.b[1].ops[i]

BatchStates ==
    [phase: {"build", "iterate", "done"}, b: [1..2 -> Batches], in: Seq(Nat), cut: BOOLEAN,
     seq: Nat, found: Nat, out: Seq([s: Nat, op: Ops]), st: {"none", "ok", "corruption"}]

BatchInv ==
    /\ bt \in BatchStates
    /\ bt.phase = "build" => bt.out = <<>> /\ bt.seq = 1 /\ bt.found = 0
    /\ bt.phase = "iterate" =>
         /\ bt.found = Len(bt.out) /\ bt.seq = Len(bt.out) + 1
         /\ \E n \in 0..Len(bt.b[1].rep) : bt.cut = (n < Len(bt.b[1].rep)) /\ Reading(n)
    /\ Delivered
    /\ bt.phase = "done" => (bt.st = "ok" <=> ~bt.cut) /\ (bt.st = "ok" => Len(bt.out) = Len(bt.b[1].ops))

\* The invariant says what the property says.
LEMMA BatchInvReads == BatchInv => BatchReadsBack
<1> SUFFICES ASSUME BatchInv
             PROVE  BatchReadsBack
  OBVIOUS
<1> DEFINE ops == bt.b[1].ops
           out == bt.out
           delivered == [i \in DOMAIN out |-> out[i].op]
<1>1. /\ bt.b[1] \in Batches /\ out \in Seq([s: Nat, op: Ops])
  BY DEF BatchInv, BatchStates
<1>2. ops \in Seq(Ops) /\ Len(ops) \in Nat
  BY <1>1 DEF Batches, BatchType
<1>3. Len(out) <= Len(ops) /\ \A i \in 1..Len(out) : out[i].s = i /\ out[i].op = ops[i]
  BY DEF BatchInv, Delivered
<1>4. bt.phase = "done" => (bt.st = "ok" <=> ~bt.cut) /\ (bt.st = "ok" => Len(out) = Len(ops))
  BY DEF BatchInv
<1> HIDE DEF ops, out
<1>5. Len(out) \in Nat /\ DOMAIN out = 1..Len(out) /\ \A i \in 1..Len(out) : out[i].op \in Ops
  <2>1. Len(out) \in Nat /\ DOMAIN out = 1..Len(out)
    BY <1>1
  <2>2. \A i \in 1..Len(out) : out[i] \in [s: Nat, op: Ops]
    BY <1>1, ElementOfSeq
  <2> QED
    BY <2>1, <2>2
<1>6. delivered \in Seq(Ops) /\ Len(delivered) = Len(out) /\ \A i \in 1..Len(out) : delivered[i] = ops[i]
  <2>1. delivered = [i \in 1..Len(out) |-> out[i].op]
    BY <1>5
  <2>2. delivered \in Seq(Ops) /\ Len(delivered) = Len(out)
    BY <1>5, <2>1, IsASeq
  <2>3. \A i \in 1..Len(out) : delivered[i] = ops[i]
    BY <1>3, <2>1
  <2> QED
    BY <2>2, <2>3
<1> HIDE DEF delivered
<1>7. IsPrefix(delivered, ops)
  <2> DEFINE a == SubSeq(delivered, 1, Len(delivered))
             b == SubSeq(ops, 1, Len(delivered))
  <2>1. \A i \in 1..Len(out) : delivered[i] \in Ops /\ ops[i] \in Ops
    BY <1>2, <1>3, <1>5, <1>6
  <2>2. /\ a \in Seq(Ops) /\ Len(a) = (IF 1 <= Len(out) THEN Len(out) - 1 + 1 ELSE 0)
        /\ \A i \in 1..(Len(out) - 1 + 1) : a[i] = delivered[1 + i - 1]
    BY <1>5, <1>6, <2>1, SubSeqProperties
  <2>3. /\ b \in Seq(Ops) /\ Len(b) = (IF 1 <= Len(out) THEN Len(out) - 1 + 1 ELSE 0)
        /\ \A i \in 1..(Len(out) - 1 + 1) : b[i] = ops[1 + i - 1]
    BY <1>5, <1>6, <2>1, SubSeqProperties
  <2> HIDE DEF a, b
  <2>4. Len(out) - 1 + 1 = Len(out) /\ Len(a) = Len(out) /\ Len(b) = Len(out)
    BY <1>5, <2>2, <2>3
  <2>5. \A i \in 1..Len(out) : 1 + i - 1 = i
    BY <1>5
  <2>6. \A i \in 1..Len(out) : a[i] = b[i]
    BY <1>6, <2>2, <2>3, <2>4, <2>5
  <2>7. a = b
    BY <2>2, <2>3, <2>4, <2>6, SeqEqual
  <2> QED
    BY <1>3, <1>6, <2>7 DEF IsPrefix, a, b
<1>8. Len(out) = Len(ops) => delivered = ops
  BY <1>2, <1>6, SeqEqual
<1> QED
  BY <1>3, <1>4, <1>5, <1>7, <1>8 DEF BatchReadsBack, ops, out, delivered

\* Initially.
LEMMA BatchInitInv == BatchInit => BatchInv
<1> SUFFICES ASSUME BatchInit
             PROVE  BatchInv
  OBVIOUS
<1>1. ClearBatch \in Batches /\ <<ClearBatch, ClearBatch>> \in [1..2 -> Batches]
  BY ClearIsBatch
<1>2. ClearBatch.ops = <<>>
  BY DEF ClearBatch
<1> HIDE DEF ClearBatch
<1>3. <<>> \in Seq(Nat) /\ <<>> \in Seq([s: Nat, op: Ops]) /\ Len(<<>>) = 0
  OBVIOUS
<1>4. /\ bt \in BatchStates /\ bt.phase = "build" /\ bt.out = <<>> /\ bt.seq = 1 /\ bt.found = 0
      /\ bt.b[1] = ClearBatch
  BY <1>1, <1>3 DEF BatchInit, BatchStates
<1>5. Delivered
  BY <1>2, <1>3, <1>4 DEF Delivered
<1> QED
  BY <1>4, <1>5 DEF BatchInv

\* A batch is written: nothing is delivered yet.
LEMMA WrittenKeeps ==
    ASSUME BatchInv, bt.phase = "build", NEW b \in [1..2 -> Batches], bt' = [bt EXCEPT !.b = b]
    PROVE  BatchInv'
<1>1. bt \in BatchStates /\ bt.out = <<>> /\ bt.seq = 1 /\ bt.found = 0
  BY DEF BatchInv
<1>2. /\ bt' \in BatchStates /\ bt'.phase = "build" /\ bt'.out = <<>> /\ bt'.seq = 1 /\ bt'.found = 0
      /\ bt'.b = b
  BY <1>1 DEF BatchStates
<1>3. Delivered'
  <2>1. b[1].ops \in Seq(Ops)
    BY DEF Batches, BatchType
  <2>2. Len(b[1].ops) \in Nat /\ Len(<<>>) = 0
    BY <2>1
  <2> QED
    BY <1>2, <2>2 DEF Delivered
<1> QED
  BY <1>2, <1>3 DEF BatchInv

\* An operation is added.
LEMMA AddedKeeps ==
    ASSUME BatchInv, bt.phase = "build", NEW i \in 1..2, NEW op \in Ops,
           bt' = [bt EXCEPT !.b[i] = [count |-> bt.b[i].count + 1, rep |-> bt.b[i].rep \o Operation(op),
                                      ops |-> Append(bt.b[i].ops, op)]]
    PROVE  BatchInv'
<1> DEFINE r == [count |-> bt.b[i].count + 1, rep |-> bt.b[i].rep \o Operation(op),
                 ops |-> Append(bt.b[i].ops, op)]
<1>1. bt \in BatchStates /\ bt.b \in [1..2 -> Batches]
  BY DEF BatchInv, BatchStates
<1>2. r \in Batches
  BY <1>1, BatchGrows
<1>3. bt' = [bt EXCEPT !.b[i] = r]
  OBVIOUS
<1> HIDE DEF r
<1> DEFINE b == [bt.b EXCEPT ![i] = r]
<1>4. b \in [1..2 -> Batches]
  BY <1>1, <1>2
<1>5. bt' = [bt EXCEPT !.b = b]
  BY <1>1, <1>3 DEF BatchStates
<1> HIDE DEF b
<1> QED
  BY <1>4, <1>5, WrittenKeeps

\* The strings a batch is given fit.
LEMMA StringsFit ==
    /\ \A s \in Strings : s \in FitStrings
    /\ <<>> \in FitStrings
<1>1. \A s \in Strings : s \in FitStrings
  BY RecordsAssumption DEF FitStrings, Fits
<1>2. Shifted(0)[VarintBytes] = 0
  <2> DEFINE left == Shifted(0)
             bad == {n \in 0..VarintBytes : left[n] # 0}
  <2>1. VarintBytes \in Nat /\ Half \in Nat /\ Half > 0
    BY RecordsAssumption
  <2>2. left[0] = 0 /\ \A n \in 1..VarintBytes : left[n] = left[n - 1] \div Half
    BY ShiftedIs
  <2> HIDE DEF left
  <2>3. SUFFICES ASSUME bad # {}
                 PROVE  FALSE
    <3>1. bad = {} => left[VarintBytes] = 0
      BY <2>1
    <3> QED
      BY <2>3, <3>1 DEF left
  <2>4. PICK m \in bad : \A j \in bad : m <= j
    <3>1. bad \in SUBSET Nat
      BY <2>1
    <3> HIDE DEF bad
    <3> QED
      BY <2>3, <3>1, LeastElement
  <2>5. m \in 1..VarintBytes /\ m - 1 \in 0..VarintBytes /\ m - 1 \notin bad
    <3>1. m # 0
      BY <2>2, <2>4
    <3>2. m \in 0..VarintBytes /\ \A j \in bad : m <= j
      BY <2>4
    <3> HIDE DEF bad
    <3> QED
      BY <2>1, <3>1, <3>2
  <2>6. left[m - 1] = 0
    BY <2>5
  <2>7. 0 \div Half = 0
    BY <2>1
  <2>8. left[m] = 0
    BY <2>2, <2>5, <2>6, <2>7
  <2> QED
    BY <2>4, <2>8
<1>3. <<>> \in Seq(Nat) /\ Len(<<>>) = 0 /\ 0 \in Nat
  OBVIOUS
<1> QED
  BY <1>1, <1>2, <1>3 DEF FitStrings, Fits

\* The batch is read back from its first n bytes.
LEMMA StartIterateKeeps ==
    ASSUME BatchInv, NEW n \in 0..Len(bt.b[1].rep), StartIterate(n)
    PROVE  BatchInv'
<1> DEFINE r == bt.b[1]
           input == SubSeq(r.rep, 1, n)
           cut == n < Len(r.rep)
<1>1. bt \in BatchStates /\ bt.phase = "build" /\ bt.out = <<>> /\ bt.seq = 1 /\ bt.found = 0
  BY DEF BatchInv, StartIterate
<1>2. r \in Batches /\ r.rep \in Seq(Nat) /\ r.ops \in Seq(Ops)
  <2>1. r \in Batches
    BY <1>1 DEF BatchStates
  <2> HIDE DEF r
  <2> QED
    BY <2>1 DEF Batches, BatchType
<1>3. bt' = [bt EXCEPT !.phase = "iterate", !.in = input, !.cut = cut]
  BY DEF StartIterate
<1>4. PICK ends : Layout(ends, r.ops, r.rep)
  BY <1>2 DEF Batches
<1> HIDE DEF r
<1>5. Len(r.rep) \in Nat /\ n \in Nat /\ n <= Len(r.rep) /\ Len(r.ops) \in Nat
  BY <1>2 DEF r
<1>6. input \in Seq(Nat) /\ Len(input) = n
  <2>1. IsPart(SubSeq(r.rep, 0 + 1, n), r.rep, 0, n)
    BY <1>2, <1>5, PartIs
  <2>2. 0 + 1 = 1 /\ n - 0 = n
    BY <1>5
  <2> QED
    BY <2>1, <2>2 DEF IsPart
<1>7. input = Rest(input, ends[0])
  <2>1. ends[0] = 0
    BY <1>4 DEF Layout
  <2> HIDE DEF input
  <2>2. Len(input) \in Nat /\ 0 <= Len(input)
    BY <1>5, <1>6
  <2>3. /\ Rest(input, 0) \in Seq(Nat) /\ Len(Rest(input, 0)) = Len(input) - 0
        /\ \A i \in 1..(Len(input) - 0) : Rest(input, 0)[i] = input[0 + i]
    BY <1>6, <2>2, RestIs
  <2>4. Rest(input, 0) = input
    <3>1. Len(input) - 0 = Len(input) /\ \A i \in 1..Len(input) : 0 + i = i
      BY <2>2
    <3> QED
      BY <1>6, <2>3, <3>1, SeqEqual
  <2> QED
    BY <2>1, <2>4
<1>8. cut \in BOOLEAN
  OBVIOUS
<1> HIDE DEF input, cut
<1>9. /\ bt' \in BatchStates /\ bt'.phase = "iterate" /\ bt'.out = <<>> /\ bt'.seq = 1 /\ bt'.found = 0
      /\ bt'.b = bt.b /\ bt'.in = input /\ bt'.cut = cut
  BY <1>1, <1>3, <1>6, <1>8 DEF BatchStates
<1>10. Len(<<>>) = 0 /\ ends[0] = 0
  BY <1>4 DEF Layout
<1>11. Reading(n)'
  <2>1. Layout(ends, r.ops, r.rep) /\ 0 <= Len(r.ops) /\ ends[0] <= n
    BY <1>4, <1>5, <1>10
  <2> QED
    BY <1>7, <1>9, <1>10, <2>1 DEF Reading, r, input
<1>12. Delivered'
  BY <1>5, <1>9, <1>10 DEF Delivered, r
<1>13. \E k \in 0..Len(bt'.b[1].rep) : bt'.cut = (k < Len(bt'.b[1].rep)) /\ Reading(k)'
  BY <1>9, <1>11 DEF cut, r
<1> QED
  BY <1>9, <1>10, <1>12, <1>13 DEF BatchInv

\* Where the reading of a batch is: before an operation, or at the end of what is left.
At(ends, n) ==
    LET r == bt.b[1]
        k == Len(bt.out)
    IN  /\ Layout(ends, r.ops, r.rep) /\ k <= Len(r.ops) /\ ends[k] <= n
        /\ bt.in = Rest(SubSeq(r.rep, 1, n), ends[k])

\* What is left to be read.
InputFacts(ends, n) ==
    LET ops == bt.b[1].ops
        rep == bt.b[1].rep
        k == Len(bt.out)
        t == SubSeq(rep, 1, n)
    IN  /\ rep \in Seq(Nat) /\ ops \in Seq(Ops) /\ Len(rep) \in Nat /\ n \in Nat /\ n <= Len(rep)
        /\ k \in Nat /\ k <= Len(ops) /\ ends[k] \in Nat /\ ends[k] <= n
        /\ bt.in \in Seq(Nat) /\ Len(bt.in) = n - ends[k]
        /\ \A i \in 1..(n - ends[k]) : bt.in[i] = rep[ends[k] + i]
        /\ bt.in = Rest(t, ends[k]) /\ t \in Seq(Nat) /\ Len(t) = n
LEMMA InputIs ==
    ASSUME BatchInv, bt.phase = "iterate", NEW n \in 0..Len(bt.b[1].rep), NEW ends, At(ends, n)
    PROVE  InputFacts(ends, n)
<1> DEFINE k == Len(bt.out)
           ops == bt.b[1].ops
           rep == bt.b[1].rep
           t == SubSeq(rep, 1, n)
<1>1. bt.b[1] \in Batches /\ bt.out \in Seq([s: Nat, op: Ops])
  BY DEF BatchInv, BatchStates
<1>2. rep \in Seq(Nat) /\ ops \in Seq(Ops)
  BY <1>1 DEF Batches, BatchType
<1>3. Len(rep) \in Nat /\ n \in Nat /\ n <= Len(rep) /\ k \in Nat /\ Len(ops) \in Nat
  <2>1. Len(bt.out) \in Nat
    BY <1>1
  <2>2. Len(rep) \in Nat
    BY <1>2, LenProperties
  <2>3. Len(ops) \in Nat
    BY <1>2, LenProperties
  <2>4. n \in 0..Len(rep)
    OBVIOUS
  <2> QED
    BY <2>1, <2>2, <2>3, <2>4
<1>4. Layout(ends, ops, rep) /\ k <= Len(ops) /\ ends[k] <= n /\ bt.in = Rest(t, ends[k])
  BY DEF At
<1>5. ends[k] \in Nat
  <2>1. ends \in [0..Len(ops) -> Nat]
    BY <1>4 DEF Layout
  <2>2. k \in 0..Len(ops)
    BY <1>3, <1>4
  <2> QED
    BY <2>1, <2>2
<1>6. t \in Seq(Nat) /\ Len(t) = n /\ \A i \in 1..n : t[i] = rep[i]
  <2>1. IsPart(SubSeq(rep, 0 + 1, n), rep, 0, n)
    BY <1>2, <1>3, PartIs
  <2>2. 0 + 1 = 1 /\ n - 0 = n /\ \A i \in 1..n : 0 + i = i
    BY <1>3
  <2> QED
    BY <2>1, <2>2 DEF IsPart
<1> HIDE DEF t
<1>7. /\ Rest(t, ends[k]) \in Seq(Nat) /\ Len(Rest(t, ends[k])) = n - ends[k]
      /\ \A i \in 1..(n - ends[k]) : Rest(t, ends[k])[i] = t[ends[k] + i] /\ ends[k] + i \in 1..n
  BY <1>4, <1>5, <1>6, RestIs
<1>8. \A i \in 1..(n - ends[k]) : bt.in[i] = rep[ends[k] + i]
  BY <1>4, <1>6, <1>7
<1>9. bt.in \in Seq(Nat) /\ Len(bt.in) = n - ends[k]
  BY <1>4, <1>7
<1> QED
  BY <1>2, <1>3, <1>4, <1>5, <1>6, <1>8, <1>9 DEF t, InputFacts

\* The input is used up: the number of operations tells whether it was cut.
LEMMA IterateEnds ==
    ASSUME BatchInv, bt.phase = "iterate", NEW n \in 0..Len(bt.b[1].rep),
           bt.cut = (n < Len(bt.b[1].rep)), NEW ends, At(ends, n), bt.in = <<>>,
           NEW st, st = (IF bt.found = bt.b[1].count THEN "ok" ELSE "corruption"),
           bt' = [bt EXCEPT !.phase = "done", !.st = st]
    PROVE  BatchInv'
<1> DEFINE k == Len(bt.out)
           ops == bt.b[1].ops
           rep == bt.b[1].rep
<1>1. /\ bt \in BatchStates /\ bt.b[1] \in Batches /\ bt.found = k /\ Delivered
  BY DEF BatchInv, BatchStates
<1>2. bt.b[1].count = Len(ops) /\ Layout(ends, ops, rep)
  BY <1>1 DEF Batches, At
<1>3. /\ rep \in Seq(Nat) /\ ops \in Seq(Ops) /\ Len(rep) \in Nat /\ n \in Nat /\ n <= Len(rep)
      /\ k \in Nat /\ k <= Len(ops) /\ ends[k] \in Nat /\ ends[k] <= n /\ Len(bt.in) = n - ends[k]
  <2>1. InputFacts(ends, n)
    BY InputIs
  <2> QED
    BY <2>1 DEF InputFacts
<1>4. n = ends[k]
  <2>1. Len(bt.in) = 0
    OBVIOUS
  <2> HIDE DEF k, rep
  <2> QED
    BY <1>3, <2>1
<1> HIDE DEF k, ops, rep
<1>5. k = Len(ops) => ~(n < Len(rep))
  <2>1. ends[Len(ops)] = Len(rep)
    BY <1>2 DEF Layout
  <2> QED
    BY <1>3, <1>4, <2>1
<1>6. k # Len(ops) => n < Len(rep)
  <2> SUFFICES ASSUME k # Len(ops)
               PROVE  n < Len(rep)
    OBVIOUS
  <2>1. k + 1 \in 1..Len(ops) /\ (k + 1) - 1 = k
    BY <1>3
  <2>2. ends[k + 1] = ends[k] + Len(Operation(ops[k + 1])) /\ ends[k + 1] <= Len(rep)
    BY <1>2, <2>1 DEF Layout
  <2>3. Len(Operation(ops[k + 1])) \in Nat /\ Len(Operation(ops[k + 1])) > 0
    <3>1. ops[k + 1] \in Ops
      BY <1>3, <2>1
    <3> QED
      BY <3>1, OperationIs
  <2> QED
    BY <1>3, <1>4, <2>2, <2>3
<1>7. st = (IF k = Len(ops) THEN "ok" ELSE "corruption") /\ bt.cut = (n < Len(rep))
  BY <1>1, <1>2 DEF rep
<1>8. (st = "ok" <=> k = Len(ops)) /\ st \in {"none", "ok", "corruption"}
  BY <1>7
<1>9. /\ bt' \in BatchStates /\ bt'.phase = "done" /\ bt'.out = bt.out /\ bt'.b = bt.b /\ bt'.cut = bt.cut
      /\ bt'.st = st
  BY <1>1, <1>8 DEF BatchStates
<1>10. Delivered'
  BY <1>1, <1>9 DEF Delivered
<1>11. st = "ok" <=> ~bt.cut
  BY <1>5, <1>6, <1>7, <1>8
<1> QED
  BY <1>8, <1>9, <1>10, <1>11 DEF BatchInv, k, ops

\* A round that reports corruption: some of the batch was cut off.
LEMMA IterateFails ==
    ASSUME BatchInv, bt.cut = TRUE,
           bt' = [bt EXCEPT !.phase = "done", !.found = bt.found + 1, !.st = "corruption"]
    PROVE  BatchInv'
<1>1. bt \in BatchStates /\ Delivered /\ bt.found + 1 \in Nat
  BY DEF BatchInv, BatchStates
<1>2. /\ bt' \in BatchStates /\ bt'.phase = "done" /\ bt'.out = bt.out /\ bt'.b = bt.b /\ bt'.cut = bt.cut
      /\ bt'.st = "corruption"
  BY <1>1 DEF BatchStates
<1>3. Delivered'
  BY <1>1, <1>2 DEF Delivered
<1> QED
  BY <1>2, <1>3 DEF BatchInv

\* A round that delivers an operation.
LEMMA IterateDelivers ==
    ASSUME BatchInv, bt.phase = "iterate", NEW n \in 0..Len(bt.b[1].rep),
           bt.cut = (n < Len(bt.b[1].rep)), NEW ends, At(ends, n),
           NEW k, k = Len(bt.out), k + 1 \in 1..Len(bt.b[1].ops), NEW op, op = bt.b[1].ops[k + 1],
           Len(Operation(op)) <= Len(bt.in), NEW rest, rest = Rest(bt.in, Len(Operation(op))),
           bt' = [bt EXCEPT !.in = rest, !.found = bt.found + 1, !.seq = bt.seq + 1,
                            !.out = Append(bt.out, [s |-> bt.seq, op |-> op])]
    PROVE  BatchInv'
<1> DEFINE ops == bt.b[1].ops
           rep == bt.b[1].rep
           t == SubSeq(rep, 1, n)
           L == Len(Operation(op))
           x == [s |-> bt.seq, op |-> op]
           out == Append(bt.out, x)
<1>1. /\ bt \in BatchStates /\ bt.b[1] \in Batches /\ bt.found = k /\ Delivered /\ bt.seq = k + 1
      /\ bt.out \in Seq([s: Nat, op: Ops])
  BY DEF BatchInv, BatchStates
<1>2. Layout(ends, ops, rep)
  BY DEF At
<1>3. /\ rep \in Seq(Nat) /\ ops \in Seq(Ops) /\ Len(rep) \in Nat /\ n \in Nat /\ n <= Len(rep)
      /\ k \in Nat /\ k <= Len(ops) /\ ends[k] \in Nat /\ ends[k] <= n /\ Len(bt.in) = n - ends[k]
      /\ bt.in = Rest(t, ends[k]) /\ t \in Seq(Nat) /\ Len(t) = n
  <2>1. InputFacts(ends, n)
    BY InputIs
  <2> QED
    BY <2>1 DEF InputFacts
<1> HIDE DEF ops, rep, t
<1>4. (k + 1) - 1 = k /\ k + 1 <= Len(ops) /\ Len(ops) \in Nat
  BY <1>3 DEF ops
<1>5. op \in Ops
  BY <1>3 DEF ops
<1>6. L \in Nat /\ Operation(op) \in Seq(Nat)
  BY <1>5, OperationIs
<1>7. ends[k + 1] = ends[k] + L
  BY <1>2, <1>4 DEF Layout, ops
<1>8. ends[k] + L <= n
  BY <1>3, <1>6
<1>9. rest \in Seq(Nat)
  <2>1. bt.in \in Seq(Nat)
    BY <1>1 DEF BatchStates
  <2> QED
    BY <1>6, <2>1, RestIs
<1>10. rest = Rest(t, ends[k + 1])
  BY <1>3, <1>6, <1>7, <1>8, RestOfRest
<1>11. x \in [s: Nat, op: Ops] /\ x.s = k + 1 /\ x.op = op
  BY <1>1, <1>3, <1>5
<1> HIDE DEF x
<1>12. out \in Seq([s: Nat, op: Ops]) /\ Len(out) = k + 1
  BY <1>1, <1>11, AppendProperties
<1>13. \A i \in 1..(k + 1) : out[i] = IF i <= k THEN bt.out[i] ELSE x
  <2>1. /\ \A i \in 1..Len(bt.out) : out[i] = bt.out[i]
        /\ out[Len(bt.out) + 1] = x
    BY <1>1, <1>11, AppendProperties
  <2>2. \A i \in 1..(k + 1) : i <= k => i \in 1..k
    BY <1>3
  <2>3. \A i \in 1..(k + 1) : ~(i <= k) => i = k + 1
    BY <1>3
  <2> HIDE DEF out
  <2> QED
    BY <2>1, <2>2, <2>3
<1> HIDE DEF out, L
<1>14. /\ bt' \in BatchStates /\ bt'.phase = "iterate" /\ bt'.out = out /\ bt'.b = bt.b /\ bt'.cut = bt.cut
       /\ bt'.found = k + 1 /\ bt'.seq = (k + 1) + 1 /\ bt'.in = rest
  <2>1. bt' = [bt EXCEPT !.in = rest, !.found = k + 1, !.seq = (k + 1) + 1, !.out = out]
    BY <1>1 DEF out, x
  <2>2. k + 1 \in Nat /\ (k + 1) + 1 \in Nat
    BY <1>3
  <2> QED
    BY <1>1, <1>9, <1>12, <2>1, <2>2 DEF BatchStates
<1>15. Reading(n)'
  <2>1. Layout(ends, ops, rep) /\ k + 1 <= Len(ops) /\ ends[k + 1] <= n
    BY <1>2, <1>4, <1>7, <1>8
  <2> QED
    BY <1>10, <1>12, <1>14, <2>1 DEF Reading, ops, rep, t
<1>16. Delivered'
  <2>1. ASSUME NEW i \in 1..(k + 1)
        PROVE  out[i].s = i /\ out[i].op = ops[i]
    <3>1. CASE i <= k
      <4>1. i \in 1..k
        BY <1>3, <3>1
      <4>2. bt.out[i].s = i /\ bt.out[i].op = ops[i]
        BY <1>1, <4>1 DEF Delivered, ops
      <4> QED
        BY <1>13, <3>1, <4>2
    <3>2. CASE ~(i <= k)
      <4>1. i = k + 1
        <5>1. k \in Nat
          BY <1>3
        <5> QED
          BY <3>2, <5>1
      <4> QED
        BY <1>11, <1>13, <3>2, <4>1 DEF ops
    <3> QED
      BY <3>1, <3>2
  <2> QED
    BY <1>4, <1>12, <1>14, <2>1 DEF Delivered, ops
<1>17. \E m \in 0..Len(bt'.b[1].rep) : bt'.cut = (m < Len(bt'.b[1].rep)) /\ Reading(m)'
  BY <1>14, <1>15
<1> QED
  BY <1>12, <1>14, <1>16, <1>17 DEF BatchInv

\* One round of WriteBatch::Iterate.
LEMMA IterateKeeps ==
    ASSUME BatchInv, Iterate
    PROVE  BatchInv'
<1> DEFINE tag  == Head(bt.in)
           key  == GetLengthPrefixedSlice(Tail(bt.in))
           val  == IF tag = kTypeDeletion THEN [ok |-> TRUE, v |-> <<>>, rest |-> key.rest]
                   ELSE GetLengthPrefixedSlice(key.rest)
           bad  == [bt EXCEPT !.phase = "done", !.found = bt.found + 1, !.st = "corruption"]
           ops == bt.b[1].ops
           rep == bt.b[1].rep
           k == Len(bt.out)
<1>1. bt.phase = "iterate"
  BY DEF Iterate
<1>2. PICK n \in 0..Len(rep) : bt.cut = (n < Len(rep)) /\ Reading(n)
  BY <1>1 DEF BatchInv
<1>3. PICK ends : At(ends, n)
  BY <1>2 DEF Reading, At
<1>4. CASE bt.in = <<>>
  <2> DEFINE st == IF bt.found = bt.b[1].count THEN "ok" ELSE "corruption"
  <2>1. bt' = [bt EXCEPT !.phase = "done", !.st = st]
    BY <1>4 DEF Iterate
  <2> QED
    BY <1>1, <1>2, <1>3, <1>4, <2>1, IterateEnds
<1>5. CASE bt.in # <<>>
  <2>1. /\ rep \in Seq(Nat) /\ ops \in Seq(Ops) /\ Len(rep) \in Nat /\ n \in Nat /\ n <= Len(rep)
        /\ k \in Nat /\ k <= Len(ops) /\ ends[k] \in Nat /\ ends[k] <= n
        /\ bt.in \in Seq(Nat) /\ Len(bt.in) = n - ends[k]
        /\ \A i \in 1..(n - ends[k]) : bt.in[i] = rep[ends[k] + i]
    <3>1. InputFacts(ends, n)
      BY <1>1, <1>3, InputIs
    <3> QED
      BY <3>1 DEF InputFacts
  <2>2. Layout(ends, ops, rep)
    BY <1>3 DEF At
  <2>3. bt' = IF tag \notin {kTypeDeletion, kTypeValue} THEN bad
              ELSE IF ~key.ok THEN bad ELSE IF ~val.ok THEN bad
              ELSE [bt EXCEPT !.in = val.rest, !.found = bt.found + 1, !.seq = bt.seq + 1,
                              !.out = Append(bt.out, [s |-> bt.seq,
                                 op |-> [del |-> tag = kTypeDeletion, key |-> key.v, val |-> val.v]])]
    BY <1>5 DEF Iterate
  <2> DEFINE op == ops[k + 1]
             L == Len(Operation(op))
  <2> HIDE DEF tag, key, val, bad, ops, rep, k
  <2>4. k + 1 \in 1..Len(ops) /\ (k + 1) - 1 = k
    <3>1. Len(bt.in) \in Nat /\ Len(bt.in) # 0 /\ Len(ops) \in Nat
      BY <1>5, <2>1
    <3>2. ends[Len(ops)] = Len(rep)
      BY <2>2 DEF Layout
    <3>3. k # Len(ops)
      BY <2>1, <3>1, <3>2
    <3> QED
      BY <2>1, <3>1, <3>3
  <2>5. op \in Ops
    BY <2>1, <2>4
  <2>6. L \in Nat
    BY <2>5, OperationIs
  <2>7. /\ ends[k + 1] = ends[k] + L /\ ends[k] + L <= Len(rep)
        /\ \A j \in 1..L : rep[ends[k] + j] = Operation(op)[j]
    BY <2>2, <2>4 DEF Layout
  <2> HIDE DEF L
  <2>8. Agree(bt.in, Operation(op))
    <3>1. \A j \in 1..L : j <= Len(bt.in) => j \in 1..(n - ends[k])
      BY <2>1, <2>6
    <3>2. \A j \in 1..L : j <= Len(bt.in) => bt.in[j] = Operation(op)[j]
      BY <2>1, <2>7, <3>1
    <3> QED
      BY <3>2 DEF Agree, L
  <2>9. /\ tag = Tag(op)
        /\ L <= Len(bt.in) => /\ key.ok = TRUE /\ key.v = op.key
                              /\ val.ok = TRUE /\ val.v = op.val /\ val.rest = Rest(bt.in, L)
        /\ ~(L <= Len(bt.in)) => key.ok = FALSE \/ (key.ok = TRUE /\ val.ok = FALSE)
    <3>1. RoundReads(op, bt.in)
      <4>1. bt.in \in Seq(Nat)
        BY <2>1
      <4> HIDE DEF op
      <4> QED
        BY <1>5, <2>5, <2>8, <4>1, OperationRead
    <3>2. tag = Head(bt.in) /\ key = KeyRead(bt.in) /\ val = ValueRead(bt.in) /\ L = Len(Operation(op))
      BY DEF tag, key, val, L, KeyRead, ValueRead
    <3> HIDE DEF op
    <3> QED
      BY <3>1, <3>2 DEF RoundReads
  <2>10. tag \in {kTypeDeletion, kTypeValue} /\ (tag = kTypeDeletion <=> op.del = TRUE) /\ op.del \in BOOLEAN
    BY <2>5, <2>9 DEF Tag, kTypeDeletion, kTypeValue, Ops
  <2>11. CASE L <= Len(bt.in)
    <3>1. op = [del |-> op.del, key |-> op.key, val |-> op.val]
      BY <2>5 DEF Ops
    <3>2. (tag = kTypeDeletion) = op.del
      BY <2>10
    <3> HIDE DEF op
    <3>3. [del |-> tag = kTypeDeletion, key |-> key.v, val |-> val.v] = op
      BY <2>9, <2>11, <3>1, <3>2
    <3>4. bt' = [bt EXCEPT !.in = val.rest, !.found = bt.found + 1, !.seq = bt.seq + 1,
                           !.out = Append(bt.out, [s |-> bt.seq, op |-> op])]
      BY <2>3, <2>9, <2>10, <2>11, <3>3
    <3>5. val.rest = Rest(bt.in, Len(Operation(op))) /\ Len(Operation(op)) <= Len(bt.in)
      BY <2>9, <2>11 DEF L
    <3> QED
      BY <1>1, <1>2, <1>3, <2>4, <3>4, <3>5, IterateDelivers DEF op, ops, rep, k
  <2>12. CASE ~(L <= Len(bt.in))
    <3>1. bt' = bad
      BY <2>3, <2>9, <2>10, <2>12
    <3>2. n < Len(rep)
      BY <2>1, <2>6, <2>7, <2>12
    <3>3. bt.cut = TRUE
      BY <1>2, <3>2 DEF rep
    <3> QED
      BY <3>1, <3>3, IterateFails DEF bad
  <2> QED
    BY <2>11, <2>12
<1> QED
  BY <1>4, <1>5

\* The invariant is inductive.
LEMMA BatchStepInv == BatchInv /\ [BatchNext]_bt => BatchInv'
<1> SUFFICES ASSUME BatchInv, [BatchNext]_bt
             PROVE  BatchInv'
  OBVIOUS
<1>1. CASE UNCHANGED bt
  BY <1>1 DEF BatchInv, Reading, Delivered
<1>2. ASSUME NEW i \in 1..2, NEW key \in Strings, NEW val \in Strings, BatchPut(i, key, val)
      PROVE  BatchInv'
  <2> DEFINE op == [del |-> FALSE, key |-> key, val |-> val]
  <2>1. op \in Ops
    BY StringsFit DEF Ops
  <2>2. bt.phase = "build" /\
        bt' = [bt EXCEPT !.b[i] = [count |-> bt.b[i].count + 1, rep |-> bt.b[i].rep \o Operation(op),
                                   ops |-> Append(bt.b[i].ops, op)]]
    BY <1>2 DEF BatchPut
  <2> HIDE DEF op
  <2> QED
    BY <2>1, <2>2, AddedKeeps
<1>3. ASSUME NEW i \in 1..2, NEW key \in Strings, BatchDelete(i, key)
      PROVE  BatchInv'
  <2> DEFINE op == [del |-> TRUE, key |-> key, val |-> <<>>]
  <2>1. op \in Ops
    BY StringsFit DEF Ops
  <2>2. bt.phase = "build" /\
        bt' = [bt EXCEPT !.b[i] = [count |-> bt.b[i].count + 1, rep |-> bt.b[i].rep \o Operation(op),
                                   ops |-> Append(bt.b[i].ops, op)]]
    BY <1>3 DEF BatchDelete
  <2> HIDE DEF op
  <2> QED
    BY <2>1, <2>2, AddedKeeps
<1>4. CASE BatchAppend
  <2> DEFINE r == [count |-> bt.b[1].count + bt.b[2].count, rep |-> bt.b[1].rep \o bt.b[2].rep,
                   ops |-> bt.b[1].ops \o bt.b[2].ops]
  <2>1. bt.b[1] \in Batches /\ bt.b[2] \in Batches
    BY DEF BatchInv, BatchStates
  <2>2. r \in Batches
    BY <2>1, BatchesJoin
  <2>3. bt.phase = "build" /\ bt' = [bt EXCEPT !.b = <<r, ClearBatch>>]
    BY <1>4 DEF BatchAppend
  <2> HIDE DEF r
  <2>4. <<r, ClearBatch>> \in [1..2 -> Batches]
    BY <2>2, ClearIsBatch
  <2> QED
    BY <2>3, <2>4, WrittenKeeps
<1>5. ASSUME NEW n \in 0..Len(bt.b[1].rep), StartIterate(n)
      PROVE  BatchInv'
  BY <1>5, StartIterateKeeps
<1>6. CASE Iterate
  BY <1>6, IterateKeeps
<1> QED
  BY <1>1, <1>2, <1>3, <1>4, <1>5, <1>6 DEF BatchNext

\* For any keys and values whose lengths fit a varint, and any number of operations:
\* what WriteBatch::Iterate delivers is a prefix of what Put, Delete and Append put
\* in, in order and under consecutive sequence numbers; and it reports corruption
\* exactly when some of the batch's bytes were cut off.
THEOREM BatchesReadBack == BatchSpec => []BatchReadsBack
<1> QED
  BY BatchInitInv, BatchStepInv, BatchInvReads, PTL DEF BatchSpec

-----------------------------------------------------------------------------
(* File names *)

Digits == 0..(Radix - 1)

\* The numbers of the prefixes exist.
LEMMA PrefixesExist ==
    ASSUME NEW digits \in Seq(Digits)
    PROVE  \E v : v = [n \in 0..Len(digits) |-> IF n = 0 THEN 0 ELSE v[n - 1] * Radix + digits[n]]
<1> DEFINE K == Len(digits)
           F == [n \in 1..K |-> [x \in Nat |-> x * Radix + digits[n]]]
<1>1. K \in Nat /\ Radix \in Nat
  BY RecordsAssumption
<1>2. \A n \in 1..K : digits[n] \in Nat
  BY <1>1 DEF Digits
<1>3. F \in [1..K -> [Nat -> Nat]]
  BY <1>1, <1>2
<1>4. PICK f : Iterates(f, K, Nat, 0, F)
  <2> HIDE DEF F, K
  <2> QED
    BY <1>1, <1>3, IterationExists
<1>5. \A n \in 0..K : f[n] = IF n = 0 THEN 0 ELSE f[n - 1] * Radix + digits[n]
  <2>1. \A n \in 0..K : n # 0 => n \in 1..K
    BY <1>1
  <2>2. \A n \in 1..K : n - 1 \in 0..K
    BY <1>1
  <2>3. \A n \in 1..K : F[n][f[n - 1]] = f[n - 1] * Radix + digits[n]
    BY <1>4, <2>2 DEF Iterates
  <2> HIDE DEF F, K
  <2> QED
    BY <1>4, <2>1, <2>3 DEF Iterates
<1>6. f = [n \in 0..K |-> IF n = 0 THEN 0 ELSE f[n - 1] * Radix + digits[n]]
  <2>1. f = [n \in 0..K |-> f[n]]
    BY <1>4 DEF Iterates
  <2> QED
    BY <1>5, <2>1
<1> QED
  BY <1>6

\* The number of the digits is that of the longest prefix.
LEMMA ValueIs ==
    ASSUME NEW digits \in Seq(Digits)
    PROVE  \E v : /\ Value(digits) = v[Len(digits)] /\ v[0] = 0
                  /\ \A n \in 1..Len(digits) : v[n] = v[n - 1] * Radix + digits[n]
<1> DEFINE v == CHOOSE first :
                   first = [n \in 0..Len(digits) |-> IF n = 0 THEN 0 ELSE first[n - 1] * Radix + digits[n]]
<1>1. Len(digits) \in Nat
  OBVIOUS
<1>2. \E w : w = [n \in 0..Len(digits) |-> IF n = 0 THEN 0 ELSE w[n - 1] * Radix + digits[n]]
  BY PrefixesExist
<1>3. v = [n \in 0..Len(digits) |-> IF n = 0 THEN 0 ELSE v[n - 1] * Radix + digits[n]]
  BY <1>2
<1>4. Value(digits) = v[Len(digits)]
  BY DEF Value
<1> HIDE DEF v
<1>5. \A n \in 0..Len(digits) : v[n] = IF n = 0 THEN 0 ELSE v[n - 1] * Radix + digits[n]
  BY <1>3
<1>6. v[0] = 0
  BY <1>1, <1>5
<1>7. \A n \in 1..Len(digits) : n \in 0..Len(digits) /\ n # 0
  BY <1>1
<1>8. \A n \in 1..Len(digits) : v[n] = v[n - 1] * Radix + digits[n]
  BY <1>5, <1>7
<1> QED
  BY <1>4, <1>6, <1>8

\* What v is to the digits.
Counts(v, digits) ==
    /\ Value(digits) = v[Len(digits)] /\ v[0] = 0
    /\ \A n \in 1..Len(digits) : v[n] = v[n - 1] * Radix + digits[n]

\* A prefix is a number, and no greater than a longer one.
LEMMA PrefixesGrow ==
    ASSUME NEW digits \in Seq(Digits), NEW v, Counts(v, digits), NEW k \in 0..Len(digits), v[k] \in Nat
    PROVE  \A m \in k..Len(digits) : v[m] \in Nat /\ v[k] <= v[m]
<1> DEFINE bad == {m \in k..Len(digits) : ~(v[m] \in Nat /\ v[k] <= v[m])}
<1>1. Len(digits) \in Nat /\ k \in Nat /\ Radix \in Nat /\ Radix >= 1
  BY RecordsAssumption
<1>2. SUFFICES ASSUME bad # {}
               PROVE  FALSE
  OBVIOUS
<1>3. PICK m \in bad : \A j \in bad : m <= j
  <2>1. bad \in SUBSET Nat
    BY <1>1
  <2> HIDE DEF bad
  <2> QED
    BY <1>2, <2>1, LeastElement
<1>4. m # k
  BY <1>3
<1>5. m \in 1..Len(digits) /\ m - 1 \in k..Len(digits) /\ m - 1 \notin bad
  <2>1. m \in k..Len(digits) /\ \A j \in bad : m <= j
    BY <1>3
  <2> HIDE DEF bad
  <2> QED
    BY <1>1, <1>4, <2>1
<1>6. v[m - 1] \in Nat /\ v[k] <= v[m - 1]
  BY <1>5
<1>7. digits[m] \in Nat
  BY <1>1, <1>5 DEF Digits
<1>8. v[m] = v[m - 1] * Radix + digits[m]
  BY <1>5 DEF Counts
<1>9. v[m - 1] * Radix \in Nat /\ v[m - 1] <= v[m - 1] * Radix
  BY <1>1, <1>6
<1>10. v[m] \in Nat /\ v[k] <= v[m]
  BY <1>6, <1>7, <1>8, <1>9
<1> QED
  BY <1>3, <1>10

\* The test before a digit is taken: exactly the numbers that fit pass it.
LEMMA DigitFits ==
    ASSUME NEW n \in Nat, NEW d \in Digits
    PROVE  /\ n * Radix + d \in Nat
           /\ \/ n > MaxUint \div Radix
              \/ n = MaxUint \div Radix /\ d > kLastDigitOfMaxUint64
              <=> n * Radix + d > MaxUint
<1> DEFINE q == MaxUint \div Radix
           r == MaxUint % Radix
<1>1. Radix \in Nat /\ Radix >= 1 /\ MaxUint \in Nat /\ d \in Nat /\ d < Radix
  BY RecordsAssumption DEF Digits
<1>2. q \in Nat /\ r \in Nat /\ r < Radix /\ MaxUint = Radix * q + r
  BY <1>1
<1>3. kLastDigitOfMaxUint64 = r
  BY DEF kLastDigitOfMaxUint64
<1> HIDE DEF q, r
<1>4. n * Radix \in Nat /\ q * Radix \in Nat /\ Radix * q = q * Radix
  BY <1>1, <1>2
<1>5. CASE n > q
  <2>1. n * Radix >= q * Radix + Radix
    <3>1. PICK k \in Nat : n = q + 1 + k
      <4>1. n - (q + 1) \in Nat /\ n = q + 1 + (n - (q + 1))
        BY <1>2, <1>5
      <4> QED
        BY <4>1
    <3>2. n * Radix = q * Radix + Radix + k * Radix /\ k * Radix \in Nat
      BY <1>1, <1>2, <3>1
    <3> QED
      BY <1>1, <1>4, <3>2
  <2> QED
    BY <1>1, <1>2, <1>3, <1>4, <1>5, <2>1 DEF q
<1>6. CASE n = q
  <2>1. n * Radix = q * Radix
    BY <1>6
  <2> QED
    BY <1>1, <1>2, <1>3, <1>4, <1>6, <2>1 DEF q
<1>7. CASE n < q
  <2>1. q * Radix >= n * Radix + Radix
    <3>1. PICK k \in Nat : q = n + 1 + k
      <4>1. q - (n + 1) \in Nat /\ q = n + 1 + (q - (n + 1))
        BY <1>2, <1>7
      <4> QED
        BY <4>1
    <3>2. q * Radix = n * Radix + Radix + k * Radix /\ k * Radix \in Nat
      BY <1>1, <3>1
    <3> QED
      BY <1>1, <1>4, <3>2
  <2> QED
    BY <1>1, <1>2, <1>3, <1>4, <1>7, <2>1 DEF q
<1> QED
  BY <1>2, <1>5, <1>6, <1>7

Heads == {"none", "MANIFEST-"}
Tails == {".log", ".ldb", ".sst", "none", ".dbtmp", ".bak"}
NameType == [phase: {"build", "parse", "done"}, head: Heads, tail: Tails, digits: Seq(Digits),
             at: Nat, value: Nat, type: {"none", "log", "table", "descriptor", "temp"}, ok: BOOLEAN]

\* The number read so far is that of a prefix, and fits.
NameInv ==
    /\ fname \in NameType
    /\ fname.phase = "build" => fname.at = 0 /\ fname.value = 0
    /\ fname.phase # "done" => fname.ok = FALSE
    /\ fname.phase = "parse" =>
         /\ fname.at <= Len(fname.digits) /\ fname.value <= MaxUint
         /\ \E v : Counts(v, fname.digits) /\ fname.value = v[fname.at]
    /\ FileNameExact

\* ParseFileName knows the names the program makes, by their right types.
LEMMA TypesAreExact ==
    ASSUME NEW head \in Heads, NEW tail \in Tails
    PROVE  LET made == {n \in FileNames : n.head = head /\ n.tail = tail}
           IN  /\ TypeOf(head, tail) # "none" <=> made # {}
               /\ \A n \in made : TypeOf(head, tail) = n.type
               /\ TypeOf(head, tail) \in {"none", "log", "table", "descriptor", "temp"}
<1> DEFINE made == {n \in FileNames : n.head = head /\ n.tail = tail}
           Name(h, t, y) == [head |-> h, tail |-> t, type |-> y]
<1>1. ASSUME NEW y \in {"log", "table", "descriptor", "temp"}, Name(head, tail, y) \in FileNames,
             \A n \in made : n.type = y, TypeOf(head, tail) = y
      PROVE  /\ TypeOf(head, tail) # "none" <=> made # {}
             /\ \A n \in made : TypeOf(head, tail) = n.type
             /\ TypeOf(head, tail) \in {"none", "log", "table", "descriptor", "temp"}
  <2>1. Name(head, tail, y) \in made
    BY <1>1
  <2>2. made # {}
    BY <2>1
  <2> HIDE DEF made
  <2> QED
    BY <1>1, <2>2
<1>2. CASE head = "MANIFEST-" /\ tail = "none"
  <2>1. \A n \in made : n.type = "descriptor"
    BY <1>2 DEF FileNames
  <2>2. Name(head, tail, "descriptor") \in FileNames /\ TypeOf(head, tail) = "descriptor"
    BY <1>2 DEF FileNames, TypeOf
  <2> QED
    BY <1>1, <2>1, <2>2
<1>3. CASE head = "MANIFEST-" /\ tail # "none"
  <2>1. made = {}
    BY <1>3 DEF FileNames
  <2> QED
    BY <1>3, <2>1 DEF TypeOf
<1>4. CASE head = "none" /\ tail \in {".ldb", ".sst"}
  <2>1. \A n \in made : n.type = "table"
    BY <1>4 DEF FileNames
  <2>2. Name(head, tail, "table") \in FileNames /\ TypeOf(head, tail) = "table"
    BY <1>4 DEF FileNames, TypeOf
  <2> QED
    BY <1>1, <2>1, <2>2
<1>5. CASE head = "none" /\ tail = ".log"
  <2>1. \A n \in made : n.type = "log"
    BY <1>5 DEF FileNames
  <2>2. Name(head, tail, "log") \in FileNames /\ TypeOf(head, tail) = "log"
    BY <1>5 DEF FileNames, TypeOf
  <2> QED
    BY <1>1, <2>1, <2>2
<1>6. CASE head = "none" /\ tail = ".dbtmp"
  <2>1. \A n \in made : n.type = "temp"
    BY <1>6 DEF FileNames
  <2>2. Name(head, tail, "temp") \in FileNames /\ TypeOf(head, tail) = "temp"
    BY <1>6 DEF FileNames, TypeOf
  <2> QED
    BY <1>1, <2>1, <2>2
<1>7. CASE head = "none" /\ tail \in {"none", ".bak"}
  <2>1. made = {}
    BY <1>7 DEF FileNames
  <2>2. TypeOf(head, tail) = "none"
    BY <1>7 DEF TypeOf
  <2> QED
    BY <2>1, <2>2
<1> QED
  BY <1>2, <1>3, <1>4, <1>5, <1>6, <1>7 DEF Heads, Tails

\* Initially.
LEMMA NameInitInv == NameInit => NameInv
<1> SUFFICES ASSUME NameInit
             PROVE  NameInv
  OBVIOUS
<1>1. <<>> \in Seq(Digits)
  OBVIOUS
<1> QED
  BY <1>1 DEF NameInit, NameInv, NameType, Heads, Tails, FileNameExact

\* A digit is added to the name.
LEMMA AddDigitKeeps ==
    ASSUME NameInv, NEW d \in Digits, AddDigit(d)
    PROVE  NameInv'
<1>1. /\ fname \in NameType /\ fname.phase = "build" /\ fname.at = 0 /\ fname.value = 0 /\ fname.ok = FALSE
      /\ fname' = [fname EXCEPT !.digits = Append(fname.digits, d)]
  BY DEF NameInv, AddDigit
<1>2. Append(fname.digits, d) \in Seq(Digits)
  BY <1>1 DEF NameType
<1>3. /\ fname' \in NameType /\ fname'.phase = "build" /\ fname'.at = 0 /\ fname'.value = 0
      /\ fname'.ok = FALSE
  BY <1>1, <1>2 DEF NameType
<1> QED
  BY <1>3 DEF NameInv, FileNameExact

\* The name is complete.
LEMMA StartParseKeeps ==
    ASSUME NameInv, NEW head \in Heads, NEW tail \in Tails, StartParse(head, tail)
    PROVE  NameInv'
<1>1. /\ fname \in NameType /\ fname.phase = "build" /\ fname.at = 0 /\ fname.value = 0 /\ fname.ok = FALSE
      /\ fname' = [fname EXCEPT !.phase = "parse", !.head = head, !.tail = tail]
  BY DEF NameInv, StartParse
<1>2. /\ fname' \in NameType /\ fname'.phase = "parse" /\ fname'.at = 0 /\ fname'.value = 0
      /\ fname'.ok = FALSE /\ fname'.digits = fname.digits /\ fname.digits \in Seq(Digits)
  BY <1>1 DEF NameType
<1>3. PICK v : Counts(v, fname.digits)
  BY <1>2, ValueIs DEF Counts
<1>4. v[0] = 0
  BY <1>3 DEF Counts
<1>5. 0 <= Len(fname.digits) /\ 0 <= MaxUint
  BY <1>2, RecordsAssumption
<1>6. \E w : Counts(w, fname'.digits) /\ fname'.value = w[fname'.at]
  BY <1>2, <1>3, <1>4
<1> QED
  BY <1>2, <1>5, <1>6 DEF NameInv, FileNameExact

\* The end of the digits is reached: the number is that of the name.
LEMMA NumberReadKeeps ==
    ASSUME NameInv, fname.phase = "parse", fname.at = Len(fname.digits), fname' = NumberRead(fname)
    PROVE  NameInv'
<1> DEFINE type == TypeOf(fname.head, fname.tail)
           ok == fname.at # 0 /\ type # "none"
<1>1. /\ fname \in NameType /\ fname.digits \in Seq(Digits) /\ fname.head \in Heads /\ fname.tail \in Tails
      /\ fname.value <= MaxUint
  BY DEF NameInv, NameType
<1>2. PICK v : Counts(v, fname.digits) /\ fname.value = v[fname.at]
  BY DEF NameInv
<1>3. fname.value = Value(fname.digits)
  BY <1>2 DEF Counts
<1>4. fname.at # 0 <=> fname.digits # <<>>
  BY <1>1
<1>5. fname' = [fname EXCEPT !.phase = "done", !.type = type, !.ok = ok]
  BY DEF NumberRead
<1> DEFINE made == {n \in FileNames : n.head = fname.head /\ n.tail = fname.tail}
<1>6. /\ type # "none" <=> made # {}
      /\ \A n \in made : type = n.type
      /\ type \in {"none", "log", "table", "descriptor", "temp"}
  BY <1>1, TypesAreExact
<1>7. ok \in BOOLEAN /\ (ok <=> made # {} /\ fname.digits # <<>> /\ Value(fname.digits) <= MaxUint)
  BY <1>1, <1>3, <1>4, <1>6
<1> HIDE DEF type, ok
<1>8. /\ fname' \in NameType /\ fname'.phase = "done" /\ fname'.type = type /\ fname'.ok = ok
      /\ fname'.head = fname.head /\ fname'.tail = fname.tail /\ fname'.digits = fname.digits
      /\ fname'.value = fname.value
  BY <1>1, <1>5, <1>6, <1>7 DEF NameType
<1>9. FileNameExact'
  BY <1>3, <1>6, <1>7, <1>8 DEF FileNameExact
<1> QED
  BY <1>8, <1>9 DEF NameInv

\* A digit that does not fit: no name with these digits has a number that does.
LEMMA TooLongKeeps ==
    ASSUME NameInv, fname.phase = "parse", fname.at # Len(fname.digits),
           \/ fname.value > MaxUint \div Radix
           \/ fname.value = MaxUint \div Radix /\ fname.digits[fname.at + 1] > kLastDigitOfMaxUint64,
           fname' = [fname EXCEPT !.phase = "done"]
    PROVE  NameInv'
<1> DEFINE d == fname.digits[fname.at + 1]
<1>1. /\ fname \in NameType /\ fname.digits \in Seq(Digits) /\ fname.at \in Nat /\ fname.value \in Nat
      /\ fname.at <= Len(fname.digits) /\ Len(fname.digits) \in Nat /\ fname.ok = FALSE
  BY DEF NameInv, NameType
<1>2. PICK v : Counts(v, fname.digits) /\ fname.value = v[fname.at]
  BY DEF NameInv
<1>3. fname.at + 1 \in 1..Len(fname.digits) /\ (fname.at + 1) - 1 = fname.at
  BY <1>1
<1>4. d \in Digits
  BY <1>1, <1>3
<1>5. v[fname.at + 1] = fname.value * Radix + d
  BY <1>2, <1>3 DEF Counts
<1>6. v[fname.at + 1] \in Nat /\ v[fname.at + 1] > MaxUint
  BY <1>1, <1>4, <1>5, DigitFits
<1>7. Value(fname.digits) \in Nat /\ v[fname.at + 1] <= Value(fname.digits)
  <2>1. fname.at + 1 \in 0..Len(fname.digits) /\ Len(fname.digits) \in (fname.at + 1)..Len(fname.digits)
    BY <1>1, <1>3
  <2>2. v[Len(fname.digits)] \in Nat /\ v[fname.at + 1] <= v[Len(fname.digits)]
    BY <1>1, <1>2, <1>6, <2>1, PrefixesGrow
  <2> QED
    BY <1>2, <2>2 DEF Counts
<1>8. ~(Value(fname.digits) <= MaxUint)
  BY <1>6, <1>7, RecordsAssumption
<1>9. /\ fname' \in NameType /\ fname'.phase = "done" /\ fname'.ok = FALSE
      /\ fname'.digits = fname.digits
  BY <1>1 DEF NameType
<1>10. FileNameExact'
  BY <1>8, <1>9 DEF FileNameExact
<1> QED
  BY <1>9, <1>10 DEF NameInv

\* A digit that fits: the number does not wrap.
LEMMA TakeDigitKeeps ==
    ASSUME NameInv, fname.phase = "parse", fname.at # Len(fname.digits), NEW d, d = fname.digits[fname.at + 1],
           ~(\/ fname.value > MaxUint \div Radix
             \/ fname.value = MaxUint \div Radix /\ d > kLastDigitOfMaxUint64),
           fname' = [fname EXCEPT !.at = fname.at + 1,
                                  !.value = (fname.value * Radix + d) % (MaxUint + 1)]
    PROVE  NameInv'
<1>1. /\ fname \in NameType /\ fname.digits \in Seq(Digits) /\ fname.at \in Nat /\ fname.value \in Nat
      /\ fname.at <= Len(fname.digits) /\ Len(fname.digits) \in Nat /\ fname.ok = FALSE
  BY DEF NameInv, NameType
<1>2. PICK v : Counts(v, fname.digits) /\ fname.value = v[fname.at]
  BY DEF NameInv
<1>3. fname.at + 1 \in 1..Len(fname.digits) /\ (fname.at + 1) - 1 = fname.at
  BY <1>1
<1>4. d \in Digits
  BY <1>1, <1>3
<1> DEFINE next == fname.value * Radix + d
<1>5. v[fname.at + 1] = next
  BY <1>2, <1>3 DEF Counts
<1>6. next \in Nat /\ ~(next > MaxUint)
  BY <1>1, <1>4, DigitFits
<1> HIDE DEF next
<1>7. next <= MaxUint /\ next % (MaxUint + 1) = next
  <2>1. MaxUint \in Nat
    BY RecordsAssumption
  <2> QED
    BY <1>6, <2>1
<1>8. /\ fname' \in NameType /\ fname'.phase = "parse" /\ fname'.ok = FALSE /\ fname'.at = fname.at + 1
      /\ fname'.digits = fname.digits /\ fname'.value = next
  <2>1. fname' = [fname EXCEPT !.at = fname.at + 1, !.value = next]
    BY <1>7 DEF next
  <2>2. fname.at + 1 \in Nat
    BY <1>1
  <2> QED
    BY <1>1, <1>6, <2>1, <2>2 DEF NameType
<1>9. \E w : Counts(w, fname'.digits) /\ fname'.value = w[fname'.at]
  BY <1>2, <1>5, <1>8
<1> QED
  BY <1>3, <1>7, <1>8, <1>9 DEF NameInv, FileNameExact

\* The invariant is inductive.
LEMMA NameStepInv == NameInv /\ [NameNext]_fname => NameInv'
<1> SUFFICES ASSUME NameInv, [NameNext]_fname
             PROVE  NameInv'
  OBVIOUS
<1>1. CASE UNCHANGED fname
  BY <1>1 DEF NameInv, FileNameExact
<1>2. ASSUME NEW d \in 0..(Radix - 1), AddDigit(d)
      PROVE  NameInv'
  BY <1>2, AddDigitKeeps DEF Digits
<1>3. ASSUME NEW head \in {"none", "MANIFEST-"}, NEW tail \in {n.tail : n \in FileNames} \cup {".bak"},
             StartParse(head, tail)
      PROVE  NameInv'
  <2>1. head \in Heads /\ tail \in Tails
    BY DEF Heads, Tails, FileNames
  <2> QED
    BY <1>3, <2>1, StartParseKeeps
<1>4. CASE ConsumeDecimalNumber
  <2> DEFINE d == fname.digits[fname.at + 1]
             Long == \/ fname.value > MaxUint \div Radix
                     \/ fname.value = MaxUint \div Radix /\ d > kLastDigitOfMaxUint64
  <2>1. fname.phase = "parse"
    BY <1>4 DEF ConsumeDecimalNumber
  <2>2. CASE fname.at = Len(fname.digits)
    <3>1. fname' = NumberRead(fname)
      BY <1>4, <2>2 DEF ConsumeDecimalNumber
    <3> QED
      BY <2>1, <2>2, <3>1, NumberReadKeeps
  <2>3. CASE fname.at # Len(fname.digits) /\ Long
    <3>1. fname' = [fname EXCEPT !.phase = "done"]
      BY <1>4, <2>3 DEF ConsumeDecimalNumber
    <3> QED
      BY <2>1, <2>3, <3>1, TooLongKeeps
  <2>4. CASE fname.at # Len(fname.digits) /\ ~Long
    <3>1. fname' = [fname EXCEPT !.at = fname.at + 1, !.value = (fname.value * Radix + d) % (MaxUint + 1)]
      BY <1>4, <2>4 DEF ConsumeDecimalNumber
    <3> QED
      BY <2>1, <2>4, <3>1, TakeDigitKeeps
  <2> QED
    BY <2>2, <2>3, <2>4
<1> QED
  BY <1>1, <1>2, <1>3, <1>4 DEF NameNext

\* For any base, any largest number and any name: ParseFileName recognises a name
\* exactly when the program may have made it and its number fits 64 bits, and then
\* with that number; the test before each digit never lets the number wrap.
THEOREM FileNamesAreExact == NameSpec => []FileNameExact
<1>1. NameInv => FileNameExact
  BY DEF NameInv
<1> QED
  BY <1>1, NameInitInv, NameStepInv, PTL DEF NameSpec

-----------------------------------------------------------------------------
(* Repair                                                                  *)
(*                                                                         *)
(* RepairInv says where every entry is at every step: next_file_number_ is *)
(* above every number in use, so that a table that is built or copied      *)
(* replaces no file; a table that is copied is in the directory or in      *)
(* lost/ until its copy has its name; and what is in lost/ does not come   *)
(* back under the name of another table.  It is stated of Clean states,    *)
(* the ones RepairKeeps is about: after a call in which something failed,  *)
(* a further call may give out a number that lost/ has already; and a copy *)
(* that a failed read cut short replaces a table that could not be moved.  *)

\* Names of files.
Ldb(n) == <<"ldb", n>>
Sst(n) == <<"sst", n>>
Log(n) == <<"log", n>>
Manifest1 == <<"manifest", 1>>
Current == <<"current", 0>>
\* Names, and those of the directory and of lost/.
Names == FileKinds \X Nat
Dir == DOMAIN rdir
Lost == DOMAIN rlost

\* What a data file holds; lists without repetitions.
Contents == [good: SUBSET Nat, bad: BOOLEAN]
Distinct(s) == \A i, j \in 1..Len(s) : i # j => s[i] # s[j]
Elems(s) == {s[i] : i \in 1..Len(s)}

\* Where the Repairer is: at the logs, at the tables (of which one is copied), at the
\* descriptor.
Copying == {"archive_table", "finish", "rename"}
LogPcs == {"logs", "build", "archive_log"}
TablePcs == {"scan", "repair"} \cup Copying
LastPcs == {"descriptor", "manifests", "current", "done"}
Running == LogPcs \cup TablePcs \cup LastPcs
RepairPcs == Running \cup {"start", "failed"}

\* The Repairer.
RpType == [pc: RepairPcs, next: Nat, logs: Seq(Nat), table_numbers: Seq(Nat), manifests: SUBSET Nat,
           tables: SUBSET [number: Nat, max: Nat], copy: Nat, src: {<<>>} \cup Names, max: Nat, good: SUBSET Nat]

\* What is still to be converted, and what was listed; a table by its number.
Logs == Elems(rp.logs)
Queue == Elems(rp.table_numbers)
Listed == {t.number : t \in rp.tables}
HasTable(n) == Ldb(n) \in Dir \/ Sst(n) \in Dir
TableContent(n) == IF Ldb(n) \in Dir THEN rdir[Ldb(n)] ELSE rdir[Sst(n)]
\* The edit that WriteDescriptor writes.
Edit == [tables |-> rp.tables, next |-> rp.next, last |-> Max({t.max : t \in rp.tables} \cup {0})]

-----------------------------------------------------------------------------
(* The invariant *)

\* No failure, or still in the first call; operations fail or reads do, not both.
Clean ==
    /\ rcount.calls = 0 \/ (rcount.faults = 0 /\ rcount.misreads = 0)
    /\ rcount.faults = 0 \/ rcount.misreads = 0
CountTypes == rcount \in [entries: SUBSET Nat, calls: Nat, faults: Nat, misreads: Nat]

\* The files have names of the program, and data files have contents.
DirTypes ==
    /\ IsFiniteSet(Dir) /\ Dir \subseteq Names /\ Lost \subseteq Names
    /\ \A f \in Dir : f[1] \in DataKinds => rdir[f] \in Contents /\ IsFiniteSet(rdir[f].good)
    /\ \A f \in Lost : f[1] \in DataKinds => rlost[f] \in Contents

\* The types of the Repairer.
RpTypes == rp \in RpType /\ rp.next > 0 /\ IsFiniteSet(rp.tables) /\ IsFiniteSet(rp.good)

\* next_file_number_ is above every number in use.
NextInv ==
    /\ rp.pc \in Running => \A f \in Dir : f[1] # "manifest" /\ f # Tmp => f[2] < rp.next
    /\ rp.pc \in Running => \A n \in Nat : Ldb(n) \in Lost => n < rp.next
    /\ \A n \in Queue : n < rp.next
    /\ \A n \in Listed : n < rp.next

\* Before a call; before the first every entry is in some file.
StartInv ==
    /\ rp.pc = "start" => rp = Repairer
    /\ rp.pc = "start" /\ rcount.calls = 0 =>
         /\ rcount.faults = 0 /\ rcount.misreads = 0 /\ Lost = {}
         /\ \A e \in rcount.entries : \E f \in Dir : f[1] \in DataKinds /\ e \in rdir[f].good

\* The logs still to be converted are in the directory.
LogsInv ==
    /\ Distinct(rp.logs)
    /\ \A n \in Logs : Log(n) \in Dir
    /\ rp.pc \in {"build", "archive_log"} => rp.logs # <<>>
    /\ rp.pc \in LogPcs \/ rp.logs = <<>>

\* The tables still to be scanned: none twice, none listed yet, and each under one name.
QueueInv ==
    /\ Distinct(rp.table_numbers)
    /\ rp.pc \in Copying \cup {"repair"} => rp.table_numbers # <<>>
    /\ rp.pc \in LogPcs \cup TablePcs \/ rp.table_numbers = <<>>
    /\ \A n \in Queue : n \notin Listed
    /\ \A n \in Queue : rp.pc \notin Copying \/ n # Number => Ldb(n) \notin Dir \/ Sst(n) \notin Dir

\* The copy being written.
CopyInv ==
    /\ rp.pc \in Copying \cup {"build"} =>
         /\ Ldb(rp.copy) \in Dir /\ Sst(rp.copy) \notin Dir /\ rp.copy \notin Listed
         /\ \A n \in Queue : n < rp.copy
    /\ rp.pc \in {"build", "archive_table", "finish"} => rdir[Ldb(rp.copy)].good = {}
    /\ rp.pc = "rename" => rdir[Ldb(rp.copy)] = Content(rp.good, FALSE)
    /\ rp.pc = "build" /\ rcount.misreads = 0 => rp.good = rdir[LogName].good

\* The table being copied.
SrcInv ==
    /\ rp.pc \in Copying \cup {"repair"} =>
         /\ rp.src \in {Ldb(Number), Sst(Number)}
         /\ rp.src = Sst(Number) => Ldb(Number) \notin Dir /\ Ldb(Number) \notin Lost
    /\ rp.pc \in {"repair", "archive_table"} =>
         rp.src \in Dir /\ (Ldb(Number) \notin Dir \/ Sst(Number) \notin Dir)
    /\ rp.pc = "repair" /\ rcount.misreads = 0 => \A e \in rdir[rp.src].good : e <= rp.max
    /\ rp.pc \in Copying /\ rcount.misreads = 0 =>
         /\ \A e \in rp.good : e <= rp.max
         /\ \/ rp.src \in Dir /\ rdir[rp.src].good = rp.good
            \/ rp.src \notin Dir /\ rp.src \in Lost /\ rlost[rp.src].good = rp.good
    /\ rp.pc \in {"finish", "rename"} /\ rcount.faults = 0 => Ldb(Number) \notin Dir /\ Sst(Number) \notin Dir

\* A table of the descriptor exists and is readable and, if no read failed, within
\* its bounds.
ListedInv ==
    rp.pc \in Running => \A t \in rp.tables :
        /\ HasTable(t.number) /\ ~TableContent(t.number).bad
        /\ rcount.misreads = 0 => \A e \in TableContent(t.number).good : e <= t.max

\* What is both in the directory and in lost/ is whole in the directory, or a copy
\* cut short that this call does not touch again.
LostInv ==
    /\ \A f \in Dir : f \in Lost /\ f[1] \in DataKinds =>
         rlost[f].good \subseteq rdir[f].good \/ (rcount.misreads # 0 /\ f[1] = "ldb" /\ f[2] \in Listed)
    /\ \A n \in Nat : Sst(n) \in Dir => Ldb(n) \notin Lost

\* No entry is gone.
InDir(e) == \E f \in Dir : f[1] \in DataKinds /\ e \in rdir[f].good
InLost(e) == \E f \in Lost : f[1] \in DataKinds /\ e \in rlost[f].good
SafeInv == \A e \in rcount.entries : InDir(e) \/ InLost(e)

\* With no failure: a number that went to lost/ is not given out again.
NumberInv ==
    rcount.faults = 0 =>
        /\ \A n \in Nat : Ldb(n) \notin Dir \/ Sst(n) \notin Dir
        /\ \A n \in Nat : Ldb(n) \in Lost =>
             \E m \in Nat : m >= n /\ Ldb(m) \in Dir /\ (rp.pc \in Copying /\ m = rp.copy => n <= Number)

\* The logs whose entries are not yet in a table.
RestLogs == IF rp.pc = "archive_log" THEN Logs \ {Head(rp.logs)} ELSE Logs

\* With no failure in one call: where every entry is.
AllInv ==
    rp.pc \in Running /\ rcount.calls = 0 /\ rcount.faults = 0 /\ rcount.misreads = 0 =>
        \A e \in rcount.entries :
            \/ \E n \in Listed \cup Queue : HasTable(n) /\ e \in TableContent(n).good
            \/ \E n \in RestLogs : e \in rdir[Log(n)].good
            \/ rp.pc \in {"finish", "rename"} /\ e \in rp.good

\* What the descriptor written last says.
DescriptorInv ==
    /\ rp.pc = "manifests" => Tmp \in Dir /\ rdir[Tmp] = Edit
    /\ rp.pc \in {"current", "done"} => Manifest1 \in Dir /\ rdir[Manifest1] = Edit /\ Tmp \notin Dir
    /\ rp.pc = "done" => Current \in Dir /\ rdir[Current] = 1

\* The inductive invariant.
RepairCore ==
    /\ DirTypes /\ RpTypes /\ NextInv /\ StartInv /\ LogsInv /\ QueueInv /\ CopyInv /\ SrcInv
    /\ ListedInv /\ LostInv /\ SafeInv /\ NumberInv /\ AllInv /\ DescriptorInv
RepairInv == CountTypes /\ (Clean => RepairCore)

-----------------------------------------------------------------------------
(* Names, sequences, numbers *)

\* A name is its kind and its number.
LEMMA NameParts ==
    /\ \A n : Ldb(n)[1] = "ldb" /\ Ldb(n)[2] = n
    /\ \A n : Sst(n)[1] = "sst" /\ Sst(n)[2] = n
    /\ \A n : Log(n)[1] = "log" /\ Log(n)[2] = n
    /\ \A n \in Nat : Ldb(n) \in Names /\ Sst(n) \in Names /\ Log(n) \in Names
    /\ \A f \in Names : f[1] \in FileKinds /\ f[2] \in Nat
    /\ \A f \in Names : f[1] = "ldb" => f = Ldb(f[2])
    /\ \A f \in Names : f[1] = "sst" => f = Sst(f[2])
    /\ \A f \in Names : f[1] = "log" => f = Log(f[2])
    /\ Tmp[1] = "tmp" /\ Tmp \in Names
    /\ Manifest1[1] = "manifest" /\ Manifest1 \in Names
    /\ Current[1] = "current" /\ Current[2] = 0 /\ Current \in Names
<1>1. \A n : Ldb(n)[1] = "ldb" /\ Ldb(n)[2] = n
  BY DEF Ldb
<1>2. \A n : Sst(n)[1] = "sst" /\ Sst(n)[2] = n
  BY DEF Sst
<1>3. \A n : Log(n)[1] = "log" /\ Log(n)[2] = n
  BY DEF Log
<1>4. \A n \in Nat : Ldb(n) \in Names /\ Sst(n) \in Names /\ Log(n) \in Names
  BY DEF Ldb, Sst, Log, Names, FileKinds
<1>5. \A f \in Names : f[1] \in FileKinds /\ f[2] \in Nat
  BY DEF Names
<1>6. \A f \in Names : f = <<f[1], f[2]>>
  BY DEF Names
<1>7. Tmp[1] = "tmp" /\ Tmp \in Names
  BY DEF Tmp, Names, FileKinds
<1>8. Manifest1[1] = "manifest" /\ Manifest1 \in Names
  BY DEF Manifest1, Names, FileKinds
<1>9. Current[1] = "current" /\ Current[2] = 0 /\ Current \in Names
  BY DEF Current, Names, FileKinds
<1> QED
  BY <1>4, <1>5, <1>6, <1>7, <1>8, <1>9 DEF Ldb, Sst, Log

\* pop_front of the numbers still to be handled.
LEMMA TailOf ==
    ASSUME NEW s \in Seq(Nat), s # <<>>
    PROVE  /\ Head(s) \in Nat /\ Head(s) \in Elems(s) /\ Tail(s) \in Seq(Nat)
           /\ \A n \in Elems(Tail(s)) : n \in Elems(s)
           /\ \A n \in Elems(s) : n = Head(s) \/ n \in Elems(Tail(s))
           /\ Distinct(s) => Distinct(Tail(s)) /\ Head(s) \notin Elems(Tail(s))
<1>1. Len(s) \in Nat /\ Len(s) > 0 /\ Head(s) = s[1] /\ Tail(s) \in Seq(Nat) /\ Len(Tail(s)) = Len(s) - 1
  OBVIOUS
<1>2. \A i \in 1..Len(Tail(s)) : Tail(s)[i] = s[i + 1] /\ i + 1 \in 1..Len(s)
  BY <1>1
<1>3. 1 \in 1..Len(s)
  BY <1>1
<1>4. Head(s) \in Nat
  BY <1>1, <1>3
<1>5. \A n \in Elems(Tail(s)) : n \in Elems(s)
  BY <1>2 DEF Elems
<1>6. ASSUME NEW i \in 1..Len(s), i # 1
      PROVE  s[i] \in Elems(Tail(s))
  <2>1. i - 1 \in 1..Len(Tail(s)) /\ (i - 1) + 1 = i
    BY <1>1, <1>6
  <2>2. Tail(s)[i - 1] = s[i]
    BY <2>1, <1>2
  <2> QED
    BY <2>1, <2>2 DEF Elems
<1>7. \A n \in Elems(s) : n = Head(s) \/ n \in Elems(Tail(s))
  BY <1>1, <1>6 DEF Elems
<1>8. ASSUME Distinct(s)
      PROVE  Distinct(Tail(s)) /\ Head(s) \notin Elems(Tail(s))
  <2>1. \A i, j \in 1..Len(Tail(s)) : i # j => i + 1 # j + 1
    OBVIOUS
  <2>2. Distinct(Tail(s))
    BY <1>2, <1>8, <2>1 DEF Distinct
  <2>3. \A i \in 1..Len(Tail(s)) : i + 1 # 1
    OBVIOUS
  <2> QED
    BY <1>8 DEF Distinct, Elems
<1> QED
  BY <1>8 DEF Elems

\* push_back of a number that is not there.
LEMMA AppendOf ==
    ASSUME NEW s \in Seq(Nat), NEW n \in Nat
    PROVE  /\ Append(s, n) \in Seq(Nat) /\ Append(s, n) # <<>>
           /\ \A m : m \in Elems(Append(s, n)) <=> m \in Elems(s) \/ m = n
           /\ Distinct(s) /\ n \notin Elems(s) => Distinct(Append(s, n))
<1> DEFINE t == Append(s, n)
<1>1. Len(s) \in Nat /\ t \in Seq(Nat) /\ Len(t) = Len(s) + 1 /\ t[Len(s) + 1] = n
  OBVIOUS
<1>2. \A i \in 1..Len(s) : t[i] = s[i] /\ i \in 1..Len(t)
  OBVIOUS
<1>3. \A i \in 1..Len(t) : i \in 1..Len(s) \/ i = Len(s) + 1
  BY <1>1
<1>4. Len(s) + 1 \in 1..Len(t) /\ Append(s, n) # <<>>
  BY <1>1
<1> HIDE DEF t
<1>5. \A m : m \in Elems(t) <=> m \in Elems(s) \/ m = n
  BY <1>1, <1>2, <1>3, <1>4 DEF Elems
<1>6. Distinct(s) /\ n \notin Elems(s) => Distinct(t)
  BY <1>1, <1>2, <1>3 DEF Distinct, Elems
<1> QED
  BY <1>1, <1>4, <1>5, <1>6 DEF t

\* Nothing is left of an empty sequence.
LEMMA EmptyElems == Elems(<<>>) = {} /\ Distinct(<<>>) /\ <<>> \in Seq(Nat)
  BY DEF Elems, Distinct

\* A finite set of numbers has a bound: the least size of one without would have
\* an element, and the rest a bound.
LEMMA FiniteBound ==
    ASSUME NEW S \in SUBSET Nat, IsFiniteSet(S)
    PROVE  \E b \in Nat : \A k \in S : k <= b
<1> DEFINE Bound(T) == \E b \in Nat : \A k \in T : k <= b
           sizes == {n \in Nat : \E T \in SUBSET S : IsFiniteSet(T) /\ Cardinality(T) = n /\ ~Bound(T)}
<1>1. SUFFICES ASSUME ~Bound(S)
               PROVE  FALSE
  OBVIOUS
<1>2. Cardinality(S) \in sizes
  BY <1>1, FS_CardinalityType
<1>3. PICK n \in sizes : \A k \in sizes : n <= k
  BY <1>2, LeastElement
<1>4. PICK T \in SUBSET S : IsFiniteSet(T) /\ Cardinality(T) = n /\ ~Bound(T)
  BY <1>3
<1>5. T # {}
  BY <1>4
<1>6. PICK x \in T : TRUE
  BY <1>5
<1>7. IsFiniteSet(T \ {x}) /\ Cardinality(T \ {x}) = n - 1
  BY <1>4, <1>6, FS_RemoveElement
<1>8. Cardinality(T \ {x}) \in Nat
  BY <1>7, FS_CardinalityType
<1>9. Bound(T \ {x})
  <2>1. SUFFICES ASSUME ~Bound(T \ {x})
                 PROVE  FALSE
    OBVIOUS
  <2>2. T \ {x} \in SUBSET S
    BY <1>4
  <2>3. n - 1 \in sizes
    BY <1>7, <1>8, <2>1, <2>2
  <2>4. n <= n - 1
    BY <1>3, <2>3
  <2> QED
    BY <1>3, <2>4
<1>10. PICK b \in Nat : \A k \in T \ {x} : k <= b
  BY <1>9
<1>11. x \in Nat /\ x + b \in Nat /\ b <= x + b /\ x <= x + b
  BY <1>4, <1>6, <1>10
<1>12. \A k \in T : k \in Nat
  BY <1>4
<1>13. \A k \in T : k <= x + b
  BY <1>10, <1>11, <1>12
<1>14. Bound(T)
  BY <1>11, <1>13
<1> QED
  BY <1>4, <1>14

\* Max of a finite set and zero (next_file_number_, max_sequence).
LEMMA MaxWithZero ==
    ASSUME NEW S \in SUBSET Nat, IsFiniteSet(S)
    PROVE  Max(S \cup {0}) \in Nat /\ \A k \in S : k <= Max(S \cup {0})
<1> DEFINE T == S \cup {0}
<1>1. PICK b \in Nat : \A k \in S : k <= b
  BY FiniteBound
<1>2. T \in SUBSET Nat /\ T # {} /\ \A k \in T : k <= b
  BY <1>1
<1> HIDE DEF T
<1> DEFINE gaps == {n \in Nat : \E k \in T : n = b - k}
<1>3. \A k \in T : k \in Nat /\ b - k \in gaps
  BY <1>2
<1>4. gaps \in SUBSET Nat /\ gaps # {}
  BY <1>2, <1>3
<1>5. PICK g \in gaps : \A n \in gaps : g <= n
  BY <1>4, LeastElement
<1>6. PICK m \in T : g = b - m
  BY <1>5
<1>7. \A k \in T : m >= k
  BY <1>3, <1>5, <1>6
<1>8. Max(T) \in T /\ \A k \in T : Max(T) >= k
  BY <1>7 DEF Max
<1> QED
  BY <1>2, <1>3, <1>8 DEF T

\* SetToSeqs lists every element once.
LEMMA Listing ==
    ASSUME NEW S, IsFiniteSet(S), NEW s \in SetToSeqs(S)
    PROVE  /\ s \in Seq(S) /\ DOMAIN s = 1..Len(s) /\ \A i \in 1..Len(s) : s[i] \in S
           /\ \A i, j \in 1..Len(s) : i # j => s[i] # s[j]
           /\ \A x \in S : \E i \in 1..Len(s) : s[i] = x
<1>1. Cardinality(S) \in Nat
  BY FS_CardinalityType
<1> DEFINE D == 1..Cardinality(S)
<1>2. s \in [D -> S] /\ \A i, j \in D : i # j => s[i] # s[j]
  BY DEF SetToSeqs
<1>3. s \in Injection(D, S)
  BY <1>2 DEF Injection, IsInjective
<1>4. IsFiniteSet(D) /\ Cardinality(D) = Cardinality(S)
  BY <1>1, FS_Interval
<1>5. s \in Surjection(D, S)
  BY <1>3, <1>4, FS_Injection
<1>6. \A x \in S : \E i \in D : s[i] = x
  BY <1>5 DEF Surjection
<1>7. s \in Seq(S) /\ Len(s) = Cardinality(S) /\ DOMAIN s = D
  BY <1>1, <1>2
<1> QED
  BY <1>2, <1>6, <1>7

-----------------------------------------------------------------------------
(* What a step does to the directory *)

\* A file is written, over one of that name or not.
Wrote(n, c) ==
    /\ Dir' = Dir \cup {Ldb(n)} /\ rdir'[Ldb(n)] = c
    /\ \A f \in Dir : f # Ldb(n) => rdir'[f] = rdir[f]
    /\ rlost' = rlost
\* A table is removed.
Removed(n) ==
    /\ Dir' = Dir \ {Ldb(n)}
    /\ \A f \in Dir : f # Ldb(n) => rdir'[f] = rdir[f]
    /\ rlost' = rlost
\* Files go to lost/.
Archived(F) ==
    /\ F \subseteq Dir /\ Dir' = Dir \ F /\ Lost' = Lost \cup F
    /\ \A f \in Dir : f \notin F => rdir'[f] = rdir[f]
    /\ \A f \in F : rlost'[f] = rdir[f]
    /\ \A f \in Lost : f \notin F => rlost'[f] = rlost[f]
\* A table takes the name of another.
Renamed(a, b) ==
    /\ Dir' = (Dir \ {Ldb(a)}) \cup {Ldb(b)} /\ rdir'[Ldb(b)] = rdir[Ldb(a)]
    /\ \A f \in Dir : f # Ldb(a) /\ f # Ldb(b) => rdir'[f] = rdir[f]
    /\ rlost' = rlost
\* Only files that hold no entries change.
DataKept ==
    /\ IsFiniteSet(Dir') /\ Dir' \subseteq Names /\ Lost' \subseteq Names
    /\ \A f : f[1] \in DataKinds => (f \in Dir' <=> f \in Dir) /\ (f \in Lost' <=> f \in Lost)
    /\ \A f \in Dir : f[1] \in DataKinds => rdir'[f] = rdir[f]
    /\ \A f \in Lost : f[1] \in DataKinds => rlost'[f] = rlost[f]

TableSame(n) ==
    /\ Ldb(n) \in Dir' <=> Ldb(n) \in Dir
    /\ Sst(n) \in Dir' <=> Sst(n) \in Dir
    /\ Ldb(n) \in Dir => rdir'[Ldb(n)] = rdir[Ldb(n)]
    /\ Sst(n) \in Dir => rdir'[Sst(n)] = rdir[Sst(n)]
LogSame(n) == Log(n) \in Dir => Log(n) \in Dir' /\ rdir'[Log(n)] = rdir[Log(n)]

\* The model's updates of a directory.
LEMMA DirUpdates ==
    ASSUME NEW d, NEW f, NEW c
    PROVE  /\ DOMAIN With1(d, f, c) = DOMAIN d \cup {f} /\ With1(d, f, c)[f] = c
           /\ \A g \in DOMAIN d : g # f => With1(d, f, c)[g] = d[g]
           /\ DOMAIN Without1(d, f) = DOMAIN d \ {f}
           /\ \A g \in DOMAIN d : g # f => Without1(d, f)[g] = d[g]
  BY DEF With1, Without1

\* A table written keeps what it held, and what lost/ has under its name.
LEMMA WroteKeeps ==
    ASSUME DirTypes, LostInv, SafeInv, rcount'.entries = rcount.entries,
           rcount'.misreads = 0 => rcount.misreads = 0, rcount.misreads # 0 => Listed \subseteq Listed',
           NEW n \in Nat, NEW c \in Contents, IsFiniteSet(c.good), Wrote(n, c),
           Ldb(n) \in Dir => rdir[Ldb(n)].good \subseteq c.good,
           Ldb(n) \in Lost => rlost[Ldb(n)].good \subseteq c.good
    PROVE  /\ DirTypes' /\ LostInv' /\ SafeInv'
           /\ \A m : m # n => TableSame(m)
           /\ \A m : LogSame(m)
           /\ Sst(n) \in Dir' <=> Sst(n) \in Dir
<1>1. Lost' = Lost
  BY DEF Wrote, Lost
<1>2. Ldb(n)[1] = "ldb" /\ "ldb" \in DataKinds /\ Ldb(n) \in Names
  BY NameParts DEF DataKinds
<1>3. \A m : m # n => Ldb(m) # Ldb(n)
  BY NameParts
<1>4. \A m : Sst(m) # Ldb(n) /\ Log(m) # Ldb(n)
  BY NameParts
<1>5. DirTypes'
  <2>1. IsFiniteSet(Dir')
    BY FS_AddElement DEF DirTypes, Wrote
  <2>2. Dir' \subseteq Names /\ Lost' \subseteq Names
    BY <1>1, <1>2 DEF DirTypes, Wrote
  <2>3. \A f \in Dir' : f[1] \in DataKinds => rdir'[f] \in Contents /\ IsFiniteSet(rdir'[f].good)
    BY DEF DirTypes, Wrote
  <2>4. \A f \in Lost' : f[1] \in DataKinds => rlost'[f] \in Contents
    BY <1>1 DEF DirTypes, Wrote
  <2> QED
    BY <2>1, <2>2, <2>3, <2>4 DEF DirTypes
<1>6. LostInv'
  BY <1>1, <1>2, <1>4 DEF LostInv, Wrote
<1>7. \A e : InDir(e) => InDir(e)'
  BY <1>2 DEF InDir, Wrote
<1>8. \A e : InLost(e) => InLost(e)'
  BY <1>1 DEF InLost, Wrote
<1>9. SafeInv'
  BY <1>7, <1>8 DEF SafeInv
<1> QED
  BY <1>3, <1>4, <1>5, <1>6, <1>9 DEF TableSame, LogSame, Wrote

\* A table removed held nothing that is not elsewhere.
LEMMA RemovedKeeps ==
    ASSUME DirTypes, LostInv, SafeInv, rcount'.entries = rcount.entries,
           rcount'.misreads = 0 => rcount.misreads = 0, rcount.misreads # 0 => Listed \subseteq Listed',
           NEW n \in Nat, Ldb(n) \in Dir, Removed(n),
           \A e \in rdir[Ldb(n)].good :
              \/ InLost(e)
              \/ \E f \in Dir : f # Ldb(n) /\ f[1] \in DataKinds /\ e \in rdir[f].good
    PROVE  /\ DirTypes' /\ LostInv' /\ SafeInv'
           /\ \A m : m # n => TableSame(m)
           /\ \A m : LogSame(m)
           /\ Sst(n) \in Dir' <=> Sst(n) \in Dir
<1>1. Lost' = Lost
  BY DEF Removed, Lost
<1>2. \A m : m # n => Ldb(m) # Ldb(n)
  BY NameParts
<1>3. \A m : Sst(m) # Ldb(n) /\ Log(m) # Ldb(n)
  BY NameParts
<1>4. DirTypes'
  <2>1. IsFiniteSet(Dir')
    BY FS_RemoveElement DEF DirTypes, Removed
  <2>2. Dir' \subseteq Names /\ Lost' \subseteq Names
    BY <1>1 DEF DirTypes, Removed
  <2>3. \A f \in Dir' : f[1] \in DataKinds => rdir'[f] \in Contents /\ IsFiniteSet(rdir'[f].good)
    BY DEF DirTypes, Removed
  <2>4. \A f \in Lost' : f[1] \in DataKinds => rlost'[f] \in Contents
    BY <1>1 DEF DirTypes, Removed
  <2> QED
    BY <2>1, <2>2, <2>3, <2>4 DEF DirTypes
<1>5. LostInv'
  BY <1>1, <1>3 DEF LostInv, Removed
<1>6. \A e : InLost(e) => InLost(e)'
  BY <1>1 DEF InLost, Removed
<1>7. \A e : InDir(e) => InDir(e)' \/ InLost(e)
  BY DEF InDir, Removed
<1>8. SafeInv'
  BY <1>6, <1>7 DEF SafeInv
<1> QED
  BY <1>2, <1>3, <1>4, <1>5, <1>8 DEF TableSame, LogSame, Removed

\* Archived files replace files of lost/ that held no more.
LEMMA ArchivedKeeps ==
    ASSUME DirTypes, LostInv, SafeInv, rcount'.entries = rcount.entries,
           rcount'.misreads = 0 => rcount.misreads = 0, rcount.misreads # 0 => Listed \subseteq Listed',
           NEW F, Archived(F),
           \A n \in Nat : Ldb(n) \in F => Sst(n) \notin Dir' /\ (n \notin Listed \/ rcount.misreads = 0)
    PROVE  /\ DirTypes' /\ LostInv' /\ SafeInv'
           /\ \A m : Ldb(m) \notin F /\ Sst(m) \notin F => TableSame(m)
           /\ \A m : Log(m) \notin F => LogSame(m)
<1>1. DirTypes'
  <2>1. IsFiniteSet(Dir')
    BY FS_Subset DEF DirTypes, Archived
  <2>2. Dir' \subseteq Names /\ Lost' \subseteq Names
    BY DEF DirTypes, Archived
  <2>3. \A f \in Dir' : f[1] \in DataKinds => rdir'[f] \in Contents /\ IsFiniteSet(rdir'[f].good)
    BY DEF DirTypes, Archived
  <2>4. \A f \in Lost' : f[1] \in DataKinds => rlost'[f] \in Contents
    BY DEF DirTypes, Archived
  <2> QED
    BY <2>1, <2>2, <2>3, <2>4 DEF DirTypes
<1>2. LostInv'
  BY DEF LostInv, Archived
<1>a. \A f \in Dir : f[1] = "ldb" => f = Ldb(f[2]) /\ f[2] \in Nat
  BY NameParts DEF DirTypes
<1>3. \A e : InDir(e) => InDir(e)' \/ InLost(e)'
  BY DEF InDir, InLost, Archived
<1>4. \A e : InLost(e) => InLost(e)'
  BY <1>a DEF InLost, LostInv, Archived
<1>5. SafeInv'
  BY <1>3, <1>4 DEF SafeInv
<1> QED
  BY <1>1, <1>2, <1>5 DEF TableSame, LogSame, Archived

\* A table renamed replaces one that held no more.
LEMMA RenamedKeeps ==
    ASSUME DirTypes, LostInv, SafeInv, rcount'.entries = rcount.entries,
           rcount'.misreads = 0 => rcount.misreads = 0, rcount.misreads # 0 => Listed \subseteq Listed',
           NEW a \in Nat, NEW b \in Nat, a # b, Ldb(a) \in Dir, Renamed(a, b),
           Ldb(b) \in Dir => rdir[Ldb(b)].good \subseteq rdir[Ldb(a)].good,
           Ldb(b) \in Lost => \/ rlost[Ldb(b)].good \subseteq rdir[Ldb(a)].good
                              \/ rcount'.misreads # 0 /\ b \in Listed'
    PROVE  /\ DirTypes' /\ LostInv' /\ SafeInv'
           /\ \A m : m # a /\ m # b => TableSame(m)
           /\ \A m : LogSame(m) /\ (Sst(m) \in Dir' <=> Sst(m) \in Dir)
<1>1. Lost' = Lost
  BY DEF Renamed, Lost
<1>2. \A m : (m # a => Ldb(m) # Ldb(a)) /\ (m # b => Ldb(m) # Ldb(b))
  BY NameParts
<1>3. \A m : Sst(m) # Ldb(a) /\ Log(m) # Ldb(a) /\ Sst(m) # Ldb(b) /\ Log(m) # Ldb(b)
  BY NameParts
<1>4. Ldb(a)[1] = "ldb" /\ Ldb(b)[1] = "ldb" /\ "ldb" \in DataKinds /\ Ldb(b) \in Names
  BY NameParts DEF DataKinds
<1>5. DirTypes'
  <2>1. IsFiniteSet(Dir')
    <3>1. IsFiniteSet(Dir \ {Ldb(a)})
      BY FS_RemoveElement DEF DirTypes
    <3> QED
      BY <3>1, FS_AddElement DEF Renamed
  <2>2. Dir' \subseteq Names /\ Lost' \subseteq Names
    BY <1>1, <1>4 DEF DirTypes, Renamed
  <2>3. \A f \in Dir' : f[1] \in DataKinds => rdir'[f] \in Contents /\ IsFiniteSet(rdir'[f].good)
    BY <1>4 DEF DirTypes, Renamed
  <2>4. \A f \in Lost' : f[1] \in DataKinds => rlost'[f] \in Contents
    BY <1>1 DEF DirTypes, Renamed
  <2> QED
    BY <2>1, <2>2, <2>3, <2>4 DEF DirTypes
<1>6. LostInv'
  BY <1>1, <1>3, <1>4, NameParts DEF LostInv, Renamed
<1>7. \A e : InLost(e) => InLost(e)'
  BY <1>1 DEF InLost, Renamed
<1>8. \A e : InDir(e) => InDir(e)'
  BY <1>4 DEF InDir, Renamed
<1>9. SafeInv'
  BY <1>7, <1>8 DEF SafeInv
<1> QED
  BY <1>2, <1>3, <1>5, <1>6, <1>9 DEF TableSame, LogSame, Renamed

\* Files without entries do not matter.
LEMMA DataKeeps ==
    ASSUME DirTypes, LostInv, SafeInv, rcount'.entries = rcount.entries,
           rcount'.misreads = 0 => rcount.misreads = 0, rcount.misreads # 0 => Listed \subseteq Listed', DataKept
    PROVE  /\ DirTypes' /\ LostInv' /\ SafeInv'
           /\ \A m : TableSame(m) /\ LogSame(m)
           /\ \A m : Ldb(m) \in Lost' <=> Ldb(m) \in Lost
<1>1. \A m : Ldb(m)[1] \in DataKinds /\ Sst(m)[1] \in DataKinds /\ Log(m)[1] \in DataKinds
  BY NameParts DEF DataKinds
<1>2. DirTypes'
  BY DEF DirTypes, DataKept
<1>3. LostInv'
  BY <1>1 DEF LostInv, DataKept
<1>4. \A e : InDir(e) => InDir(e)'
  BY DEF InDir, DataKept
<1>5. \A e : InLost(e) => InLost(e)'
  BY DEF InLost, DataKept
<1>6. SafeInv'
  BY <1>4, <1>5 DEF SafeInv
<1> QED
  BY <1>1, <1>2, <1>3, <1>6 DEF TableSame, LogSame, DataKept

\* A directory nobody touched.
LEMMA UntouchedKept ==
    ASSUME DirTypes, UNCHANGED <<rdir, rlost>>
    PROVE  DataKept
  BY DEF DirTypes, DataKept, Dir, Lost

\* The listed tables are as they were.
LEMMA ListedFrame ==
    ASSUME ListedInv, rp.pc \in Running, rp'.tables = rp.tables, \A n \in Listed : TableSame(n),
           rcount'.misreads = 0 => rcount.misreads = 0
    PROVE  ListedInv'
<1>1. \A n \in Listed : (HasTable(n) => HasTable(n)') /\ (HasTable(n) => TableContent(n)' = TableContent(n))
  BY DEF TableSame, HasTable, TableContent
<1>2. \A t \in rp.tables : t.number \in Listed
  BY DEF Listed
<1> QED
  BY <1>1, <1>2 DEF ListedInv

-----------------------------------------------------------------------------
(* Steps *)

USE DEF Running, RepairPcs, LogPcs, TablePcs, LastPcs, Copying

\* A failure happens in the first call only, and no read has failed, in a Clean state.
LEMMA FaultCounts ==
    ASSUME CountTypes, Fault
    PROVE  /\ CountTypes' /\ rcount'.entries = rcount.entries /\ rcount'.calls = rcount.calls
           /\ rcount'.faults # 0
           /\ Clean' => rcount.calls = 0 /\ rcount.misreads = 0 /\ rcount'.misreads = 0
  BY DEF CountTypes, Fault, Clean

\* Nothing fails.
LEMMA NoFaultCounts ==
    ASSUME CountTypes, NoFault
    PROVE  /\ CountTypes' /\ rcount' = rcount /\ (Clean' => Clean)
  BY DEF CountTypes, NoFault, Clean

\* A file is read, to its end or not.
LEMMA ReadCounts ==
    ASSUME CountTypes, NEW good, NEW seen, ReadsOf(good, seen)
    PROVE  /\ CountTypes' /\ rcount'.entries = rcount.entries /\ rcount'.calls = rcount.calls
           /\ rcount'.faults = rcount.faults
           /\ rcount'.misreads = 0 => rcount' = rcount /\ seen = good /\ rcount.misreads = 0
           /\ rcount' = rcount \/ rcount'.misreads # 0
           /\ rcount' = rcount => seen = good
           /\ Clean' => Clean
<1>1. CASE NoFault /\ seen = good
  BY <1>1, NoFaultCounts
<1>2. CASE MayFault /\ rcount' = [rcount EXCEPT !.misreads = @ + 1]
  BY <1>2 DEF CountTypes, Clean
<1> QED
  BY <1>1, <1>2 DEF ReadsOf

\* The parts of the Repairer that did not change give the same sets.
LEMMA SameSets ==
    /\ rp'.logs = rp.logs => Logs' = Logs
    /\ rp'.table_numbers = rp.table_numbers => Queue' = Queue /\ Number' = Number
    /\ rp'.tables = rp.tables => Listed' = Listed
    /\ rp'.tables = rp.tables /\ rp'.next = rp.next => Edit' = Edit
  BY DEF Logs, Queue, Number, Listed, Edit

\* Add1: a file of the directory is made.
LEMMA WithWrites ==
    ASSUME NEW n, NEW c, rdir' = With1(rdir, Ldb(n), c), rlost' = rlost
    PROVE  Wrote(n, c)
<1> DEFINE x == Ldb(n)
<1>1. rdir' = With1(rdir, x, c)
  OBVIOUS
<1> HIDE DEF x
<1>2. Dir' = Dir \cup {x} /\ rdir'[x] = c /\ \A f \in Dir : f # x => rdir'[f] = rdir[f]
  BY <1>1 DEF With1, Dir
<1> QED
  BY <1>2 DEF Wrote, x

\* RemoveFile.
LEMMA WithoutRemoves ==
    ASSUME NEW n, rdir' = Without1(rdir, Ldb(n)), rlost' = rlost
    PROVE  Removed(n)
<1> DEFINE x == Ldb(n)
<1>1. rdir' = Without1(rdir, x)
  OBVIOUS
<1> HIDE DEF x
<1>2. Dir' = Dir \ {x} /\ \A f \in Dir : f # x => rdir'[f] = rdir[f]
  BY <1>1 DEF Without1, Dir
<1> QED
  BY <1>2 DEF Removed, x

\* The file of the directory is written again.
LEMMA ExceptWrites ==
    ASSUME NEW n, NEW c, Ldb(n) \in Dir, rdir' = [rdir EXCEPT ![Ldb(n)] = c], rlost' = rlost
    PROVE  Wrote(n, c)
<1> DEFINE x == Ldb(n)
<1>1. rdir' = [rdir EXCEPT ![x] = c] /\ x \in DOMAIN rdir
  BY DEF Dir
<1> HIDE DEF x
<1>2. Dir' = Dir \cup {x} /\ rdir'[x] = c /\ \A f \in Dir : f # x => rdir'[f] = rdir[f]
  BY <1>1 DEF Dir
<1> QED
  BY <1>2 DEF Wrote, x

\* RenameFile of a table to the name of a table.
LEMMA WithRenames ==
    ASSUME NEW a, NEW b, rdir' = With1(Without1(rdir, Ldb(a)), Ldb(b), rdir[Ldb(a)]), rlost' = rlost
    PROVE  Renamed(a, b)
<1> DEFINE x == Ldb(a)
           y == Ldb(b)
<1>1. rdir' = With1(Without1(rdir, x), y, rdir[x])
  OBVIOUS
<1> HIDE DEF x, y
<1>2. /\ Dir' = (Dir \ {x}) \cup {y} /\ rdir'[y] = rdir[x]
      /\ \A f \in Dir : f # x /\ f # y => rdir'[f] = rdir[f]
  BY <1>1 DEF With1, Without1, Dir
<1> QED
  BY <1>2 DEF Renamed, x, y

\* ArchiveFile of a file that is there, or not.
LEMMA ArchiveEffect ==
    ASSUME CountTypes, NEW f, ArchiveFile(f)
    PROVE  \/ f \in Dir /\ rcount' = rcount /\ Archived({f})
           \/ f \in Dir /\ Fault /\ UNCHANGED <<rdir, rlost>>
           \/ f \notin Dir /\ rcount' = rcount /\ UNCHANGED <<rdir, rlost>>
<1>1. CASE f \in Dir /\ NoFault /\ rdir' = Without1(rdir, f) /\ rlost' = With1(rlost, f, rdir[f])
  <2>1. /\ Dir' = Dir \ {f} /\ Lost' = Lost \cup {f} /\ rlost'[f] = rdir[f]
        /\ \A g \in Dir : g # f => rdir'[g] = rdir[g]
        /\ \A g \in Lost : g # f => rlost'[g] = rlost[g]
    BY <1>1 DEF With1, Without1, Dir, Lost
  <2> QED
    BY <1>1, <2>1 DEF Archived, NoFault
<1>2. CASE f \in Dir /\ Fault /\ UNCHANGED <<rdir, rlost>>
  BY <1>2
<1>3. CASE f \notin Dir /\ NoFault /\ UNCHANGED <<rdir, rlost>>
  BY <1>3 DEF NoFault
<1> QED
  BY <1>1, <1>2, <1>3 DEF ArchiveFile, Dir

\* ConvertLogFilesToTables returns.
LEMMA LogsDoneKeeps ==
    ASSUME CountTypes, RepairCore, Clean', LogsDone
    PROVE  RepairCore'
<1>0. DirTypes /\ RpTypes /\ NextInv /\ StartInv /\ LogsInv /\ QueueInv /\ CopyInv /\ SrcInv
       /\ ListedInv /\ LostInv /\ SafeInv /\ NumberInv /\ AllInv /\ DescriptorInv
  BY DEF RepairCore
<1>1. rp.pc = "logs" /\ rp.logs = <<>> /\ rcount' = rcount
  BY NoFaultCounts DEF LogsDone
<1>2. /\ rp' \in RpType /\ rp'.pc = "scan" /\ rp'.next = rp.next /\ rp'.logs = rp.logs
      /\ rp'.table_numbers = rp.table_numbers /\ rp'.manifests = rp.manifests
      /\ rp'.tables = rp.tables /\ rp'.copy = rp.copy /\ rp'.src = rp.src /\ rp'.good = rp.good
  BY <1>0, <1>1 DEF LogsDone, RpTypes, RpType
<1>3. rp'.next > 0 /\ IsFiniteSet(rp'.tables) /\ IsFiniteSet(rp'.good)
  BY <1>0, <1>2 DEF RpTypes
<1>4. Logs' = Logs /\ Queue' = Queue /\ Number' = Number /\ Listed' = Listed
  BY <1>2, SameSets
<1>5. DataKept /\ rdir' = rdir /\ rlost' = rlost
  BY <1>0, UntouchedKept DEF LogsDone
<1>6. /\ DirTypes' /\ LostInv' /\ SafeInv'
      /\ \A m : TableSame(m) /\ LogSame(m)
      /\ \A m : Ldb(m) \in Lost' <=> Ldb(m) \in Lost
  BY <1>0, <1>4, <1>1, <1>5, DataKeeps
<1>7. NextInv'
  BY <1>0, <1>1, <1>2, <1>4, <1>5, <1>6 DEF NextInv, Dir
<1>8. StartInv'
  BY <1>2 DEF StartInv
<1>9. LogsInv'
  BY <1>0, <1>1, <1>2, <1>4, <1>5 DEF LogsInv, Dir
<1>10. QueueInv'
  BY <1>0, <1>1, <1>2, <1>4, <1>5 DEF QueueInv, Dir
<1>11. CopyInv'
  BY <1>2 DEF CopyInv
<1>12. SrcInv'
  BY <1>2 DEF SrcInv
<1>13. ListedInv'
  BY <1>0, <1>1, <1>2, <1>6, ListedFrame
<1>14. NumberInv'
  BY <1>0, <1>1, <1>2, <1>5, <1>6 DEF NumberInv, Dir
<1>15. AllInv'
  BY <1>0, <1>1, <1>4, <1>5, EmptyElems DEF AllInv, Dir, RestLogs, HasTable, TableContent, Logs
<1>16. DescriptorInv'
  BY <1>2 DEF DescriptorInv
<1> QED
  BY <1>2, <1>6, <1>7, <1>8, <1>9, <1>10, <1>11, <1>12, <1>13, <1>14, <1>15, <1>16 DEF RepairCore, RpTypes

\* The log cannot be opened.
LEMMA OpenLogFailsKeeps ==
    ASSUME CountTypes, RepairCore, Clean', OpenLogFails
    PROVE  RepairCore'
<1>0. DirTypes /\ RpTypes /\ NextInv /\ StartInv /\ LogsInv /\ QueueInv /\ CopyInv /\ SrcInv
       /\ ListedInv /\ LostInv /\ SafeInv /\ NumberInv /\ AllInv /\ DescriptorInv
  BY DEF RepairCore
<1>1. /\ rp.pc = "logs" /\ rp.logs # <<>>
      /\ rcount'.entries = rcount.entries /\ rcount'.calls = rcount.calls /\ rcount'.faults # 0
      /\ rcount.calls = 0 /\ rcount.misreads = 0 /\ rcount'.misreads = 0
  BY FaultCounts DEF OpenLogFails
<1>2. /\ rp' \in RpType /\ rp'.pc = "archive_log" /\ rp'.next = rp.next /\ rp'.logs = rp.logs
      /\ rp'.table_numbers = rp.table_numbers /\ rp'.manifests = rp.manifests
      /\ rp'.tables = rp.tables /\ rp'.copy = rp.copy /\ rp'.src = rp.src /\ rp'.good = rp.good
  BY <1>0, <1>1 DEF OpenLogFails, RpTypes, RpType
<1>3. rp'.next > 0 /\ IsFiniteSet(rp'.tables) /\ IsFiniteSet(rp'.good)
  BY <1>0, <1>2 DEF RpTypes
<1>4. Logs' = Logs /\ Queue' = Queue /\ Number' = Number /\ Listed' = Listed
  BY <1>2, SameSets
<1>5. DataKept /\ rdir' = rdir /\ rlost' = rlost
  BY <1>0, UntouchedKept DEF OpenLogFails
<1>6. /\ DirTypes' /\ LostInv' /\ SafeInv'
      /\ \A m : TableSame(m) /\ LogSame(m)
      /\ \A m : Ldb(m) \in Lost' <=> Ldb(m) \in Lost
  BY <1>0, <1>4, <1>1, <1>5, DataKeeps
<1>7. NextInv'
  BY <1>0, <1>1, <1>2, <1>4, <1>5, <1>6 DEF NextInv, Dir
<1>8. StartInv'
  BY <1>2 DEF StartInv
<1>9. LogsInv'
  BY <1>0, <1>1, <1>2, <1>4, <1>5 DEF LogsInv, Dir
<1>10. QueueInv'
  BY <1>0, <1>1, <1>2, <1>4, <1>5 DEF QueueInv, Dir
<1>11. CopyInv'
  BY <1>2 DEF CopyInv
<1>12. SrcInv'
  BY <1>2 DEF SrcInv
<1>13. ListedInv'
  BY <1>0, <1>1, <1>2, <1>6, ListedFrame
<1>14. NumberInv'
  BY <1>1 DEF NumberInv
<1>15. AllInv'
  BY <1>1 DEF AllInv
<1>16. DescriptorInv'
  BY <1>2 DEF DescriptorInv
<1> QED
  BY <1>2, <1>6, <1>7, <1>8, <1>9, <1>10, <1>11, <1>12, <1>13, <1>14, <1>15, <1>16 DEF RepairCore, RpTypes

\* ExtractMetaData returns.
LEMMA ScanDoneKeeps ==
    ASSUME CountTypes, RepairCore, Clean', ScanDone
    PROVE  RepairCore'
<1>0. DirTypes /\ RpTypes /\ NextInv /\ StartInv /\ LogsInv /\ QueueInv /\ CopyInv /\ SrcInv
       /\ ListedInv /\ LostInv /\ SafeInv /\ NumberInv /\ AllInv /\ DescriptorInv
  BY DEF RepairCore
<1>1. rp.pc = "scan" /\ rp.table_numbers = <<>> /\ rcount' = rcount
  BY NoFaultCounts DEF ScanDone
<1>2. /\ rp' \in RpType /\ rp'.pc = "descriptor" /\ rp'.next = rp.next /\ rp'.logs = rp.logs
      /\ rp'.table_numbers = rp.table_numbers /\ rp'.manifests = rp.manifests
      /\ rp'.tables = rp.tables /\ rp'.copy = rp.copy /\ rp'.src = rp.src /\ rp'.good = rp.good
  BY <1>0, <1>1 DEF ScanDone, RpTypes, RpType
<1>3. rp'.next > 0 /\ IsFiniteSet(rp'.tables) /\ IsFiniteSet(rp'.good)
  BY <1>0, <1>2 DEF RpTypes
<1>4. Logs' = Logs /\ Queue' = Queue /\ Number' = Number /\ Listed' = Listed
  BY <1>2, SameSets
<1>5. DataKept /\ rdir' = rdir /\ rlost' = rlost
  BY <1>0, UntouchedKept DEF ScanDone
<1>6. /\ DirTypes' /\ LostInv' /\ SafeInv'
      /\ \A m : TableSame(m) /\ LogSame(m)
      /\ \A m : Ldb(m) \in Lost' <=> Ldb(m) \in Lost
  BY <1>0, <1>4, <1>1, <1>5, DataKeeps
<1>7. NextInv'
  BY <1>0, <1>1, <1>2, <1>4, <1>5, <1>6 DEF NextInv, Dir
<1>8. StartInv'
  BY <1>2 DEF StartInv
<1>9. LogsInv'
  BY <1>0, <1>1, <1>2, <1>4, <1>5 DEF LogsInv, Dir
<1>10. QueueInv'
  BY <1>0, <1>1, <1>2, <1>4, <1>5 DEF QueueInv, Dir
<1>11. CopyInv'
  BY <1>2 DEF CopyInv
<1>12. SrcInv'
  BY <1>2 DEF SrcInv
<1>13. ListedInv'
  BY <1>0, <1>1, <1>2, <1>6, ListedFrame
<1>14. NumberInv'
  BY <1>0, <1>1, <1>2, <1>5, <1>6 DEF NumberInv, Dir
<1>15. AllInv'
  BY <1>0, <1>1, <1>2, <1>4, <1>5 DEF AllInv, Dir, RestLogs, HasTable, TableContent
<1>16. DescriptorInv'
  BY <1>2 DEF DescriptorInv
<1> QED
  BY <1>2, <1>6, <1>7, <1>8, <1>9, <1>10, <1>11, <1>12, <1>13, <1>14, <1>15, <1>16 DEF RepairCore, RpTypes
\* The sets hold numbers.
LEMMA QueueTypes ==
    ASSUME RpTypes
    PROVE  Queue \subseteq Nat /\ Listed \subseteq Nat /\ Logs \subseteq Nat
<1>1. rp.table_numbers \in Seq(Nat) /\ rp.logs \in Seq(Nat) /\ rp.tables \in SUBSET [number: Nat, max: Nat]
  BY DEF RpTypes, RpType
<1> QED
  BY <1>1 DEF Queue, Logs, Elems, Listed

\* A new number is not in use (next_file_number_++).
LEMMA FreshNumber ==
    ASSUME RpTypes, DirTypes, NextInv, rp.pc \in Running
    PROVE  /\ rp.next \in Nat /\ Ldb(rp.next) \notin Dir /\ Sst(rp.next) \notin Dir
           /\ Ldb(rp.next) \notin Lost /\ rp.next \notin Queue /\ rp.next \notin Listed
<1>1. rp.next \in Nat /\ ~(rp.next < rp.next)
  BY DEF RpTypes, RpType
<1>2. /\ Ldb(rp.next)[1] # "manifest" /\ Ldb(rp.next) # Tmp /\ Ldb(rp.next)[2] = rp.next
      /\ Sst(rp.next)[1] # "manifest" /\ Sst(rp.next) # Tmp /\ Sst(rp.next)[2] = rp.next
  BY NameParts
<1> QED
  BY <1>1, <1>2 DEF NextInv

\* ConvertLogToTable.
LEMMA ConvertLogKeeps ==
    ASSUME CountTypes, RepairCore, Clean', ConvertLogToTable
    PROVE  RepairCore'
<1>0. DirTypes /\ RpTypes /\ NextInv /\ StartInv /\ LogsInv /\ QueueInv /\ CopyInv /\ SrcInv
       /\ ListedInv /\ LostInv /\ SafeInv /\ NumberInv /\ AllInv /\ DescriptorInv
  BY DEF RepairCore
<1>1. /\ rp.pc = "logs" /\ rp.logs # <<>> /\ rlost' = rlost
      /\ rp.logs \in Seq(Nat) /\ rp.next \in Nat /\ rp.next > 0
  BY <1>0 DEF ConvertLogToTable, RpTypes, RpType
<1>2. /\ Head(rp.logs) \in Logs /\ LogName = Log(Head(rp.logs)) /\ LogName \in Dir /\ LogName[1] \in DataKinds
  BY <1>0, <1>1, TailOf, NameParts DEF Logs, LogsInv, LogName, Log, DataKinds
<1> DEFINE all == rdir[LogName].good
<1>3. all \in SUBSET Nat /\ IsFiniteSet(all)
  BY <1>0, <1>2 DEF DirTypes, Contents
<1>4. PICK good \in SUBSET all :
        /\ ReadsOf(all, good)
        /\ rp' = [rp EXCEPT !.next = @ + 1, !.copy = rp.next, !.good = good,
                            !.pc = IF good = {} THEN "archive_log" ELSE "build"]
        /\ rdir' = IF good = {} THEN rdir ELSE With1(rdir, Ldb(rp.next), Unfinished)
  BY DEF ConvertLogToTable, Ldb
<1> HIDE DEF all
<1>c. /\ rcount'.entries = rcount.entries /\ rcount'.calls = rcount.calls /\ rcount'.faults = rcount.faults
      /\ rcount'.misreads = 0 => good = all /\ rcount.misreads = 0
  BY <1>4, ReadCounts
<1>g. good \in SUBSET Nat /\ IsFiniteSet(good)
  BY <1>3, <1>4, FS_Subset
<1>5. /\ Queue \subseteq Nat /\ Listed \subseteq Nat /\ Logs \subseteq Nat
  BY <1>0, QueueTypes
<1>6. CASE good = {}
  <2>1. rdir' = rdir /\ rlost' = rlost
    BY <1>1, <1>4, <1>6
  <2>2. /\ rp' \in RpType /\ rp'.pc = "archive_log" /\ rp'.next = rp.next + 1
        /\ rp'.logs = rp.logs /\ rp'.table_numbers = rp.table_numbers
        /\ rp'.manifests = rp.manifests /\ rp'.tables = rp.tables /\ rp'.copy = rp.next
        /\ rp'.src = rp.src /\ rp'.good = good
    <3>1. rp' = [rp EXCEPT !.next = rp.next + 1, !.copy = rp.next, !.good = good, !.pc = "archive_log"]
      BY <1>4, <1>6
    <3>2. rp \in RpType /\ rp.next + 1 \in Nat
      BY <1>0, <1>1 DEF RpTypes
    <3> QED
      BY <1>1, <1>g, <3>1, <3>2 DEF RpType
  <2>3. rp'.next > 0 /\ IsFiniteSet(rp'.tables) /\ IsFiniteSet(rp'.good)
    BY <1>0, <1>1, <1>g, <2>2 DEF RpTypes
  <2>4. Logs' = Logs /\ Queue' = Queue /\ Number' = Number /\ Listed' = Listed
    BY <2>2, SameSets
  <2>5. DataKept
    BY <1>0, <2>1, UntouchedKept
  <2>6. /\ DirTypes' /\ LostInv' /\ SafeInv'
        /\ \A m : TableSame(m) /\ LogSame(m)
        /\ \A m : Ldb(m) \in Lost' <=> Ldb(m) \in Lost
    BY <1>0, <2>4, <1>1, <2>5, <1>c, DataKeeps
  <2>7. NextInv'
    BY <1>0, <2>1, <2>2, <2>4, <1>1, <1>5, NameParts DEF NextInv, Dir, Lost, DirTypes
  <2>8. StartInv'
    BY <2>2 DEF StartInv
  <2>9. LogsInv'
    BY <1>0, <2>1, <2>2, <2>4, <1>1 DEF LogsInv, Dir
  <2>10. QueueInv'
    BY <1>0, <2>1, <2>2, <2>4, <1>1 DEF QueueInv, Dir
  <2>11. CopyInv'
    BY <2>2 DEF CopyInv
  <2>12. SrcInv'
    BY <2>2 DEF SrcInv
  <2>13. ListedInv'
    BY <1>0, <2>2, <2>6, <1>1, <1>c, ListedFrame
  <2>14. NumberInv'
    BY <1>0, <2>1, <2>2, <1>1, <1>c DEF NumberInv, Dir, Lost
  <2>15. AllInv'
    BY <1>0, <2>1, <2>2, <2>4, <1>1, <1>2, <1>6, <1>c DEF AllInv, Dir, RestLogs, HasTable, TableContent, all
  <2>16. DescriptorInv'
    BY <2>2 DEF DescriptorInv
  <2> QED
    BY <2>2, <2>3, <2>6, <2>7, <2>8, <2>9, <2>10, <2>11, <2>12, <2>13, <2>14, <2>15, <2>16
       DEF RepairCore, RpTypes
<1>7. CASE good # {}
  <2>1. rdir' = With1(rdir, Ldb(rp.next), Unfinished) /\ rlost' = rlost
    BY <1>1, <1>4, <1>7
  <2>2. /\ rp' \in RpType /\ rp'.pc = "build" /\ rp'.next = rp.next + 1 /\ rp'.logs = rp.logs
        /\ rp'.table_numbers = rp.table_numbers /\ rp'.manifests = rp.manifests
        /\ rp'.tables = rp.tables /\ rp'.copy = rp.next /\ rp'.src = rp.src /\ rp'.good = good
    <3>1. rp' = [rp EXCEPT !.next = rp.next + 1, !.copy = rp.next, !.good = good, !.pc = "build"]
      BY <1>4, <1>7
    <3>2. rp \in RpType /\ rp.next + 1 \in Nat
      BY <1>0, <1>1 DEF RpTypes
    <3> QED
      BY <1>1, <1>g, <3>1, <3>2 DEF RpType
  <2>3. rp'.next > 0 /\ IsFiniteSet(rp'.tables) /\ IsFiniteSet(rp'.good)
    BY <1>0, <1>1, <1>g, <2>2 DEF RpTypes
  <2>4. Logs' = Logs /\ Queue' = Queue /\ Number' = Number /\ Listed' = Listed /\ LogName' = LogName
    BY <2>2, SameSets DEF LogName
  <2>5. Wrote(rp.next, Unfinished)
    BY <2>1, WithWrites
  <2>6. Unfinished \in Contents /\ IsFiniteSet(Unfinished.good) /\ Unfinished.good = {}
    BY FS_EmptySet DEF Unfinished, Content, Contents
  <2>7. /\ Ldb(rp.next) \notin Dir /\ Sst(rp.next) \notin Dir /\ Ldb(rp.next) \notin Lost
        /\ rp.next \notin Queue /\ rp.next \notin Listed
    BY <1>0, <1>1, FreshNumber
  <2>8. /\ DirTypes' /\ LostInv' /\ SafeInv'
        /\ \A m : m # rp.next => TableSame(m)
        /\ \A m : LogSame(m)
        /\ Sst(rp.next) \notin Dir'
    BY <1>0, <2>4, <1>1, <2>5, <2>6, <2>7, <1>c, WroteKeeps
  <2>9. /\ Lost' = Lost /\ Dir' = Dir \cup {Ldb(rp.next)} /\ rdir'[Ldb(rp.next)].good = {}
    BY <2>1, <2>5, <2>6 DEF Wrote, Lost
  <2>10. NextInv'
    BY <1>0, <2>2, <2>4, <2>9, <1>1, <1>5, NameParts DEF NextInv, DirTypes
  <2>11. StartInv'
    BY <2>2 DEF StartInv
  <2>12. LogsInv'
    BY <1>0, <2>2, <2>4, <2>9, <1>1 DEF LogsInv
  <2>13. QueueInv'
    BY <1>0, <2>2, <2>4, <2>8, <1>1 DEF QueueInv, TableSame
  <2>14. CopyInv'
    BY <1>0, <2>2, <2>4, <2>8, <2>9, <1>1, <1>2, <1>c DEF CopyInv, all, NextInv, LogSame
  <2>15. SrcInv'
    BY <2>2 DEF SrcInv
  <2>16. ListedInv'
    BY <1>0, <2>2, <2>7, <2>8, <1>1, <1>c, ListedFrame
  <2>17. NumberInv'
    BY <1>0, <2>2, <2>8, <2>9, <1>1, <1>c DEF NumberInv, TableSame
  <2>18. AllInv'
    BY <1>0, <2>2, <2>4, <2>7, <2>8, <1>1, <1>c DEF AllInv, LogsInv, RestLogs, HasTable, TableContent,
       TableSame, LogSame
  <2>19. DescriptorInv'
    BY <2>2 DEF DescriptorInv
  <2> QED
    BY <2>2, <2>3, <2>8, <2>10, <2>11, <2>12, <2>13, <2>14, <2>15, <2>16, <2>17, <2>18, <2>19
       DEF RepairCore, RpTypes
<1> QED
  BY <1>6, <1>7
\* BuildTable ends.
LEMMA FinishBuildKeeps ==
    ASSUME CountTypes, RepairCore, Clean', FinishBuild
    PROVE  RepairCore'
<1>0. DirTypes /\ RpTypes /\ NextInv /\ StartInv /\ LogsInv /\ QueueInv /\ CopyInv /\ SrcInv
       /\ ListedInv /\ LostInv /\ SafeInv /\ NumberInv /\ AllInv /\ DescriptorInv
  BY DEF RepairCore
<1>1. /\ rp.pc = "build" /\ rlost' = rlost /\ rp.copy \in Nat /\ rp.next \in Nat
      /\ rp.table_numbers \in Seq(Nat) /\ rp.good \in SUBSET Nat /\ IsFiniteSet(rp.good)
  BY <1>0 DEF FinishBuild, RpTypes, RpType
<1>2. /\ Ldb(rp.copy) \in Dir /\ Sst(rp.copy) \notin Dir /\ rp.copy \notin Listed
      /\ \A n \in Queue : n < rp.copy
      /\ rdir[Ldb(rp.copy)].good = {} /\ (rcount.misreads = 0 => rp.good = rdir[LogName].good)
      /\ rp.copy \notin Queue
  BY <1>0, <1>1 DEF CopyInv
<1>3. rp.copy < rp.next
  BY <1>0, <1>1, <1>2, NameParts DEF NextInv
<1>4. /\ Queue \subseteq Nat /\ Listed \subseteq Nat /\ Logs \subseteq Nat
  BY <1>0, QueueTypes
<1>5. /\ rp.logs \in Seq(Nat) /\ rp.logs # <<>> /\ Head(rp.logs) \in Logs
      /\ LogName = Log(Head(rp.logs)) /\ LogName \in Dir
  BY <1>0, <1>1, TailOf DEF RpTypes, RpType, LogsInv, Logs, LogName, Log
<1> DEFINE done == /\ NoFault
                   /\ rdir' = [rdir EXCEPT ![<<"ldb", rp.copy>>] = Content(rp.good, FALSE)]
                   /\ rp' = [rp EXCEPT !.pc = "archive_log", !.table_numbers = Append(@, rp.copy)]
           lost == /\ Fault
                   /\ rdir' = Without1(rdir, <<"ldb", rp.copy>>)
                   /\ rp' = [rp EXCEPT !.pc = "archive_log"]
<1>6. CASE done
  <2>1. rdir' = [rdir EXCEPT ![Ldb(rp.copy)] = Content(rp.good, FALSE)] /\ rcount' = rcount
    BY <1>6 DEF Ldb, NoFault
  <2>2. /\ rp' \in RpType /\ rp'.pc = "archive_log" /\ rp'.next = rp.next /\ rp'.logs = rp.logs
        /\ rp'.table_numbers = Append(rp.table_numbers, rp.copy) /\ rp'.manifests = rp.manifests
        /\ rp'.tables = rp.tables /\ rp'.copy = rp.copy /\ rp'.src = rp.src /\ rp'.good = rp.good
    <3> DEFINE longer == Append(rp.table_numbers, rp.copy)
    <3>1. rp' = [rp EXCEPT !.pc = "archive_log", !.table_numbers = longer]
      BY <1>6
    <3>2. rp \in RpType /\ longer \in Seq(Nat)
      BY <1>0, <1>1, AppendOf DEF RpTypes
    <3> HIDE DEF longer
    <3>3. /\ rp' \in RpType /\ rp'.pc = "archive_log" /\ rp'.next = rp.next /\ rp'.logs = rp.logs
          /\ rp'.table_numbers = longer /\ rp'.manifests = rp.manifests /\ rp'.tables = rp.tables
          /\ rp'.copy = rp.copy /\ rp'.src = rp.src /\ rp'.good = rp.good
      BY <1>1, <3>1, <3>2 DEF RpType
    <3> QED
      BY <3>3 DEF longer
  <2>3. rp'.next > 0 /\ IsFiniteSet(rp'.tables) /\ IsFiniteSet(rp'.good)
    BY <1>0, <2>2 DEF RpTypes
  <2>4. /\ Logs' = Logs /\ Listed' = Listed
        /\ Append(rp.table_numbers, rp.copy) # <<>>
    BY <1>1, <2>2, SameSets, AppendOf
  <2>5. /\ \A n : n \in Queue' <=> n \in Queue \/ n = rp.copy
        /\ Distinct(rp'.table_numbers)
    BY <1>0, <1>1, <1>2, <2>2, AppendOf DEF Queue, QueueInv
  <2>6. Wrote(rp.copy, Content(rp.good, FALSE))
    BY <1>1, <1>2, <2>1, ExceptWrites
  <2>7. /\ Content(rp.good, FALSE) \in Contents /\ Content(rp.good, FALSE).good = rp.good
        /\ ~Content(rp.good, FALSE).bad
    BY <1>1 DEF Content, Contents
  <2>8. Ldb(rp.copy) \in Lost => rlost[Ldb(rp.copy)].good = {}
    BY <1>0, <1>2, NameParts DEF LostInv, DataKinds
  <2>9. /\ DirTypes' /\ LostInv' /\ SafeInv'
        /\ \A m : m # rp.copy => TableSame(m)
        /\ \A m : LogSame(m)
        /\ Sst(rp.copy) \in Dir' <=> Sst(rp.copy) \in Dir
    BY <1>0, <2>4, <1>1, <1>2, <2>1, <2>6, <2>7, <2>8, WroteKeeps
  <2>10. /\ Lost' = Lost /\ Dir' = Dir /\ rdir'[Ldb(rp.copy)] = Content(rp.good, FALSE)
    BY <1>1, <1>2, <2>6 DEF Wrote, Lost
  <2>11. NextInv'
    BY <1>0, <2>2, <2>4, <2>5, <2>10, <1>1, <1>3 DEF NextInv
  <2>12. StartInv'
    BY <2>2 DEF StartInv
  <2>13. LogsInv'
    BY <1>0, <2>2, <2>4, <2>10, <1>1 DEF LogsInv
  <2>14. QueueInv'
    BY <1>0, <2>2, <2>4, <2>5, <2>10, <1>1, <1>2 DEF QueueInv
  <2>15. CopyInv'
    BY <2>2 DEF CopyInv
  <2>16. SrcInv'
    BY <2>2 DEF SrcInv
  <2>17. ListedInv'
    BY <1>0, <2>1, <2>2, <2>9, <1>1, <1>2, ListedFrame
  <2>18. NumberInv'
    BY <1>0, <2>1, <2>2, <2>10 DEF NumberInv
  <2>19. AllInv'
    <3>1. SUFFICES ASSUME rcount.calls = 0, rcount.faults = 0, rcount.misreads = 0, NEW e \in rcount.entries
                 PROVE  \/ \E n \in Listed' \cup Queue' : HasTable(n)' /\ e \in TableContent(n)'.good
                        \/ \E n \in RestLogs' : e \in rdir'[Log(n)].good
      BY <2>1, <2>2 DEF AllInv
    <3>2. CASE \E n \in Listed \cup Queue : HasTable(n) /\ e \in TableContent(n).good
      BY <1>2, <2>4, <2>5, <2>9, <3>2 DEF TableSame, HasTable, TableContent
    <3>3. CASE e \in rdir[LogName].good
      BY <1>2, <2>5, <2>7, <2>10, <3>1, <3>3 DEF HasTable, TableContent
    <3>4. CASE \E n \in RestLogs : n # Head(rp.logs) /\ e \in rdir[Log(n)].good
      <4>1. PICK n \in Logs : n # Head(rp.logs) /\ e \in rdir[Log(n)].good
        BY <1>1, <3>4 DEF RestLogs
      <4>2. Log(n) \in Dir /\ rdir'[Log(n)] = rdir[Log(n)]
        BY <1>0, <2>9, <4>1 DEF LogsInv, LogSame
      <4>3. n \in RestLogs'
        BY <2>2, <2>4, <4>1 DEF RestLogs
      <4> QED
        BY <4>1, <4>2, <4>3
    <3> QED
      BY <1>0, <1>1, <1>5, <3>1, <3>2, <3>3, <3>4 DEF AllInv
  <2>20. DescriptorInv'
    BY <2>2 DEF DescriptorInv
  <2> QED
    BY <2>2, <2>9, <2>11, <2>12, <2>13, <2>14, <2>15, <2>16, <2>17, <2>18, <2>19, <2>20 DEF RepairCore,
       RpTypes
<1>7. CASE lost
  <2>1. rdir' = Without1(rdir, Ldb(rp.copy))
    BY <1>7 DEF Ldb
  <2>2. /\ rcount'.entries = rcount.entries /\ rcount'.calls = rcount.calls /\ rcount'.faults # 0
        /\ rcount.calls = 0 /\ rcount.misreads = 0 /\ rcount'.misreads = 0
    BY <1>7, FaultCounts
  <2>3. /\ rp' \in RpType /\ rp'.pc = "archive_log" /\ rp'.next = rp.next /\ rp'.logs = rp.logs
        /\ rp'.table_numbers = rp.table_numbers /\ rp'.manifests = rp.manifests
        /\ rp'.tables = rp.tables /\ rp'.copy = rp.copy /\ rp'.src = rp.src /\ rp'.good = rp.good
    <3>1. rp' = [rp EXCEPT !.pc = "archive_log"]
      BY <1>7
    <3>2. rp \in RpType
      BY <1>0 DEF RpTypes
    <3> QED
      BY <3>1, <3>2 DEF RpType
  <2>4. rp'.next > 0 /\ IsFiniteSet(rp'.tables) /\ IsFiniteSet(rp'.good)
    BY <1>0, <2>3 DEF RpTypes
  <2>5. Logs' = Logs /\ Queue' = Queue /\ Number' = Number /\ Listed' = Listed
    BY <2>3, SameSets
  <2>6. Removed(rp.copy)
    BY <1>1, <2>1, WithoutRemoves
  <2>7. /\ DirTypes' /\ LostInv' /\ SafeInv'
        /\ \A m : m # rp.copy => TableSame(m)
        /\ \A m : LogSame(m)
        /\ Sst(rp.copy) \in Dir' <=> Sst(rp.copy) \in Dir
    BY <1>0, <2>5, <1>1, <1>2, <2>2, <2>6, RemovedKeeps
  <2>8. /\ Lost' = Lost /\ Dir' = Dir \ {Ldb(rp.copy)}
    BY <1>1, <2>6 DEF Removed, Lost
  <2>9. NextInv'
    BY <1>0, <2>3, <2>5, <2>8, <1>1 DEF NextInv
  <2>10. StartInv'
    BY <2>3 DEF StartInv
  <2>11. LogsInv'
    BY <1>0, <2>3, <2>5, <2>7, <1>1 DEF LogsInv, LogSame
  <2>12. QueueInv'
    BY <1>0, <2>3, <2>5, <2>8, <1>1 DEF QueueInv
  <2>13. CopyInv'
    BY <2>3 DEF CopyInv
  <2>14. SrcInv'
    BY <2>3 DEF SrcInv
  <2>15. ListedInv'
    BY <1>0, <2>2, <2>3, <2>7, <1>1, <1>2, ListedFrame
  <2>16. NumberInv'
    BY <2>2 DEF NumberInv
  <2>17. AllInv'
    BY <2>2 DEF AllInv
  <2>18. DescriptorInv'
    BY <2>3 DEF DescriptorInv
  <2> QED
    BY <2>3, <2>7, <2>9, <2>10, <2>11, <2>12, <2>13, <2>14, <2>15, <2>16, <2>17, <2>18 DEF RepairCore, RpTypes
<1> QED
  BY <1>1, <1>6, <1>7 DEF FinishBuild

\* The log goes to lost/.
LEMMA ArchiveLogKeeps ==
    ASSUME CountTypes, RepairCore, Clean', ArchiveLog
    PROVE  RepairCore'
<1>0. DirTypes /\ RpTypes /\ NextInv /\ StartInv /\ LogsInv /\ QueueInv /\ CopyInv /\ SrcInv
       /\ ListedInv /\ LostInv /\ SafeInv /\ NumberInv /\ AllInv /\ DescriptorInv
  BY DEF RepairCore
<1>1. /\ rp.pc = "archive_log" /\ rp.logs \in Seq(Nat) /\ rp.logs # <<>> /\ rp.next \in Nat
      /\ rp' = [rp EXCEPT !.pc = "logs", !.logs = Tail(rp.logs)]
  BY <1>0 DEF ArchiveLog, RpTypes, RpType, LogsInv
<1>2. /\ Tail(rp.logs) \in Seq(Nat) /\ Distinct(Tail(rp.logs))
      /\ \A n : n \in Elems(Tail(rp.logs)) <=> n \in Logs /\ n # Head(rp.logs)
      /\ Head(rp.logs) \in Logs
  BY <1>0, <1>1, TailOf DEF Logs, LogsInv
<1>3. LogName = Log(Head(rp.logs)) /\ LogName \in Dir
  BY <1>0, <1>2 DEF LogsInv, LogName, Log
<1>4. /\ rp' \in RpType /\ rp'.pc = "logs" /\ rp'.next = rp.next /\ rp'.logs = Tail(rp.logs)
      /\ rp'.table_numbers = rp.table_numbers /\ rp'.manifests = rp.manifests
      /\ rp'.tables = rp.tables /\ rp'.copy = rp.copy /\ rp'.src = rp.src /\ rp'.good = rp.good
  <2>1. rp \in RpType
    BY <1>0 DEF RpTypes
  <2> QED
    BY <1>1, <1>2, <2>1 DEF RpType
<1>5. rp'.next > 0 /\ IsFiniteSet(rp'.tables) /\ IsFiniteSet(rp'.good)
  BY <1>0, <1>4 DEF RpTypes
<1>6. /\ Queue' = Queue /\ Number' = Number /\ Listed' = Listed
      /\ Logs' = Elems(Tail(rp.logs))
  BY <1>4, SameSets DEF Logs
<1>7. \/ rcount' = rcount /\ Archived({LogName})
      \/ Fault /\ UNCHANGED <<rdir, rlost>>
  BY <1>3, ArchiveEffect DEF ArchiveLog
<1>8. \A m : Ldb(m) # LogName /\ Sst(m) # LogName
  BY <1>3, NameParts
<1>9. \A m : m # Head(rp.logs) => Log(m) # LogName
  BY <1>3, NameParts
<1>10. CASE rcount' = rcount /\ Archived({LogName})
  <2>1. rcount' = rcount /\ Archived({LogName})
    BY <1>10
  <2>2. /\ DirTypes' /\ LostInv' /\ SafeInv'
        /\ \A m : TableSame(m)
        /\ \A m : m # Head(rp.logs) => LogSame(m)
    BY <1>0, <1>6, <1>8, <1>9, <2>1, ArchivedKeeps
  <2>3. /\ Dir' = Dir \ {LogName} /\ Lost' = Lost \cup {LogName}
        /\ \A f \in Dir : f # LogName => rdir'[f] = rdir[f]
    BY <2>1 DEF Archived
  <2>4. NextInv'
    BY <1>0, <2>3, <1>1, <1>6, <1>8 DEF NextInv
  <2>5. StartInv'
    BY <1>4 DEF StartInv
  <2>6. LogsInv'
    BY <1>0, <2>3, <1>2, <1>4, <1>6, <1>9 DEF LogsInv
  <2>7. QueueInv'
    BY <1>0, <2>3, <1>1, <1>6 DEF QueueInv
  <2>8. CopyInv'
    BY <1>4 DEF CopyInv
  <2>9. SrcInv'
    BY <1>4 DEF SrcInv
  <2>10. ListedInv'
    BY <1>0, <2>1, <2>2, <1>1, ListedFrame
  <2>11. NumberInv'
    BY <1>0, <2>1, <2>3, <1>4, <1>8 DEF NumberInv
  <2>12. AllInv'
    BY <1>0, <2>1, <2>2, <1>1, <1>2, <1>6 DEF AllInv, RestLogs, TableSame, LogSame, LogsInv, HasTable,
       TableContent
  <2>13. DescriptorInv'
    BY <1>4 DEF DescriptorInv
  <2> QED
    BY <1>4, <2>2, <2>4, <2>5, <2>6, <2>7, <2>8, <2>9, <2>10, <2>11, <2>12, <2>13 DEF RepairCore, RpTypes
<1>11. CASE Fault /\ UNCHANGED <<rdir, rlost>>
  <2>1. /\ rcount'.entries = rcount.entries /\ rcount'.calls = rcount.calls /\ rcount'.faults # 0
        /\ rcount.calls = 0 /\ rcount.misreads = 0 /\ rcount'.misreads = 0 /\ rdir' = rdir /\ rlost' = rlost
    BY <1>11, FaultCounts
  <2>2. DataKept
    BY <1>0, <2>1, UntouchedKept
  <2>3. /\ DirTypes' /\ LostInv' /\ SafeInv'
        /\ \A m : TableSame(m) /\ LogSame(m)
        /\ \A m : Ldb(m) \in Lost' <=> Ldb(m) \in Lost
    BY <1>0, <1>6, <2>1, <2>2, DataKeeps
  <2>4. NextInv'
    BY <1>0, <2>1, <1>1, <1>6 DEF NextInv, Dir, Lost
  <2>5. StartInv'
    BY <1>4 DEF StartInv
  <2>6. LogsInv'
    BY <1>0, <2>1, <1>2, <1>4, <1>6 DEF LogsInv, Dir
  <2>7. QueueInv'
    BY <1>0, <2>1, <1>1, <1>6 DEF QueueInv, Dir
  <2>8. CopyInv'
    BY <1>4 DEF CopyInv
  <2>9. SrcInv'
    BY <1>4 DEF SrcInv
  <2>10. ListedInv'
    BY <1>0, <2>1, <2>3, <1>1, ListedFrame
  <2>11. NumberInv'
    BY <1>0, <2>1, <2>2, <2>3 DEF NumberInv
  <2>12. AllInv'
    BY <1>0, <2>1, <2>2, <2>3 DEF AllInv
  <2>13. DescriptorInv'
    BY <1>4 DEF DescriptorInv
  <2> QED
    BY <1>4, <2>3, <2>4, <2>5, <2>6, <2>7, <2>8, <2>9, <2>10, <2>11, <2>12, <2>13 DEF RepairCore, RpTypes
<1> QED
  BY <1>7, <1>10, <1>11
\* A table whose files are the same is the same.
LEMMA SameTable ==
    ASSUME NEW n, TableSame(n)
    PROVE  /\ HasTable(n)' <=> HasTable(n)
           /\ HasTable(n) => TableContent(n)' = TableContent(n)
  BY DEF TableSame, HasTable, TableContent

\* No log is left once ConvertLogFilesToTables returned.
LEMMA LogsOver ==
    ASSUME LogsInv, rp.pc \notin LogPcs
    PROVE  Logs = {} /\ RestLogs = {}
  BY EmptyElems DEF LogsInv, RestLogs, Logs

\* The table at the front of table_numbers_.
LEMMA PopNumber ==
    ASSUME RpTypes, NextInv, QueueInv, rp.table_numbers # <<>>
    PROVE  /\ Number \in Nat /\ Number \in Queue /\ Number < rp.next /\ Number \notin Listed
           /\ Tail(rp.table_numbers) \in Seq(Nat) /\ Distinct(Tail(rp.table_numbers))
           /\ \A n : n \in Elems(Tail(rp.table_numbers)) <=> n \in Queue /\ n # Number
<1>1. rp.table_numbers \in Seq(Nat)
  BY DEF RpTypes, RpType
<1>2. /\ Number \in Nat /\ Number \in Queue
      /\ Tail(rp.table_numbers) \in Seq(Nat) /\ Distinct(Tail(rp.table_numbers))
      /\ \A n : n \in Elems(Tail(rp.table_numbers)) <=> n \in Queue /\ n # Number
  BY <1>1, TailOf DEF Number, Queue, QueueInv
<1> QED
  BY <1>2 DEF NextInv, QueueInv

\* NextTable, after a change to the tables or the next number.
LEMMA NextTableFields ==
    ASSUME NEW r \in RpType, Tail(r.table_numbers) \in Seq(Nat)
    PROVE  /\ NextTable(r) \in RpType /\ NextTable(r).pc = "scan" /\ NextTable(r).next = r.next
           /\ NextTable(r).logs = r.logs /\ NextTable(r).table_numbers = Tail(r.table_numbers)
           /\ NextTable(r).manifests = r.manifests /\ NextTable(r).tables = r.tables
           /\ NextTable(r).copy = r.copy /\ NextTable(r).src = r.src /\ NextTable(r).good = r.good
<1> DEFINE rest == Tail(r.table_numbers)
<1>1. NextTable(r) = [r EXCEPT !.pc = "scan", !.table_numbers = rest] /\ rest \in Seq(Nat)
  BY DEF NextTable
<1> HIDE DEF rest
<1>2. /\ NextTable(r) \in RpType /\ NextTable(r).pc = "scan" /\ NextTable(r).next = r.next
      /\ NextTable(r).logs = r.logs /\ NextTable(r).table_numbers = rest
      /\ NextTable(r).manifests = r.manifests /\ NextTable(r).tables = r.tables
      /\ NextTable(r).copy = r.copy /\ NextTable(r).src = r.src /\ NextTable(r).good = r.good
  BY <1>1 DEF RpType
<1> QED
  BY <1>2 DEF rest

\* AddTable, and what it adds to the listed numbers.
LEMMA AddTableFields ==
    ASSUME rp \in RpType, Number \in Nat, NEW top \in Nat,
           Tail(rp.table_numbers) \in Seq(Nat), rp' = NextTable(AddTable(rp, top))
    PROVE  /\ rp' \in RpType /\ rp'.pc = "scan" /\ rp'.next = rp.next /\ rp'.logs = rp.logs
           /\ rp'.table_numbers = Tail(rp.table_numbers) /\ rp'.good = rp.good
           /\ rp'.tables = rp.tables \cup {[number |-> Number, max |-> top]}
           /\ Listed' = Listed \cup {Number}
<1> DEFINE t == [number |-> Number, max |-> top]
           r == AddTable(rp, top)
           more == rp.tables \cup {t}
<1>1. rp.tables \in SUBSET [number: Nat, max: Nat] /\ t \in [number: Nat, max: Nat] /\ t.number = Number
  BY DEF RpType
<1>2. more \in SUBSET [number: Nat, max: Nat]
  BY <1>1
<1>3. r = [rp EXCEPT !.tables = more]
  BY DEF AddTable
<1>4. /\ \A u \in rp.tables : u \in more /\ u.number \in Listed
      /\ \A u \in more : u \in rp.tables \/ u.number = Number
      /\ t \in more
  BY <1>1 DEF Listed
<1> HIDE DEF more, r, t
<1>5. /\ r \in RpType /\ r.next = rp.next /\ r.logs = rp.logs /\ r.table_numbers = rp.table_numbers
      /\ r.good = rp.good /\ r.tables = more
  BY <1>2, <1>3 DEF RpType
<1>6. /\ rp' \in RpType /\ rp'.pc = "scan" /\ rp'.next = rp.next /\ rp'.logs = rp.logs
      /\ rp'.table_numbers = Tail(rp.table_numbers) /\ rp'.good = rp.good /\ rp'.tables = more
  BY <1>5, NextTableFields DEF r
<1>7. \A n \in Listed : n \in Listed'
  BY <1>4, <1>6 DEF Listed
<1>8. \A n \in Listed' : n \in Listed \/ n = Number
  BY <1>4, <1>6 DEF Listed
<1>9. Number \in Listed'
  BY <1>1, <1>4, <1>6 DEF Listed
<1> QED
  BY <1>6, <1>7, <1>8, <1>9 DEF more, t

\* A table of the directory under its number (ScanTable).
LEMMA TableNameIs ==
    /\ TableName \in Dir <=> HasTable(Number)
    /\ HasTable(Number) => rdir[TableName] = TableContent(Number)
    /\ TableName = IF Ldb(Number) \in Dir THEN Ldb(Number) ELSE Sst(Number)
  BY DEF TableName, HasTable, TableContent, Dir, Ldb, Sst

\* ScanTable finds no size.
LEMMA DropTableKeeps ==
    ASSUME CountTypes, RepairCore, Clean', DropTable
    PROVE  RepairCore'
<1>0. DirTypes /\ RpTypes /\ NextInv /\ StartInv /\ LogsInv /\ QueueInv /\ CopyInv /\ SrcInv
       /\ ListedInv /\ LostInv /\ SafeInv /\ NumberInv /\ AllInv /\ DescriptorInv
  BY DEF RepairCore
<1> DEFINE there == Dir \cap {Ldb(Number), Sst(Number)}
<1>1. rp.pc = "scan" /\ rp.table_numbers # <<>> /\ rp.next \in Nat
  BY <1>0 DEF DropTable, RpTypes, RpType
<1>2. /\ Number \in Nat /\ Number \in Queue /\ Number < rp.next /\ Number \notin Listed
      /\ Tail(rp.table_numbers) \in Seq(Nat) /\ Distinct(Tail(rp.table_numbers))
      /\ \A n : n \in Elems(Tail(rp.table_numbers)) <=> n \in Queue /\ n # Number
  BY <1>0, <1>1, PopNumber
<1>3. /\ (there = {} /\ NoFault) \/ (there # {} /\ Fault)
      /\ rdir' = [n \in Dir \ there |-> rdir[n]]
      /\ rlost' = [n \in Lost \cup there |-> IF n \in there THEN rdir[n] ELSE rlost[n]]
      /\ rp' = NextTable(rp)
  BY DEF DropTable, Dir, Lost, Ldb, Sst
<1>4. /\ rcount'.entries = rcount.entries /\ rcount'.calls = rcount.calls
      /\ there # {} => rcount'.faults # 0 /\ rcount.misreads = 0 /\ rcount'.misreads = 0
      /\ there = {} => rcount' = rcount
      /\ rcount'.misreads = 0 => rcount.misreads = 0
  BY <1>3, FaultCounts, NoFaultCounts
<1>5. there \subseteq Dir
  OBVIOUS
<1>6. \A f \in there : f = Ldb(Number) \/ f = Sst(Number)
  OBVIOUS
<1>7. (Ldb(Number) \in there <=> Ldb(Number) \in Dir) /\ (Sst(Number) \in there <=> Sst(Number) \in Dir)
  OBVIOUS
<1> HIDE DEF there
<1>8. Archived(there)
  BY <1>3, <1>5 DEF Archived, Dir, Lost
<1>9. /\ rp' \in RpType /\ rp'.pc = "scan" /\ rp'.next = rp.next /\ rp'.logs = rp.logs
      /\ rp'.table_numbers = Tail(rp.table_numbers) /\ rp'.manifests = rp.manifests
      /\ rp'.tables = rp.tables /\ rp'.copy = rp.copy /\ rp'.src = rp.src /\ rp'.good = rp.good
  BY <1>0, <1>2, <1>3, NextTableFields DEF RpTypes
<1>10. rp'.next > 0 /\ IsFiniteSet(rp'.tables) /\ IsFiniteSet(rp'.good)
  BY <1>0, <1>9 DEF RpTypes
<1>11. /\ Logs' = Logs /\ Listed' = Listed
       /\ \A n : n \in Queue' <=> n \in Queue /\ n # Number
  BY <1>2, <1>9, SameSets DEF Queue
<1>12. Dir' = Dir \ there /\ Lost' = Lost \cup there
  BY <1>8 DEF Archived
<1>13. \A m : (m # Number => Ldb(m) \notin there /\ Sst(m) \notin there) /\ Log(m) \notin there
           /\ (Ldb(m) \in there => m = Number)
  BY <1>6, NameParts
<1>14. /\ DirTypes' /\ LostInv' /\ SafeInv'
       /\ \A m : m # Number => TableSame(m)
       /\ \A m : LogSame(m)
  BY <1>0, <1>11, <1>4, <1>7, <1>2, <1>8, <1>12, <1>13, ArchivedKeeps
<1>15. NextInv'
  BY <1>0, <1>9, <1>11, <1>12, <1>13, <1>1, <1>2 DEF NextInv
<1>16. StartInv'
  BY <1>9 DEF StartInv
<1>17. LogsInv'
  BY <1>0, <1>9, <1>11, <1>12, <1>13, <1>1 DEF LogsInv
<1>18. QueueInv'
  BY <1>0, <1>9, <1>11, <1>14, <1>2 DEF QueueInv, TableSame
<1>19. CopyInv'
  BY <1>9 DEF CopyInv
<1>20. SrcInv'
  BY <1>9 DEF SrcInv
<1>21. ListedInv'
  BY <1>0, <1>4, <1>9, <1>14, <1>1, <1>2, ListedFrame
<1>22. NumberInv'
  BY <1>0, <1>9, <1>12, <1>4 DEF NumberInv
<1>23. AllInv'
  <2>1. SUFFICES ASSUME rcount'.calls = 0, rcount'.faults = 0, rcount'.misreads = 0, NEW e \in rcount.entries
               PROVE  \/ \E n \in Listed' \cup Queue' : HasTable(n)' /\ e \in TableContent(n)'.good
                      \/ \E n \in RestLogs' : e \in rdir'[Log(n)].good
    BY <1>4 DEF AllInv
  <2>2. there = {} /\ rcount' = rcount
    BY <1>4, <2>1
  <2>3. ~HasTable(Number)
    BY <1>7, <2>2 DEF HasTable
  <2>4. CASE \E n \in Listed \cup Queue : HasTable(n) /\ e \in TableContent(n).good
    <3>1. PICK n \in Listed \cup Queue : HasTable(n) /\ e \in TableContent(n).good
      BY <2>4
    <3>2. n # Number /\ TableSame(n) /\ n \in Listed' \cup Queue'
      BY <1>11, <1>14, <2>3, <3>1
    <3> QED
      BY <3>1, <3>2, SameTable
  <2>5. CASE \E n \in RestLogs : e \in rdir[Log(n)].good
    BY <1>0, <1>1, <2>5, LogsOver
  <2> QED
    BY <1>0, <1>1, <2>1, <2>2, <2>4, <2>5 DEF AllInv
<1>24. DescriptorInv'
  BY <1>9 DEF DescriptorInv
<1> QED
  BY <1>9, <1>14, <1>15, <1>16, <1>17, <1>18, <1>19, <1>20, <1>21, <1>22, <1>23, <1>24 DEF RepairCore, RpTypes

\* ScanTable.
LEMMA ScanTableKeeps ==
    ASSUME CountTypes, RepairCore, Clean', ScanTable
    PROVE  RepairCore'
<1>0. DirTypes /\ RpTypes /\ NextInv /\ StartInv /\ LogsInv /\ QueueInv /\ CopyInv /\ SrcInv
       /\ ListedInv /\ LostInv /\ SafeInv /\ NumberInv /\ AllInv /\ DescriptorInv
  BY DEF RepairCore
<1>1. /\ rp.pc = "scan" /\ rp.table_numbers # <<>> /\ TableName \in Dir /\ rp.next \in Nat
      /\ rdir' = rdir /\ rlost' = rlost
  BY <1>0 DEF ScanTable, RpTypes, RpType, Dir
<1>2. /\ Number \in Nat /\ Number \in Queue /\ Number < rp.next /\ Number \notin Listed
      /\ Tail(rp.table_numbers) \in Seq(Nat) /\ Distinct(Tail(rp.table_numbers))
      /\ \A n : n \in Elems(Tail(rp.table_numbers)) <=> n \in Queue /\ n # Number
  BY <1>0, <1>1, PopNumber
<1> DEFINE c == rdir[TableName]
<1>3. /\ HasTable(Number) /\ c = TableContent(Number)
      /\ TableName = IF Ldb(Number) \in Dir THEN Ldb(Number) ELSE Sst(Number)
  BY <1>1, TableNameIs
<1>4. TableName[1] \in DataKinds /\ TableName \in Names
  BY <1>2, <1>3, NameParts DEF DataKinds
<1>5. c.good \in SUBSET Nat /\ IsFiniteSet(c.good)
  BY <1>0, <1>1, <1>4 DEF DirTypes, Contents
<1>6. DataKept
  BY <1>0, <1>1, UntouchedKept
<1>7. PICK seen \in SUBSET c.good :
        /\ ReadsOf(c.good, seen)
        /\ rp' = IF c.bad \/ rcount' # rcount
                 THEN [rp EXCEPT !.pc = "repair", !.src = TableName, !.max = Max(seen \cup {0})]
                 ELSE NextTable(AddTable(rp, Max(seen \cup {0})))
  BY DEF ScanTable
<1> DEFINE top == Max(seen \cup {0})
<1>8. top \in Nat /\ \A e \in seen : e <= top
  <2>1. seen \in SUBSET Nat /\ IsFiniteSet(seen)
    BY <1>5, <1>7, FS_Subset
  <2> QED
    BY <2>1, MaxWithZero
<1> HIDE DEF c, top
<1>c. /\ rcount'.entries = rcount.entries /\ rcount'.calls = rcount.calls /\ rcount'.faults = rcount.faults
      /\ rcount'.misreads = 0 => rcount' = rcount /\ rcount.misreads = 0
      /\ rcount' = rcount => seen = c.good
  BY <1>7, ReadCounts
<1>9. CASE c.bad \/ rcount' # rcount
  <2>1. /\ rp' \in RpType /\ rp'.pc = "repair" /\ rp'.next = rp.next /\ rp'.logs = rp.logs
        /\ rp'.table_numbers = rp.table_numbers /\ rp'.manifests = rp.manifests
        /\ rp'.tables = rp.tables /\ rp'.copy = rp.copy /\ rp'.src = TableName
        /\ rp'.max = top /\ rp'.good = rp.good
    <3>1. rp' = [rp EXCEPT !.pc = "repair", !.src = TableName, !.max = top]
      BY <1>7, <1>9 DEF top
    <3>2. rp \in RpType
      BY <1>0 DEF RpTypes
    <3> QED
      BY <1>4, <1>8, <3>1, <3>2 DEF RpType
  <2>2. rp'.next > 0 /\ IsFiniteSet(rp'.tables) /\ IsFiniteSet(rp'.good)
    BY <1>0, <2>1 DEF RpTypes
  <2>3. Logs' = Logs /\ Queue' = Queue /\ Number' = Number /\ Listed' = Listed
    BY <2>1, SameSets
  <2>k. /\ DirTypes' /\ LostInv' /\ SafeInv'
        /\ \A m : TableSame(m) /\ LogSame(m)
    BY <1>0, <1>1, <1>6, <1>c, <2>3, DataKeeps
  <2>4. NextInv'
    BY <1>0, <2>1, <2>3, <1>1 DEF NextInv, Dir, Lost
  <2>5. StartInv'
    BY <2>1 DEF StartInv
  <2>6. LogsInv'
    BY <1>0, <2>1, <2>3, <1>1 DEF LogsInv, Dir
  <2>7. QueueInv'
    BY <1>0, <2>1, <2>3, <1>1 DEF QueueInv, Dir
  <2>8. CopyInv'
    BY <2>1 DEF CopyInv
  <2>9. SrcInv'
    BY <1>0, <2>1, <2>3, <1>1, <1>2, <1>3, <1>8, <1>c DEF SrcInv, QueueInv, LostInv, Dir, Lost, TableContent, c
  <2>10. ListedInv'
    BY <1>0, <2>1, <2>k, <1>1, <1>c, ListedFrame
  <2>11. NumberInv'
    BY <1>0, <2>1, <1>1, <1>c DEF NumberInv, Dir, Lost
  <2>12. AllInv'
    BY <1>0, <2>1, <2>3, <1>1, <1>c DEF AllInv, RestLogs, Dir, HasTable, TableContent
  <2>13. DescriptorInv'
    BY <2>1 DEF DescriptorInv
  <2> QED
    BY <2>k, <2>1, <2>2, <2>4, <2>5, <2>6, <2>7, <2>8, <2>9, <2>10, <2>11, <2>12, <2>13 DEF RepairCore,
       RpTypes
<1>10. CASE ~c.bad /\ rcount' = rcount
  <2>1. rp \in RpType /\ rp.tables \in SUBSET [number: Nat, max: Nat] /\ IsFiniteSet(rp.tables)
    BY <1>0 DEF RpTypes, RpType
  <2>2. top \in Nat /\ \A e \in c.good : e <= top
    BY <1>8, <1>10, <1>c
  <2>3. rp' = NextTable(AddTable(rp, top)) /\ ~c.bad
    BY <1>7, <1>10 DEF top
  <2>4. /\ rp' \in RpType /\ rp'.pc = "scan" /\ rp'.next = rp.next /\ rp'.logs = rp.logs
        /\ rp'.table_numbers = Tail(rp.table_numbers) /\ rp'.good = rp.good
        /\ rp'.tables = rp.tables \cup {[number |-> Number, max |-> top]}
        /\ Listed' = Listed \cup {Number}
    BY <1>2, <2>1, <2>2, <2>3, AddTableFields
  <2>5. rp'.next > 0 /\ IsFiniteSet(rp'.tables) /\ IsFiniteSet(rp'.good)
    <3>1. IsFiniteSet(rp.tables \cup {[number |-> Number, max |-> top]})
      BY <2>1, FS_AddElement
    <3> QED
      BY <1>0, <2>4, <3>1 DEF RpTypes
  <2>6. Logs' = Logs /\ \A n : n \in Queue' <=> n \in Queue /\ n # Number
    BY <1>2, <2>4, SameSets DEF Queue
  <2>k. /\ DirTypes' /\ LostInv' /\ SafeInv'
        /\ \A m : TableSame(m) /\ LogSame(m)
    BY <1>0, <1>1, <1>6, <1>c, <2>4, DataKeeps
  <2>7. NextInv'
    BY <1>0, <2>4, <2>6, <1>1, <1>2 DEF NextInv, Dir, Lost
  <2>8. StartInv'
    BY <2>4 DEF StartInv
  <2>9. LogsInv'
    BY <1>0, <2>4, <2>6, <1>1 DEF LogsInv, Dir
  <2>10. QueueInv'
    BY <1>0, <2>4, <2>6, <1>1, <1>2 DEF QueueInv, Dir
  <2>11. CopyInv'
    BY <2>4 DEF CopyInv
  <2>12. SrcInv'
    BY <2>4 DEF SrcInv
  <2>13. ListedInv'
    <3>1. \A n : n = Number => HasTable(n)' /\ TableContent(n)' = c
      BY <1>1, <1>3 DEF HasTable, TableContent, Dir, c
    <3>2. \A n \in Listed : HasTable(n)' /\ TableContent(n)' = TableContent(n)
      BY <1>0, <1>1 DEF Listed, ListedInv, HasTable, TableContent, Dir
    <3>3. ~c.bad
      BY <1>10
    <3>4. ASSUME NEW t \in rp'.tables
          PROVE  HasTable(t.number)' /\ ~(TableContent(t.number)').bad
                 /\ (rcount'.misreads = 0 => \A e \in (TableContent(t.number)').good : e <= t.max)
      <4>1. CASE t \in rp.tables
        BY <1>0, <1>1, <1>10, <3>2, <4>1 DEF ListedInv, Listed
      <4>2. CASE t = [number |-> Number, max |-> top]
        <5>1. t.number = Number /\ t.max = top
          BY <4>2
        <5> QED
          BY <1>10, <2>2, <3>1, <3>3, <5>1
      <4> QED
        BY <2>4, <4>1, <4>2
    <3> QED
      BY <3>4 DEF ListedInv
  <2>14. NumberInv'
    BY <1>0, <2>4, <1>1, <1>c DEF NumberInv, Dir, Lost
  <2>15. AllInv'
    BY <1>0, <2>4, <2>6, <1>1, <1>c DEF AllInv, RestLogs, Dir, HasTable, TableContent
  <2>16. DescriptorInv'
    BY <2>4 DEF DescriptorInv
  <2> QED
    BY <2>k, <2>4, <2>5, <2>7, <2>8, <2>9, <2>10, <2>11, <2>12, <2>13, <2>14, <2>15, <2>16
       DEF RepairCore, RpTypes
<1> QED
  BY <1>9, <1>10
\* RepairTable begins.
LEMMA RepairTableKeeps ==
    ASSUME CountTypes, RepairCore, Clean', RepairTable
    PROVE  RepairCore'
<1>0. DirTypes /\ RpTypes /\ NextInv /\ StartInv /\ LogsInv /\ QueueInv /\ CopyInv /\ SrcInv
       /\ ListedInv /\ LostInv /\ SafeInv /\ NumberInv /\ AllInv /\ DescriptorInv
  BY DEF RepairCore
<1>1. /\ rp.pc = "repair" /\ rp.table_numbers # <<>> /\ rp.next \in Nat /\ rp.next > 0 /\ rlost' = rlost
  BY <1>0 DEF RepairTable, RpTypes, RpType, QueueInv
<1>2. /\ Number \in Nat /\ Number \in Queue /\ Number < rp.next /\ Number \notin Listed
      /\ Tail(rp.table_numbers) \in Seq(Nat) /\ Distinct(Tail(rp.table_numbers))
      /\ \A n : n \in Elems(Tail(rp.table_numbers)) <=> n \in Queue /\ n # Number
  BY <1>0, <1>1, PopNumber
<1>3. /\ Queue \subseteq Nat /\ Listed \subseteq Nat
  BY <1>0, QueueTypes
<1>4. /\ rp.src \in {Ldb(Number), Sst(Number)} /\ rp.src \in Dir
      /\ rcount.misreads = 0 => \A e \in rdir[rp.src].good : e <= rp.max
      /\ rp.src = Sst(Number) => Ldb(Number) \notin Dir /\ Ldb(Number) \notin Lost
      /\ Ldb(Number) \notin Dir \/ Sst(Number) \notin Dir
  BY <1>0, <1>1 DEF SrcInv
<1>5. rp.next + 1 \in Nat /\ rp.next + 1 > 0 /\ \A n \in Nat : n < rp.next => n < rp.next + 1
  BY <1>1
<1> DEFINE all == rdir[rp.src].good
           made == \E seen \in SUBSET all :
                     /\ ReadsOf(all, seen)
                     /\ rdir' = With1(rdir, <<"ldb", rp.next>>, Unfinished)
                     /\ rp' = [rp EXCEPT !.pc = "archive_table", !.next = @ + 1, !.copy = rp.next, !.good = seen]
           none == /\ Fault
                   /\ rp' = NextTable([rp EXCEPT !.next = @ + 1]) /\ UNCHANGED rdir
<1>6. CASE made
  <2>0. PICK seen \in SUBSET all :
          /\ ReadsOf(all, seen) /\ rdir' = With1(rdir, Ldb(rp.next), Unfinished)
          /\ rp' = [rp EXCEPT !.pc = "archive_table", !.next = @ + 1, !.copy = rp.next, !.good = seen]
    BY <1>6 DEF Ldb
  <2>1. /\ rdir' = With1(rdir, Ldb(rp.next), Unfinished)
        /\ rcount'.entries = rcount.entries /\ rcount'.calls = rcount.calls /\ rcount'.faults = rcount.faults
        /\ rcount'.misreads = 0 => seen = all /\ rcount.misreads = 0
    <3> HIDE DEF all
    <3> QED
      BY <2>0, ReadCounts
  <2>s. seen \in SUBSET Nat /\ IsFiniteSet(seen)
    <3>1. rp.src[1] \in DataKinds
      BY <1>4, NameParts DEF DataKinds
    <3>2. all \in SUBSET Nat /\ IsFiniteSet(all)
      BY <1>0, <1>4, <3>1 DEF DirTypes, Contents
    <3> HIDE DEF all
    <3> QED
      BY <2>0, <3>2, FS_Subset
  <2>2. /\ rp' \in RpType /\ rp'.pc = "archive_table" /\ rp'.next = rp.next + 1
        /\ rp'.logs = rp.logs /\ rp'.table_numbers = rp.table_numbers
        /\ rp'.manifests = rp.manifests /\ rp'.tables = rp.tables /\ rp'.copy = rp.next
        /\ rp'.src = rp.src /\ rp'.max = rp.max /\ rp'.good = seen
    <3>1. rp' = [rp EXCEPT !.pc = "archive_table", !.next = rp.next + 1, !.copy = rp.next, !.good = seen]
      BY <2>0
    <3>2. rp \in RpType
      BY <1>0 DEF RpTypes
    <3> QED
      BY <1>1, <1>5, <2>s, <3>1, <3>2 DEF RpType
  <2>3. rp'.next > 0 /\ IsFiniteSet(rp'.tables) /\ IsFiniteSet(rp'.good)
    BY <1>0, <1>1, <2>2, <2>s DEF RpTypes
  <2>4. Logs' = Logs /\ Queue' = Queue /\ Number' = Number /\ Listed' = Listed
    BY <2>2, SameSets
  <2>5. Wrote(rp.next, Unfinished)
    BY <1>1, <2>1, WithWrites
  <2>6. Unfinished \in Contents /\ IsFiniteSet(Unfinished.good) /\ Unfinished.good = {}
    BY FS_EmptySet DEF Unfinished, Content, Contents
  <2>7. /\ Ldb(rp.next) \notin Dir /\ Sst(rp.next) \notin Dir /\ Ldb(rp.next) \notin Lost
        /\ rp.next \notin Queue /\ rp.next \notin Listed /\ rp.next # Number
    BY <1>0, <1>1, <1>2, FreshNumber
  <2>8. /\ DirTypes' /\ LostInv' /\ SafeInv'
        /\ \A m : m # rp.next => TableSame(m)
        /\ \A m : LogSame(m)
        /\ Sst(rp.next) \notin Dir'
    BY <1>0, <2>4, <1>1, <2>1, <2>5, <2>6, <2>7, WroteKeeps
  <2>9. /\ Lost' = Lost /\ Dir' = Dir \cup {Ldb(rp.next)} /\ rdir'[Ldb(rp.next)].good = {}
    BY <1>1, <2>5, <2>6 DEF Wrote, Lost
  <2>10. NextInv'
    BY <1>0, <2>2, <2>4, <2>9, <1>1, <1>3, NameParts DEF NextInv, DirTypes
  <2>11. StartInv'
    BY <2>2 DEF StartInv
  <2>12. LogsInv'
    BY <1>0, <2>2, <2>4, <2>9, <1>1 DEF LogsInv
  <2>13. QueueInv'
    BY <1>0, <2>2, <2>4, <2>8, <1>1 DEF QueueInv, TableSame
  <2>14. CopyInv'
    BY <1>0, <2>2, <2>4, <2>8, <2>9, <1>1 DEF CopyInv, NextInv
  <2>15. SrcInv'
    BY <2>1, <2>2, <2>4, <2>7, <2>8, <2>9, <1>4 DEF SrcInv, TableSame
  <2>16. ListedInv'
    BY <1>0, <2>1, <2>2, <2>7, <2>8, <1>1, ListedFrame
  <2>17. NumberInv'
    BY <1>0, <2>1, <2>2, <2>6, <2>7, <2>8, <2>9 DEF NumberInv, TableSame
  <2>18. AllInv'
    BY <1>0, <2>1, <2>4, <2>7, <2>8, <1>1, LogsOver, SameTable DEF AllInv
  <2>19. DescriptorInv'
    BY <2>2 DEF DescriptorInv
  <2> QED
    BY <2>2, <2>3, <2>8, <2>10, <2>11, <2>12, <2>13, <2>14, <2>15, <2>16, <2>17, <2>18, <2>19
       DEF RepairCore, RpTypes
<1>7. CASE none
  <2>1. rdir' = rdir
    BY <1>7
  <2>2. /\ rcount'.entries = rcount.entries /\ rcount'.calls = rcount.calls /\ rcount'.faults # 0
        /\ rcount.calls = 0 /\ rcount.misreads = 0 /\ rcount'.misreads = 0
    BY <1>7, FaultCounts
  <2>3. /\ rp' \in RpType /\ rp'.pc = "scan" /\ rp'.next = rp.next + 1 /\ rp'.logs = rp.logs
        /\ rp'.table_numbers = Tail(rp.table_numbers) /\ rp'.tables = rp.tables /\ rp'.good = rp.good
    <3> DEFINE r == [rp EXCEPT !.next = rp.next + 1]
    <3>1. rp' = NextTable(r)
      BY <1>7
    <3>2. rp \in RpType
      BY <1>0 DEF RpTypes
    <3>3. /\ r \in RpType /\ r.next = rp.next + 1 /\ r.logs = rp.logs /\ r.table_numbers = rp.table_numbers
          /\ r.tables = rp.tables /\ r.good = rp.good
      BY <1>5, <3>2 DEF RpType
    <3> HIDE DEF r
    <3> QED
      BY <1>2, <3>1, <3>3, NextTableFields
  <2>4. rp'.next > 0 /\ IsFiniteSet(rp'.tables) /\ IsFiniteSet(rp'.good)
    BY <1>0, <1>1, <2>3 DEF RpTypes
  <2>5. /\ Logs' = Logs /\ Listed' = Listed
        /\ \A n : n \in Queue' <=> n \in Queue /\ n # Number
    BY <1>2, <2>3, SameSets DEF Queue
  <2>6. DataKept
    BY <1>0, <1>1, <2>1, UntouchedKept
  <2>7. /\ DirTypes' /\ LostInv' /\ SafeInv'
        /\ \A m : TableSame(m) /\ LogSame(m)
        /\ \A m : Ldb(m) \in Lost' <=> Ldb(m) \in Lost
    BY <1>0, <2>5, <2>2, <2>6, DataKeeps
  <2>8. NextInv'
    BY <1>0, <2>1, <2>2, <2>3, <2>5, <1>1, <1>3, <1>5, NameParts DEF NextInv, DirTypes, Dir, Lost
  <2>9. StartInv'
    BY <2>3 DEF StartInv
  <2>10. LogsInv'
    BY <1>0, <2>1, <2>3, <2>5, <1>1 DEF LogsInv, Dir
  <2>11. QueueInv'
    BY <1>0, <2>1, <2>3, <2>5, <1>2 DEF QueueInv, Dir
  <2>12. CopyInv'
    BY <2>3 DEF CopyInv
  <2>13. SrcInv'
    BY <2>3 DEF SrcInv
  <2>14. ListedInv'
    BY <1>0, <2>2, <2>3, <2>7, <1>1, ListedFrame
  <2>15. NumberInv'
    BY <2>2 DEF NumberInv
  <2>16. AllInv'
    BY <2>2 DEF AllInv
  <2>17. DescriptorInv'
    BY <2>3 DEF DescriptorInv
  <2> QED
    BY <2>3, <2>4, <2>7, <2>8, <2>9, <2>10, <2>11, <2>12, <2>13, <2>14, <2>15, <2>16, <2>17
       DEF RepairCore, RpTypes
<1> QED
  BY <1>1, <1>6, <1>7 DEF RepairTable

\* The table goes to lost/.
LEMMA ArchiveTableKeeps ==
    ASSUME CountTypes, RepairCore, Clean', ArchiveTable
    PROVE  RepairCore'
<1>0. DirTypes /\ RpTypes /\ NextInv /\ StartInv /\ LogsInv /\ QueueInv /\ CopyInv /\ SrcInv
       /\ ListedInv /\ LostInv /\ SafeInv /\ NumberInv /\ AllInv /\ DescriptorInv
  BY DEF RepairCore
<1>1. /\ rp.pc = "archive_table" /\ rp.table_numbers # <<>> /\ rp.next \in Nat /\ rp.copy \in Nat
      /\ rp' = [rp EXCEPT !.pc = "finish"]
  BY <1>0 DEF ArchiveTable, RpTypes, RpType, QueueInv
<1>2. /\ Number \in Nat /\ Number \in Queue /\ Number < rp.next /\ Number \notin Listed
      /\ Tail(rp.table_numbers) \in Seq(Nat) /\ Distinct(Tail(rp.table_numbers))
      /\ \A n : n \in Elems(Tail(rp.table_numbers)) <=> n \in Queue /\ n # Number
  BY <1>0, <1>1, PopNumber
<1>3. /\ rp.src \in {Ldb(Number), Sst(Number)} /\ rp.src \in Dir
      /\ rcount.misreads = 0 => rdir[rp.src].good = rp.good /\ \A e \in rp.good : e <= rp.max
      /\ rp.src = Sst(Number) => Ldb(Number) \notin Dir /\ Ldb(Number) \notin Lost
      /\ Ldb(Number) \notin Dir \/ Sst(Number) \notin Dir
  BY <1>0, <1>1 DEF SrcInv
<1>4. /\ Ldb(rp.copy) \in Dir /\ Sst(rp.copy) \notin Dir /\ rp.copy \notin Listed
      /\ \A n \in Queue : n < rp.copy
      /\ rdir[Ldb(rp.copy)].good = {} /\ rp.copy # Number
  BY <1>0, <1>1, <1>2 DEF CopyInv
<1>5. /\ rp' \in RpType /\ rp'.pc = "finish" /\ rp'.next = rp.next /\ rp'.logs = rp.logs
      /\ rp'.table_numbers = rp.table_numbers /\ rp'.manifests = rp.manifests
      /\ rp'.tables = rp.tables /\ rp'.copy = rp.copy /\ rp'.src = rp.src /\ rp'.max = rp.max
      /\ rp'.good = rp.good
  <2>1. rp \in RpType
    BY <1>0 DEF RpTypes
  <2> QED
    BY <1>1, <2>1 DEF RpType
<1>6. rp'.next > 0 /\ IsFiniteSet(rp'.tables) /\ IsFiniteSet(rp'.good)
  BY <1>0, <1>5 DEF RpTypes
<1>7. Logs' = Logs /\ Queue' = Queue /\ Number' = Number /\ Listed' = Listed
  BY <1>5, SameSets
<1>8. \/ rcount' = rcount /\ Archived({rp.src})
      \/ Fault /\ UNCHANGED <<rdir, rlost>>
  BY <1>3, ArchiveEffect DEF ArchiveTable
<1>9. /\ \A m : m # Number => Ldb(m) # rp.src /\ Sst(m) # rp.src
      /\ \A m : Log(m) # rp.src
      /\ \A m : Ldb(m) = rp.src => m = Number /\ rp.src # Sst(Number)
      /\ Ldb(Number) # Sst(Number)
  BY <1>3, NameParts
<1>10. /\ Queue \subseteq Nat /\ Listed \subseteq Nat
  BY <1>0, QueueTypes
<1>11. CASE rcount' = rcount /\ Archived({rp.src})
  <2>1. rcount' = rcount /\ Archived({rp.src})
    BY <1>11
  <2>2. /\ Dir' = Dir \ {rp.src} /\ Lost' = Lost \cup {rp.src} /\ rlost'[rp.src] = rdir[rp.src]
    BY <2>1 DEF Archived
  <2>3. /\ DirTypes' /\ LostInv' /\ SafeInv'
        /\ \A m : m # Number => TableSame(m)
        /\ \A m : LogSame(m)
    BY <1>0, <1>7, <1>2, <1>3, <1>9, <2>1, <2>2, ArchivedKeeps
  <2>4. NextInv'
    BY <1>0, <2>2, <1>1, <1>2, <1>7, <1>9 DEF NextInv
  <2>5. StartInv'
    BY <1>5 DEF StartInv
  <2>6. LogsInv'
    BY <1>0, <2>3, <1>1, <1>7 DEF LogsInv, LogSame
  <2>7. QueueInv'
    BY <1>0, <2>3, <1>2, <1>5, <1>7 DEF QueueInv, TableSame
  <2>8. CopyInv'
    BY <2>3, <1>5, <1>7, <1>4 DEF CopyInv, TableSame
  <2>9. SrcInv'
    BY <2>1, <2>2, <1>5, <1>7, <1>3 DEF SrcInv
  <2>10. ListedInv'
    BY <1>0, <2>1, <2>3, <1>1, <1>2, ListedFrame
  <2>11. NumberInv'
    <3>1. SUFFICES ASSUME rcount.faults = 0
                   PROVE  /\ \A n \in Nat : Ldb(n) \notin Dir' \/ Sst(n) \notin Dir'
                          /\ \A n \in Nat : Ldb(n) \in Lost' =>
                               \E m \in Nat : m >= n /\ Ldb(m) \in Dir' /\ (m = rp.copy => n <= Number)
      BY <1>5, <1>7, <2>1 DEF NumberInv
    <3>2. \A n \in Nat : Ldb(n) \notin Dir' \/ Sst(n) \notin Dir'
      BY <1>0, <2>2, <3>1 DEF NumberInv
    <3>3. Ldb(rp.copy) \in Dir' /\ Number < rp.copy
      BY <1>2, <1>4, <1>9, <2>2
    <3>4. ASSUME NEW n \in Nat, Ldb(n) \in Lost'
          PROVE  \E m \in Nat : m >= n /\ Ldb(m) \in Dir' /\ (m = rp.copy => n <= Number)
      <4>1. CASE Ldb(n) = rp.src
        <5>1. n = Number
          BY <1>9, <4>1
        <5>2. rp.copy >= n /\ n <= Number
          BY <1>1, <1>2, <3>3, <5>1
        <5> QED
          BY <1>1, <3>3, <5>2
      <4>2. CASE Ldb(n) \in Lost
        <5>1. PICK m \in Nat : m >= n /\ Ldb(m) \in Dir /\ (m = rp.copy => n <= Number)
          BY <1>0, <1>1, <3>1, <4>2 DEF NumberInv
        <5>2. CASE Ldb(m) # rp.src
          BY <2>2, <5>1, <5>2
        <5>3. CASE Ldb(m) = rp.src
          <6>1. m = Number
            BY <1>9, <5>3
          <6>2. rp.copy >= n /\ n <= Number
            BY <1>1, <3>3, <5>1, <6>1
          <6> QED
            BY <1>1, <3>3, <6>2
        <5> QED
          BY <5>2, <5>3
      <4> QED
        BY <2>2, <3>4, <4>1, <4>2
    <3> QED
      BY <3>2, <3>4
  <2>12. AllInv'
    <3>1. SUFFICES ASSUME rcount.calls = 0, rcount.faults = 0, rcount.misreads = 0, NEW e \in rcount.entries
                   PROVE  \/ \E n \in Listed \cup Queue : HasTable(n)' /\ e \in TableContent(n)'.good
                          \/ e \in rp.good
      BY <1>5, <1>7, <2>1 DEF AllInv
    <3>2. PICK n \in Listed \cup Queue : HasTable(n) /\ e \in TableContent(n).good
      BY <1>0, <1>1, <3>1, LogsOver DEF AllInv
    <3>3. CASE n = Number
      <4>1. TableContent(Number) = rdir[rp.src]
        BY <1>3, <3>2, <3>3 DEF HasTable, TableContent
      <4> QED
        BY <1>3, <3>1, <3>2, <3>3, <4>1
    <3>4. CASE n # Number
      BY <2>3, <3>2, <3>4, SameTable
    <3> QED
      BY <3>3, <3>4
  <2>13. DescriptorInv'
    BY <1>5 DEF DescriptorInv
  <2> QED
    BY <1>5, <2>3, <2>4, <2>5, <2>6, <2>7, <2>8, <2>9, <2>10, <2>11, <2>12, <2>13 DEF RepairCore, RpTypes
<1>12. CASE Fault /\ UNCHANGED <<rdir, rlost>>
  <2>1. /\ rcount'.entries = rcount.entries /\ rcount'.calls = rcount.calls /\ rcount'.faults # 0
        /\ rcount.calls = 0 /\ rcount.misreads = 0 /\ rcount'.misreads = 0 /\ rdir' = rdir /\ rlost' = rlost
    BY <1>12, FaultCounts
  <2>2. DataKept
    BY <1>0, <2>1, UntouchedKept
  <2>3. /\ DirTypes' /\ LostInv' /\ SafeInv'
        /\ \A m : TableSame(m) /\ LogSame(m)
        /\ \A m : Ldb(m) \in Lost' <=> Ldb(m) \in Lost
    BY <1>0, <1>7, <2>1, <2>2, DataKeeps
  <2>4. NextInv'
    BY <1>0, <2>1, <1>1, <1>7 DEF NextInv, Dir, Lost
  <2>5. StartInv'
    BY <1>5 DEF StartInv
  <2>6. LogsInv'
    BY <1>0, <2>1, <1>1, <1>7 DEF LogsInv, Dir
  <2>7. QueueInv'
    BY <1>0, <2>1, <1>2, <1>5, <1>7 DEF QueueInv, Dir
  <2>8. CopyInv'
    BY <2>1, <1>5, <1>7, <1>4 DEF CopyInv, Dir
  <2>9. SrcInv'
    BY <2>1, <1>5, <1>7, <1>3 DEF SrcInv, Dir, Lost
  <2>10. ListedInv'
    BY <1>0, <2>1, <2>3, <1>1, ListedFrame
  <2>11. NumberInv'
    BY <1>0, <2>1, <2>2, <2>3 DEF NumberInv
  <2>12. AllInv'
    BY <1>0, <2>1, <2>2, <2>3 DEF AllInv
  <2>13. DescriptorInv'
    BY <1>5 DEF DescriptorInv
  <2> QED
    BY <1>5, <2>3, <2>4, <2>5, <2>6, <2>7, <2>8, <2>9, <2>10, <2>11, <2>12, <2>13 DEF RepairCore, RpTypes
<1> QED
  BY <1>8, <1>11, <1>12
\* RepairTable finishes the copy.
LEMMA FinishCopyKeeps ==
    ASSUME CountTypes, RepairCore, Clean', FinishCopy
    PROVE  RepairCore'
<1>0. DirTypes /\ RpTypes /\ NextInv /\ StartInv /\ LogsInv /\ QueueInv /\ CopyInv /\ SrcInv
       /\ ListedInv /\ LostInv /\ SafeInv /\ NumberInv /\ AllInv /\ DescriptorInv
  BY DEF RepairCore
<1>1. /\ rp.pc = "finish" /\ rp.table_numbers # <<>> /\ rp.next \in Nat /\ rp.copy \in Nat /\ rlost' = rlost
      /\ rp.good \in SUBSET Nat /\ IsFiniteSet(rp.good) /\ rp \in RpType
  BY <1>0 DEF FinishCopy, RpTypes, RpType, QueueInv
<1>2. /\ Number \in Nat /\ Number \in Queue /\ Number < rp.next /\ Number \notin Listed
      /\ Tail(rp.table_numbers) \in Seq(Nat) /\ Distinct(Tail(rp.table_numbers))
      /\ \A n : n \in Elems(Tail(rp.table_numbers)) <=> n \in Queue /\ n # Number
  BY <1>0, <1>1, PopNumber
<1>3. /\ rp.src \in {Ldb(Number), Sst(Number)}
      /\ rp.src = Sst(Number) => Ldb(Number) \notin Dir /\ Ldb(Number) \notin Lost
      /\ rcount.misreads = 0 =>
           /\ \A e \in rp.good : e <= rp.max
           /\ \/ rp.src \in Dir /\ rdir[rp.src].good = rp.good
              \/ rp.src \notin Dir /\ rp.src \in Lost /\ rlost[rp.src].good = rp.good
      /\ rcount.faults = 0 => Ldb(Number) \notin Dir /\ Sst(Number) \notin Dir
  BY <1>0, <1>1 DEF SrcInv
<1>4. /\ Ldb(rp.copy) \in Dir /\ Sst(rp.copy) \notin Dir /\ rp.copy \notin Listed
      /\ \A n \in Queue : n < rp.copy
      /\ rdir[Ldb(rp.copy)].good = {} /\ rp.copy # Number
  <2>1. /\ Ldb(rp.copy) \in Dir /\ Sst(rp.copy) \notin Dir /\ rp.copy \notin Listed
        /\ \A n \in Queue : n < rp.copy
        /\ rdir[Ldb(rp.copy)].good = {}
    BY <1>0, <1>1 DEF CopyInv
  <2> QED
    BY <1>1, <1>2, <2>1
<1>5. /\ Queue \subseteq Nat /\ Listed \subseteq Nat
  BY <1>0, QueueTypes
<1>6. rp.copy \notin Queue
  BY <1>1, <1>4
<1> DEFINE empty == NoFault /\ rp.good = {} /\ rp' = NextTable(rp) /\ UNCHANGED rdir
           whole == /\ NoFault /\ rp.good # {}
                    /\ rdir' = [rdir EXCEPT ![<<"ldb", rp.copy>>] = Content(rp.good, FALSE)]
                    /\ rp' = [rp EXCEPT !.pc = "rename"]
           gone == Fault /\ rdir' = Without1(rdir, <<"ldb", rp.copy>>) /\ rp' = NextTable(rp)
<1>7. CASE empty
  <2>1. rcount' = rcount /\ rdir' = rdir /\ rlost' = rlost /\ rp.good = {}
    BY <1>1, <1>7 DEF NoFault
  <2>2. /\ rp' \in RpType /\ rp'.pc = "scan" /\ rp'.next = rp.next /\ rp'.logs = rp.logs
        /\ rp'.table_numbers = Tail(rp.table_numbers) /\ rp'.manifests = rp.manifests
        /\ rp'.tables = rp.tables /\ rp'.copy = rp.copy /\ rp'.src = rp.src /\ rp'.good = rp.good
    BY <1>1, <1>2, <1>7, NextTableFields
  <2>3. rp'.next > 0 /\ IsFiniteSet(rp'.tables) /\ IsFiniteSet(rp'.good)
    BY <1>0, <2>2 DEF RpTypes
  <2>4. /\ Logs' = Logs /\ Listed' = Listed
        /\ \A n : n \in Queue' <=> n \in Queue /\ n # Number
    BY <1>2, <2>2, SameSets DEF Queue
  <2>5. DataKept
    BY <1>0, <2>1, UntouchedKept
  <2>6. /\ DirTypes' /\ LostInv' /\ SafeInv'
        /\ \A m : TableSame(m) /\ LogSame(m)
        /\ \A m : Ldb(m) \in Lost' <=> Ldb(m) \in Lost
    BY <1>0, <2>4, <2>1, <2>5, DataKeeps
  <2>7. NextInv'
    BY <1>0, <2>1, <2>2, <2>4, <1>1 DEF NextInv, Dir, Lost
  <2>8. StartInv'
    BY <2>2 DEF StartInv
  <2>9. LogsInv'
    BY <1>0, <2>1, <2>2, <2>4, <1>1 DEF LogsInv, Dir
  <2>10. QueueInv'
    BY <1>0, <2>1, <2>2, <2>4, <1>2 DEF QueueInv, Dir
  <2>11. CopyInv'
    BY <2>2 DEF CopyInv
  <2>12. SrcInv'
    BY <2>2 DEF SrcInv
  <2>13. ListedInv'
    BY <1>0, <2>1, <2>2, <2>6, <1>1, ListedFrame
  <2>14. NumberInv'
    BY <1>0, <2>1, <2>2 DEF NumberInv, Dir, Lost
  <2>15. AllInv'
    <3>1. SUFFICES ASSUME rcount.calls = 0, rcount.faults = 0, rcount.misreads = 0, NEW e \in rcount.entries
                   PROVE  \E n \in Listed' \cup Queue' : HasTable(n)' /\ e \in TableContent(n)'.good
      BY <2>1 DEF AllInv
    <3>2. PICK n \in Listed \cup Queue : HasTable(n) /\ e \in TableContent(n).good
      BY <1>0, <1>1, <2>1, <3>1, LogsOver DEF AllInv
    <3>3. n # Number
      BY <1>3, <3>1, <3>2 DEF HasTable
    <3> QED
      BY <2>4, <2>6, <3>2, <3>3, SameTable
  <2>16. DescriptorInv'
    BY <2>2 DEF DescriptorInv
  <2> QED
    BY <2>2, <2>6, <2>7, <2>8, <2>9, <2>10, <2>11, <2>12, <2>13, <2>14, <2>15, <2>16 DEF RepairCore, RpTypes
<1>8. CASE whole
  <2>1. rdir' = [rdir EXCEPT ![Ldb(rp.copy)] = Content(rp.good, FALSE)] /\ rcount' = rcount
    BY <1>8 DEF Ldb, NoFault
  <2>2. /\ rp' \in RpType /\ rp'.pc = "rename" /\ rp'.next = rp.next /\ rp'.logs = rp.logs
        /\ rp'.table_numbers = rp.table_numbers /\ rp'.manifests = rp.manifests
        /\ rp'.tables = rp.tables /\ rp'.copy = rp.copy /\ rp'.src = rp.src /\ rp'.max = rp.max
        /\ rp'.good = rp.good
    <3>1. rp' = [rp EXCEPT !.pc = "rename"]
      BY <1>8
    <3>2. rp \in RpType
      BY <1>0 DEF RpTypes
    <3> QED
      BY <3>1, <3>2 DEF RpType
  <2>3. rp'.next > 0 /\ IsFiniteSet(rp'.tables) /\ IsFiniteSet(rp'.good)
    BY <1>0, <2>2 DEF RpTypes
  <2>4. Logs' = Logs /\ Queue' = Queue /\ Number' = Number /\ Listed' = Listed
    BY <2>2, SameSets
  <2>5. Wrote(rp.copy, Content(rp.good, FALSE))
    BY <1>1, <1>4, <2>1, ExceptWrites
  <2>6. /\ Content(rp.good, FALSE) \in Contents /\ Content(rp.good, FALSE).good = rp.good
    BY <1>1 DEF Content, Contents
  <2>7. Ldb(rp.copy) \in Lost => rlost[Ldb(rp.copy)].good = {}
    BY <1>0, <1>4, NameParts DEF LostInv, DataKinds
  <2>8. /\ DirTypes' /\ LostInv' /\ SafeInv'
        /\ \A m : m # rp.copy => TableSame(m)
        /\ \A m : LogSame(m)
        /\ Sst(rp.copy) \in Dir' <=> Sst(rp.copy) \in Dir
    BY <1>0, <2>4, <1>1, <1>4, <2>1, <2>5, <2>6, <2>7, WroteKeeps
  <2>9. /\ Lost' = Lost /\ Dir' = Dir /\ rdir'[Ldb(rp.copy)] = Content(rp.good, FALSE)
    BY <1>1, <1>4, <2>5 DEF Wrote, Lost
  <2>10. TableSame(Number) /\ rlost' = rlost
    BY <1>1, <1>4, <2>8
  <2>11. NextInv'
    BY <1>0, <2>2, <2>4, <2>9, <1>1 DEF NextInv
  <2>12. StartInv'
    BY <2>2 DEF StartInv
  <2>13. LogsInv'
    BY <1>0, <2>2, <2>4, <2>9, <1>1 DEF LogsInv
  <2>14. QueueInv'
    BY <1>0, <2>2, <2>4, <2>9, <1>2 DEF QueueInv
  <2>15. CopyInv'
    BY <2>2, <2>4, <2>9, <1>4 DEF CopyInv
  <2>16. SrcInv'
    BY <1>0, <2>1, <2>2, <2>3, <2>4, <2>5, <2>6, <2>7, <2>9, <2>10, <1>3 DEF SrcInv, TableSame
  <2>17. ListedInv'
    BY <1>0, <2>1, <2>2, <2>8, <1>1, <1>4, ListedFrame
  <2>18. NumberInv'
    BY <1>0, <2>1, <2>2, <2>4, <2>9, <1>1 DEF NumberInv
  <2>19. AllInv'
    <3>1. SUFFICES ASSUME rcount.calls = 0, rcount.faults = 0, rcount.misreads = 0, NEW e \in rcount.entries
                   PROVE  \/ \E n \in Listed \cup Queue : HasTable(n)' /\ e \in TableContent(n)'.good
                          \/ e \in rp.good
      BY <2>1, <2>2, <2>4 DEF AllInv
    <3>2. CASE \E n \in Listed \cup Queue : HasTable(n) /\ e \in TableContent(n).good
      BY <1>4, <1>6, <2>8, <3>2, SameTable
    <3> QED
      BY <1>0, <1>1, <3>1, <3>2, LogsOver DEF AllInv
  <2>20. DescriptorInv'
    BY <2>2 DEF DescriptorInv
  <2> QED
    BY <2>2, <2>8, <2>11, <2>12, <2>13, <2>14, <2>15, <2>16, <2>17, <2>18, <2>19, <2>20 DEF RepairCore,
       RpTypes
<1>9. CASE gone
  <2>1. rdir' = Without1(rdir, Ldb(rp.copy))
    BY <1>9 DEF Ldb
  <2>2. /\ rcount'.entries = rcount.entries /\ rcount'.calls = rcount.calls /\ rcount'.faults # 0
        /\ rcount.calls = 0 /\ rcount.misreads = 0 /\ rcount'.misreads = 0
    BY <1>9, FaultCounts
  <2>3. /\ rp' \in RpType /\ rp'.pc = "scan" /\ rp'.next = rp.next /\ rp'.logs = rp.logs
        /\ rp'.table_numbers = Tail(rp.table_numbers) /\ rp'.manifests = rp.manifests
        /\ rp'.tables = rp.tables /\ rp'.copy = rp.copy /\ rp'.src = rp.src /\ rp'.good = rp.good
    BY <1>1, <1>2, <1>9, NextTableFields
  <2>4. rp'.next > 0 /\ IsFiniteSet(rp'.tables) /\ IsFiniteSet(rp'.good)
    BY <1>0, <2>3 DEF RpTypes
  <2>5. /\ Logs' = Logs /\ Listed' = Listed
        /\ \A n : n \in Queue' <=> n \in Queue /\ n # Number
    BY <1>2, <2>3, SameSets DEF Queue
  <2>6. Removed(rp.copy)
    BY <1>1, <2>1, WithoutRemoves
  <2>7. /\ DirTypes' /\ LostInv' /\ SafeInv'
        /\ \A m : m # rp.copy => TableSame(m)
        /\ \A m : LogSame(m)
        /\ Sst(rp.copy) \in Dir' <=> Sst(rp.copy) \in Dir
    BY <1>0, <2>5, <1>1, <1>4, <2>2, <2>6, RemovedKeeps
  <2>8. /\ Lost' = Lost /\ Dir' = Dir \ {Ldb(rp.copy)}
    BY <1>1, <2>6 DEF Removed, Lost
  <2>9. NextInv'
    BY <1>0, <2>3, <2>5, <2>8, <1>1 DEF NextInv
  <2>10. StartInv'
    BY <2>3 DEF StartInv
  <2>11. LogsInv'
    BY <1>0, <2>3, <2>5, <2>7, <1>1 DEF LogsInv, LogSame
  <2>12. QueueInv'
    BY <1>0, <2>3, <2>5, <2>8, <1>2 DEF QueueInv
  <2>13. CopyInv'
    BY <2>3 DEF CopyInv
  <2>14. SrcInv'
    BY <2>3 DEF SrcInv
  <2>15. ListedInv'
    BY <1>0, <2>2, <2>3, <2>7, <1>1, <1>4, ListedFrame
  <2>16. NumberInv'
    BY <2>2 DEF NumberInv
  <2>17. AllInv'
    BY <2>2 DEF AllInv
  <2>18. DescriptorInv'
    BY <2>3 DEF DescriptorInv
  <2> QED
    BY <2>3, <2>7, <2>9, <2>10, <2>11, <2>12, <2>13, <2>14, <2>15, <2>16, <2>17, <2>18 DEF RepairCore, RpTypes
<1> QED
  BY <1>1, <1>7, <1>8, <1>9 DEF FinishCopy

\* The copy takes the name of the table.
LEMMA RenameCopyKeeps ==
    ASSUME CountTypes, RepairCore, Clean', RenameCopy
    PROVE  RepairCore'
<1>0. DirTypes /\ RpTypes /\ NextInv /\ StartInv /\ LogsInv /\ QueueInv /\ CopyInv /\ SrcInv
       /\ ListedInv /\ LostInv /\ SafeInv /\ NumberInv /\ AllInv /\ DescriptorInv
  BY DEF RepairCore
<1>1. /\ rp.pc = "rename" /\ rp.table_numbers # <<>> /\ rp.next \in Nat /\ rp.copy \in Nat /\ rlost' = rlost
      /\ rp.max \in Nat /\ rp \in RpType
  BY <1>0 DEF RenameCopy, RpTypes, RpType, QueueInv
<1>2. /\ Number \in Nat /\ Number \in Queue /\ Number < rp.next /\ Number \notin Listed
      /\ Tail(rp.table_numbers) \in Seq(Nat) /\ Distinct(Tail(rp.table_numbers))
      /\ \A n : n \in Elems(Tail(rp.table_numbers)) <=> n \in Queue /\ n # Number
  BY <1>0, <1>1, PopNumber
<1>3. /\ rp.src \in {Ldb(Number), Sst(Number)}
      /\ rp.src = Sst(Number) => Ldb(Number) \notin Dir /\ Ldb(Number) \notin Lost
      /\ rcount.misreads = 0 =>
           /\ \A e \in rp.good : e <= rp.max
           /\ \/ rp.src \in Dir /\ rdir[rp.src].good = rp.good
              \/ rp.src \notin Dir /\ rp.src \in Lost /\ rlost[rp.src].good = rp.good
      /\ rcount.faults = 0 => Ldb(Number) \notin Dir /\ Sst(Number) \notin Dir
  BY <1>0, <1>1 DEF SrcInv
<1>4. /\ Ldb(rp.copy) \in Dir /\ Sst(rp.copy) \notin Dir /\ rp.copy \notin Listed
      /\ \A n \in Queue : n < rp.copy
      /\ rdir[Ldb(rp.copy)] = Content(rp.good, FALSE) /\ rp.copy # Number
  <2>1. /\ Ldb(rp.copy) \in Dir /\ Sst(rp.copy) \notin Dir /\ rp.copy \notin Listed
        /\ \A n \in Queue : n < rp.copy
        /\ rdir[Ldb(rp.copy)] = Content(rp.good, FALSE)
    BY <1>0, <1>1 DEF CopyInv
  <2> QED
    BY <1>1, <1>2, <2>1
<1>5. /\ rp.copy \notin Queue
      /\ Content(rp.good, FALSE).good = rp.good /\ ~Content(rp.good, FALSE).bad
  BY <1>1, <1>4 DEF Content
<1>6. \A m : Ldb(m)[1] \in DataKinds /\ Sst(m)[1] \in DataKinds /\ Ldb(m) # Sst(Number)
             /\ (m # Number => Ldb(m) # Ldb(Number))
  BY NameParts DEF DataKinds
<1> DEFINE moved == /\ NoFault
                    /\ rdir' = With1(Without1(rdir, Ldb(rp.copy)), Ldb(Number), rdir[Ldb(rp.copy)])
                    /\ rp' = NextTable(AddTable(rp, rp.max))
           gone == Fault /\ rdir' = Without1(rdir, Ldb(rp.copy)) /\ rp' = NextTable(rp)
<1>7. CASE moved
  <2> DEFINE top == rp.max
  <2>1. rcount' = rcount /\ Renamed(rp.copy, Number)
    BY <1>1, <1>7, WithRenames DEF NoFault
  <2>2. top \in Nat /\ top = rp.max /\ (rcount.misreads = 0 => \A e \in rp.good : e <= top)
    BY <1>1, <1>3
  <2> HIDE DEF top
  <2>3. /\ rp' \in RpType /\ rp'.pc = "scan" /\ rp'.next = rp.next /\ rp'.logs = rp.logs
        /\ rp'.table_numbers = Tail(rp.table_numbers) /\ rp'.good = rp.good
        /\ rp'.tables = rp.tables \cup {[number |-> Number, max |-> top]}
        /\ Listed' = Listed \cup {Number}
    BY <1>1, <1>2, <1>7, <2>2, AddTableFields
  <2>4. rp'.next > 0 /\ IsFiniteSet(rp'.tables) /\ IsFiniteSet(rp'.good)
    <3>1. IsFiniteSet(rp.tables \cup {[number |-> Number, max |-> top]})
      BY <1>0, FS_AddElement DEF RpTypes
    <3> QED
      BY <1>0, <2>3, <3>1 DEF RpTypes
  <2>5. Logs' = Logs /\ \A n : n \in Queue' <=> n \in Queue /\ n # Number
    BY <1>2, <2>3, SameSets DEF Queue
  <2>6. /\ Ldb(Number) \in Dir => rdir[Ldb(Number)].good \subseteq rp.good
        /\ Ldb(Number) \in Lost => \/ rlost[Ldb(Number)].good \subseteq rp.good
                                   \/ rcount'.misreads # 0 /\ Number \in Listed'
    <3>1. CASE rcount.misreads = 0
      BY <1>0, <1>3, <1>6, <3>1 DEF LostInv
    <3>2. CASE rcount.misreads # 0
      BY <1>3, <2>1, <2>3, <3>2 DEF Clean
    <3> QED
      BY <3>1, <3>2
  <2>7. /\ Lost' = Lost /\ Dir' = (Dir \ {Ldb(rp.copy)}) \cup {Ldb(Number)}
        /\ rdir'[Ldb(Number)] = Content(rp.good, FALSE)
    BY <1>1, <1>4, <2>1 DEF Renamed, Lost
  <2>8. /\ DirTypes' /\ LostInv' /\ SafeInv'
        /\ \A m : m # rp.copy /\ m # Number => TableSame(m)
        /\ \A m : LogSame(m) /\ (Sst(m) \in Dir' <=> Sst(m) \in Dir)
    BY <1>0, <2>3, <1>1, <1>2, <1>4, <1>5, <2>1, <2>6, RenamedKeeps
  <2>9. NextInv'
    <3>1. \A f \in Dir' : f[1] # "manifest" /\ f # Tmp => f[2] < rp.next
      <4>1. Ldb(Number)[2] = Number
        BY NameParts
      <4> QED
        BY <1>0, <1>1, <1>2, <2>7, <4>1 DEF NextInv
    <3>2. \A n \in Nat : Ldb(n) \in Lost' => n < rp.next
      BY <1>0, <1>1, <2>7 DEF NextInv
    <3>3. /\ \A n \in Queue' : n < rp.next
          /\ \A n \in Listed' : n < rp.next
      BY <1>0, <1>2, <2>3, <2>5 DEF NextInv
    <3> QED
      BY <2>3, <3>1, <3>2, <3>3 DEF NextInv
  <2>10. StartInv'
    BY <2>3 DEF StartInv
  <2>11. LogsInv'
    BY <1>0, <2>3, <2>5, <2>8, <1>1 DEF LogsInv, LogSame
  <2>12. QueueInv'
    BY <1>0, <2>1, <2>2, <2>3, <2>4, <2>5, <2>6, <2>8, <1>2, <1>5 DEF QueueInv, TableSame
  <2>13. CopyInv'
    BY <2>3 DEF CopyInv
  <2>14. SrcInv'
    BY <2>3 DEF SrcInv
  <2>15. ListedInv'
    <3>1. \A n : n = Number => HasTable(n)' /\ TableContent(n)' = Content(rp.good, FALSE)
      BY <2>7 DEF HasTable, TableContent
    <3>2. \A n \in Listed : HasTable(n) => HasTable(n)' /\ TableContent(n)' = TableContent(n)
      BY <1>2, <1>4, <2>8, SameTable
    <3>3. ASSUME NEW t \in rp'.tables
          PROVE  HasTable(t.number)' /\ ~(TableContent(t.number)').bad
                 /\ (rcount'.misreads = 0 => \A e \in (TableContent(t.number)').good : e <= t.max)
      <4>1. CASE t \in rp.tables
        BY <1>0, <1>1, <2>1, <3>2, <4>1 DEF ListedInv, Listed
      <4>2. CASE t = [number |-> Number, max |-> top]
        <5>1. t.number = Number /\ t.max = top
          BY <4>2
        <5> QED
          BY <1>5, <2>1, <2>2, <3>1, <5>1
      <4> QED
        BY <2>3, <4>1, <4>2
    <3> QED
      BY <3>3 DEF ListedInv
  <2>16. NumberInv'
    <3>1. SUFFICES ASSUME rcount.faults = 0
                   PROVE  /\ \A n \in Nat : Ldb(n) \notin Dir' \/ Sst(n) \notin Dir'
                          /\ \A n \in Nat : Ldb(n) \in Lost => \E m \in Nat : m >= n /\ Ldb(m) \in Dir'
      BY <2>1, <2>3, <2>7 DEF NumberInv
    <3>2. \A n \in Nat : Ldb(n) \notin Dir' \/ Sst(n) \notin Dir'
      BY <1>0, <1>3, <1>6, <2>7, <2>8, <3>1 DEF NumberInv
    <3>3. ASSUME NEW n \in Nat, Ldb(n) \in Lost
          PROVE  \E m \in Nat : m >= n /\ Ldb(m) \in Dir'
      <4>1. PICK m \in Nat : m >= n /\ Ldb(m) \in Dir /\ (m = rp.copy => n <= Number)
        BY <1>0, <1>1, <3>1, <3>3 DEF NumberInv
      <4>2. CASE m = rp.copy
        <5>1. Number >= n
          BY <1>2, <4>1, <4>2
        <5> QED
          BY <1>2, <2>7, <5>1
      <4>3. CASE m # rp.copy
        <5>1. Ldb(m) \in Dir'
          BY <2>7, <4>1, <4>3, NameParts
        <5> QED
          BY <4>1, <5>1
      <4> QED
        BY <4>2, <4>3
    <3> QED
      BY <3>2, <3>3
  <2>17. AllInv'
    <3>1. SUFFICES ASSUME rcount.calls = 0, rcount.faults = 0, rcount.misreads = 0, NEW e \in rcount.entries
                   PROVE  \E n \in Listed' \cup Queue' : HasTable(n)' /\ e \in TableContent(n)'.good
      BY <2>1 DEF AllInv
    <3>2. CASE \E n \in Listed \cup Queue : HasTable(n) /\ e \in TableContent(n).good
      <4>1. PICK n \in Listed \cup Queue : HasTable(n) /\ e \in TableContent(n).good
        BY <3>2
      <4>2. n # Number /\ n # rp.copy
        BY <1>3, <1>4, <1>5, <3>1, <4>1 DEF HasTable
      <4> QED
        BY <2>3, <2>5, <2>8, <4>1, <4>2, SameTable
    <3>3. CASE e \in rp.good
      <4>1. \A n : n = Number => HasTable(n)' /\ e \in TableContent(n)'.good
        BY <1>5, <2>7, <3>3 DEF HasTable, TableContent
      <4> QED
        BY <2>3, <4>1
    <3> QED
      BY <1>0, <1>1, <3>1, <3>2, <3>3, LogsOver DEF AllInv
  <2>18. DescriptorInv'
    BY <2>3 DEF DescriptorInv
  <2> QED
    BY <2>3, <2>4, <2>8, <2>9, <2>10, <2>11, <2>12, <2>13, <2>14, <2>15, <2>16, <2>17, <2>18
       DEF RepairCore, RpTypes
<1>8. CASE gone
  <2>1. /\ rcount'.entries = rcount.entries /\ rcount'.calls = rcount.calls /\ rcount'.faults # 0
        /\ rcount.calls = 0 /\ rcount.misreads = 0 /\ rcount'.misreads = 0
    BY <1>8, FaultCounts
  <2>2. /\ rp' \in RpType /\ rp'.pc = "scan" /\ rp'.next = rp.next /\ rp'.logs = rp.logs
        /\ rp'.table_numbers = Tail(rp.table_numbers) /\ rp'.manifests = rp.manifests
        /\ rp'.tables = rp.tables /\ rp'.copy = rp.copy /\ rp'.src = rp.src /\ rp'.good = rp.good
    BY <1>1, <1>2, <1>8, NextTableFields
  <2>3. rp'.next > 0 /\ IsFiniteSet(rp'.tables) /\ IsFiniteSet(rp'.good)
    BY <1>0, <2>2 DEF RpTypes
  <2>4. /\ Logs' = Logs /\ Listed' = Listed
        /\ \A n : n \in Queue' <=> n \in Queue /\ n # Number
    BY <1>2, <2>2, SameSets DEF Queue
  <2>5. Removed(rp.copy)
    BY <1>1, <1>8, WithoutRemoves
  <2>6. \A e \in rdir[Ldb(rp.copy)].good :
          \/ InLost(e)
          \/ \E f \in Dir : f # Ldb(rp.copy) /\ f[1] \in DataKinds /\ e \in rdir[f].good
    <3>1. rp.src[1] \in DataKinds /\ rp.src # Ldb(rp.copy)
      BY <1>3, <1>4, NameParts DEF DataKinds
    <3> QED
      BY <1>3, <1>4, <1>5, <2>1, <3>1 DEF InLost
  <2>7. /\ DirTypes' /\ LostInv' /\ SafeInv'
        /\ \A m : m # rp.copy => TableSame(m)
        /\ \A m : LogSame(m)
        /\ Sst(rp.copy) \in Dir' <=> Sst(rp.copy) \in Dir
    BY <1>0, <2>4, <1>1, <1>4, <2>1, <2>5, <2>6, RemovedKeeps
  <2>8. /\ Lost' = Lost /\ Dir' = Dir \ {Ldb(rp.copy)}
    BY <1>1, <2>5 DEF Removed, Lost
  <2>9. NextInv'
    BY <1>0, <2>2, <2>4, <2>8, <1>1 DEF NextInv
  <2>10. StartInv'
    BY <2>2 DEF StartInv
  <2>11. LogsInv'
    BY <1>0, <2>2, <2>4, <2>7, <1>1 DEF LogsInv, LogSame
  <2>12. QueueInv'
    BY <1>0, <2>2, <2>4, <2>8, <1>2 DEF QueueInv
  <2>13. CopyInv'
    BY <2>2 DEF CopyInv
  <2>14. SrcInv'
    BY <2>2 DEF SrcInv
  <2>15. ListedInv'
    BY <1>0, <2>1, <2>2, <2>7, <1>1, <1>4, ListedFrame
  <2>16. NumberInv'
    BY <2>1 DEF NumberInv
  <2>17. AllInv'
    BY <2>1 DEF AllInv
  <2>18. DescriptorInv'
    BY <2>2 DEF DescriptorInv
  <2> QED
    BY <2>2, <2>7, <2>9, <2>10, <2>11, <2>12, <2>13, <2>14, <2>15, <2>16, <2>17, <2>18 DEF RepairCore, RpTypes
<1> QED
  BY <1>1, <1>7, <1>8 DEF RenameCopy, Ldb
\* A file without entries is made.
LEMMA WithKept ==
    ASSUME DirTypes, NEW f \in Names, f[1] \notin DataKinds, NEW c,
           rdir' = With1(rdir, f, c), rlost' = rlost
    PROVE  /\ DataKept /\ Dir' = Dir \cup {f} /\ rdir'[f] = c
           /\ \A g \in Dir : g # f => rdir'[g] = rdir[g]
<1>1. /\ Dir' = Dir \cup {f} /\ rdir'[f] = c /\ Lost' = Lost
      /\ \A g \in Dir : g # f => rdir'[g] = rdir[g]
  BY DEF With1, Dir, Lost
<1>2. IsFiniteSet(Dir')
  BY <1>1, FS_AddElement DEF DirTypes
<1> QED
  BY <1>1, <1>2 DEF DataKept, DirTypes

\* A file without entries is removed.
LEMMA WithoutKept ==
    ASSUME DirTypes, NEW f, f[1] \notin DataKinds, rdir' = Without1(rdir, f), rlost' = rlost
    PROVE  DataKept /\ Dir' = Dir \ {f}
<1>1. /\ Dir' = Dir \ {f} /\ Lost' = Lost
      /\ \A g \in Dir : g # f => rdir'[g] = rdir[g]
  BY DEF Without1, Dir, Lost
<1>2. IsFiniteSet(Dir')
  BY <1>1, FS_RemoveElement DEF DirTypes
<1> QED
  BY <1>1, <1>2 DEF DataKept, DirTypes

\* A file without entries is renamed.
LEMMA RenameKept ==
    ASSUME DirTypes, NEW f, NEW g \in Names, f[1] \notin DataKinds, g[1] \notin DataKinds, f # g,
           rdir' = With1(Without1(rdir, f), g, rdir[f]), rlost' = rlost
    PROVE  DataKept /\ Dir' = (Dir \ {f}) \cup {g} /\ rdir'[g] = rdir[f]
<1>1. /\ Dir' = (Dir \ {f}) \cup {g} /\ rdir'[g] = rdir[f] /\ Lost' = Lost
      /\ \A x \in Dir : x # f /\ x # g => rdir'[x] = rdir[x]
  BY DEF With1, Without1, Dir, Lost
<1>2. IsFiniteSet(Dir \ {f})
  BY FS_RemoveElement DEF DirTypes
<1>3. IsFiniteSet(Dir')
  BY <1>1, <1>2, FS_AddElement
<1> QED
  BY <1>1, <1>3 DEF DataKept, DirTypes

\* A file without entries goes to lost/.
LEMMA ArchivedKept ==
    ASSUME DirTypes, NEW f, f[1] \notin DataKinds, Archived({f})
    PROVE  DataKept /\ Dir' = Dir \ {f} /\ \A g \in Dir : g # f => rdir'[g] = rdir[g]
<1>1. IsFiniteSet(Dir')
  BY FS_RemoveElement DEF DirTypes, Archived
<1> QED
  BY <1>1 DEF DataKept, DirTypes, Archived

\* The new manifest is written to a temporary file.
LEMMA WriteDescriptorKeeps ==
    ASSUME CountTypes, RepairCore, Clean', WriteDescriptor
    PROVE  RepairCore'
<1>0. DirTypes /\ RpTypes /\ NextInv /\ StartInv /\ LogsInv /\ QueueInv /\ CopyInv /\ SrcInv
       /\ ListedInv /\ LostInv /\ SafeInv /\ NumberInv /\ AllInv /\ DescriptorInv
  BY DEF RepairCore
<1>1. rp.pc = "descriptor" /\ rlost' = rlost /\ rp.next \in Nat
  BY <1>0 DEF WriteDescriptor, RpTypes, RpType
<1>2. /\ Tmp \in Names /\ Tmp[1] = "tmp" /\ Manifest1 \in Names /\ Manifest1[1] = "manifest" /\ Tmp # Manifest1
      /\ Current \in Names /\ Current[1] = "current" /\ Current[2] = 0 /\ Tmp # Current /\ Manifest1 # Current
      /\ "tmp" \notin DataKinds /\ "manifest" \notin DataKinds /\ "current" \notin DataKinds
  BY NameParts DEF DataKinds
<1> DEFINE written == NoFault /\ rdir' = With1(rdir, Tmp, Edit) /\ rp' = [rp EXCEPT !.pc = "manifests"]
           fails == Fault /\ (rdir' = rdir \/ rdir' = Without1(rdir, Tmp)) /\ rp' = [rp EXCEPT !.pc = "failed"]
<1>3. CASE written
  <2>1. rcount' = rcount
    BY <1>3 DEF NoFault
  <2>2. /\ rp' \in RpType /\ rp'.pc = "manifests" /\ rp'.next = rp.next /\ rp'.logs = rp.logs
        /\ rp'.table_numbers = rp.table_numbers /\ rp'.manifests = rp.manifests
        /\ rp'.tables = rp.tables /\ rp'.copy = rp.copy /\ rp'.src = rp.src /\ rp'.good = rp.good
    <3>1. rp' = [rp EXCEPT !.pc = "manifests"]
      BY <1>3
    <3>2. rp \in RpType
      BY <1>0 DEF RpTypes
    <3> QED
      BY <3>1, <3>2 DEF RpType
  <2>3. rp'.next > 0 /\ IsFiniteSet(rp'.tables) /\ IsFiniteSet(rp'.good)
    BY <1>0, <2>2 DEF RpTypes
  <2>4. Logs' = Logs /\ Queue' = Queue /\ Number' = Number /\ Listed' = Listed /\ Edit' = Edit
    BY <2>2, SameSets
  <2>5. DataKept /\ Dir' = Dir \cup {Tmp} /\ rdir'[Tmp] = Edit
    BY <1>0, <1>1, <1>2, <1>3, WithKept
  <2>6. /\ DirTypes' /\ LostInv' /\ SafeInv'
        /\ \A m : TableSame(m) /\ LogSame(m)
        /\ \A m : Ldb(m) \in Lost' <=> Ldb(m) \in Lost
    BY <1>0, <2>4, <2>1, <2>5, DataKeeps
  <2>7. NextInv'
    BY <1>0, <2>2, <2>4, <2>5, <2>6, <1>1 DEF NextInv
  <2>8. StartInv'
    BY <2>2 DEF StartInv
  <2>9. LogsInv'
    BY <1>0, <2>2, <2>4, <1>1, LogsOver DEF LogsInv
  <2>10. QueueInv'
    BY <1>0, <2>2, <2>4, <2>6, <1>1 DEF QueueInv, TableSame
  <2>11. CopyInv'
    BY <2>2 DEF CopyInv
  <2>12. SrcInv'
    BY <2>2 DEF SrcInv
  <2>13. ListedInv'
    BY <1>0, <2>1, <2>2, <2>6, <1>1, ListedFrame
  <2>14. NumberInv'
    BY <1>0, <2>1, <2>2, <2>6 DEF NumberInv, TableSame
  <2>15. AllInv'
    BY <1>0, <2>1, <2>4, <2>6, <1>1, LogsOver, SameTable DEF AllInv
  <2>16. DescriptorInv'
    BY <2>2, <2>4, <2>5 DEF DescriptorInv
  <2> QED
    BY <2>2, <2>6, <2>7, <2>8, <2>9, <2>10, <2>11, <2>12, <2>13, <2>14, <2>15, <2>16 DEF RepairCore, RpTypes
<1>4. CASE fails
  <2>1. /\ rcount'.entries = rcount.entries /\ rcount'.calls = rcount.calls /\ rcount'.faults # 0
        /\ rcount.calls = 0 /\ rcount.misreads = 0 /\ rcount'.misreads = 0
    BY <1>4, FaultCounts
  <2>2. /\ rp' \in RpType /\ rp'.pc = "failed" /\ rp'.next = rp.next /\ rp'.logs = rp.logs
        /\ rp'.table_numbers = rp.table_numbers /\ rp'.manifests = rp.manifests
        /\ rp'.tables = rp.tables /\ rp'.copy = rp.copy /\ rp'.src = rp.src /\ rp'.good = rp.good
    <3>1. rp' = [rp EXCEPT !.pc = "failed"]
      BY <1>4
    <3>2. rp \in RpType
      BY <1>0 DEF RpTypes
    <3> QED
      BY <3>1, <3>2 DEF RpType
  <2>3. rp'.next > 0 /\ IsFiniteSet(rp'.tables) /\ IsFiniteSet(rp'.good)
    BY <1>0, <2>2 DEF RpTypes
  <2>4. Logs' = Logs /\ Queue' = Queue /\ Number' = Number /\ Listed' = Listed /\ Edit' = Edit
    BY <2>2, SameSets
  <2>5. DataKept
    BY <1>0, <1>1, <1>2, <1>4, WithoutKept, UntouchedKept
  <2>6. /\ DirTypes' /\ LostInv' /\ SafeInv'
        /\ \A m : TableSame(m) /\ LogSame(m)
        /\ \A m : Ldb(m) \in Lost' <=> Ldb(m) \in Lost
    BY <1>0, <2>4, <2>1, <2>5, DataKeeps
  <2>7. NextInv'
    BY <1>0, <2>2, <2>4 DEF NextInv
  <2>8. StartInv'
    BY <2>2 DEF StartInv
  <2>9. LogsInv'
    BY <1>0, <2>2, <2>4, <1>1, LogsOver DEF LogsInv
  <2>10. QueueInv'
    BY <1>0, <2>2, <2>4, <2>6, <1>1 DEF QueueInv, TableSame
  <2>11. CopyInv'
    BY <2>2 DEF CopyInv
  <2>12. SrcInv'
    BY <2>2 DEF SrcInv
  <2>13. ListedInv'
    BY <2>2 DEF ListedInv
  <2>14. NumberInv'
    BY <2>1 DEF NumberInv
  <2>15. AllInv'
    BY <2>2 DEF AllInv
  <2>16. DescriptorInv'
    BY <2>2 DEF DescriptorInv
  <2> QED
    BY <2>2, <2>6, <2>7, <2>8, <2>9, <2>10, <2>11, <2>12, <2>13, <2>14, <2>15, <2>16 DEF RepairCore, RpTypes
<1> QED
  BY <1>3, <1>4 DEF WriteDescriptor, GiveUp, Edit

\* An old manifest goes to lost/.
LEMMA ArchiveManifestKeeps ==
    ASSUME CountTypes, RepairCore, Clean', ArchiveManifest
    PROVE  RepairCore'
<1>0. DirTypes /\ RpTypes /\ NextInv /\ StartInv /\ LogsInv /\ QueueInv /\ CopyInv /\ SrcInv
       /\ ListedInv /\ LostInv /\ SafeInv /\ NumberInv /\ AllInv /\ DescriptorInv
  BY DEF RepairCore
<1>0a. PICK n \in rp.manifests : /\ rp.pc = "manifests" /\ ArchiveFile(<<"manifest", n>>)
                                  /\ rp' = [rp EXCEPT !.manifests = @ \ {n}]
  BY DEF ArchiveManifest
<1> DEFINE f == <<"manifest", n>>
<1>1. rp.pc = "manifests" /\ rp.next \in Nat /\ rp.manifests \ {n} \in SUBSET Nat
  BY <1>0, <1>0a DEF RpTypes, RpType
<1>2. /\ Tmp # f /\ f[1] = "manifest" /\ f[1] \notin DataKinds
  BY NameParts DEF DataKinds
<1>3. \/ rcount' = rcount /\ Archived({f})
      \/ Fault /\ UNCHANGED <<rdir, rlost>>
      \/ rcount' = rcount /\ UNCHANGED <<rdir, rlost>>
  BY <1>0a, ArchiveEffect
<1>4. rp' = [rp EXCEPT !.manifests = rp.manifests \ {n}]
  BY <1>0a
<1> HIDE DEF f
<1>5. CASE rcount' = rcount /\ Archived({f})
  <2>1. rcount' = rcount
    BY <1>5
  <2>2. /\ rp' \in RpType /\ rp'.pc = rp.pc /\ rp'.next = rp.next /\ rp'.logs = rp.logs
        /\ rp'.table_numbers = rp.table_numbers /\ rp'.manifests = rp.manifests \ {n}
        /\ rp'.tables = rp.tables /\ rp'.copy = rp.copy /\ rp'.src = rp.src /\ rp'.good = rp.good
    <3>1. rp' = [rp EXCEPT !.manifests = rp.manifests \ {n}]
      BY <1>4
    <3>2. rp \in RpType
      BY <1>0 DEF RpTypes
    <3> QED
      BY <1>1, <3>1, <3>2 DEF RpType
  <2>3. rp'.next > 0 /\ IsFiniteSet(rp'.tables) /\ IsFiniteSet(rp'.good)
    BY <1>0, <2>2 DEF RpTypes
  <2>4. Logs' = Logs /\ Queue' = Queue /\ Number' = Number /\ Listed' = Listed /\ Edit' = Edit
    BY <2>2, SameSets
  <2>5. DataKept /\ Dir' = Dir \ {f} /\ \A g \in Dir : g # f => rdir'[g] = rdir[g]
    BY <1>0, <1>2, <1>5, ArchivedKept
  <2>6. /\ DirTypes' /\ LostInv' /\ SafeInv'
        /\ \A m : TableSame(m) /\ LogSame(m)
        /\ \A m : Ldb(m) \in Lost' <=> Ldb(m) \in Lost
    BY <1>0, <2>4, <2>1, <2>5, DataKeeps
  <2>7. NextInv'
    BY <1>0, <2>2, <2>4, <2>5, <2>6 DEF NextInv
  <2>8. StartInv'
    BY <2>2, <1>1 DEF StartInv
  <2>9. LogsInv'
    BY <1>0, <2>2, <2>4, <1>1, LogsOver DEF LogsInv
  <2>10. QueueInv'
    BY <1>0, <2>2, <2>4, <2>6 DEF QueueInv, TableSame
  <2>11. CopyInv'
    BY <2>2, <1>1 DEF CopyInv
  <2>12. SrcInv'
    BY <2>2, <1>1 DEF SrcInv
  <2>13. ListedInv'
    BY <1>0, <2>1, <2>2, <2>6, ListedFrame DEF ListedInv
  <2>14. NumberInv'
    BY <1>0, <2>1, <2>2, <2>6, <1>1 DEF NumberInv, TableSame
  <2>15. AllInv'
    BY <1>0, <2>1, <2>4, <2>6, <1>1, LogsOver, SameTable DEF AllInv
  <2>16. DescriptorInv'
    BY <1>0, <2>2, <2>4, <2>5, <1>1, <1>2 DEF DescriptorInv
  <2> QED
    BY <2>2, <2>6, <2>7, <2>8, <2>9, <2>10, <2>11, <2>12, <2>13, <2>14, <2>15, <2>16 DEF RepairCore, RpTypes
<1>6. CASE Fault /\ UNCHANGED <<rdir, rlost>>
  <2>1. /\ rcount'.entries = rcount.entries /\ rcount'.calls = rcount.calls /\ rcount'.faults # 0
        /\ rcount.calls = 0 /\ rcount.misreads = 0 /\ rcount'.misreads = 0
    BY <1>6, FaultCounts
  <2>2. /\ rp' \in RpType /\ rp'.pc = rp.pc /\ rp'.next = rp.next /\ rp'.logs = rp.logs
        /\ rp'.table_numbers = rp.table_numbers /\ rp'.manifests = rp.manifests \ {n}
        /\ rp'.tables = rp.tables /\ rp'.copy = rp.copy /\ rp'.src = rp.src /\ rp'.good = rp.good
    <3>1. rp' = [rp EXCEPT !.manifests = rp.manifests \ {n}]
      BY <1>4
    <3>2. rp \in RpType
      BY <1>0 DEF RpTypes
    <3> QED
      BY <1>1, <3>1, <3>2 DEF RpType
  <2>3. rp'.next > 0 /\ IsFiniteSet(rp'.tables) /\ IsFiniteSet(rp'.good)
    BY <1>0, <2>2 DEF RpTypes
  <2>4. Logs' = Logs /\ Queue' = Queue /\ Number' = Number /\ Listed' = Listed /\ Edit' = Edit
    BY <2>2, SameSets
  <2>5. DataKept /\ Dir' = Dir /\ rdir' = rdir
    BY <1>0, <1>6, UntouchedKept DEF Dir
  <2>6. /\ DirTypes' /\ LostInv' /\ SafeInv'
        /\ \A m : TableSame(m) /\ LogSame(m)
        /\ \A m : Ldb(m) \in Lost' <=> Ldb(m) \in Lost
    BY <1>0, <2>4, <2>1, <2>5, DataKeeps
  <2>7. NextInv'
    BY <1>0, <2>2, <2>4, <2>5, <2>6 DEF NextInv
  <2>8. StartInv'
    BY <2>2, <1>1 DEF StartInv
  <2>9. LogsInv'
    BY <1>0, <2>2, <2>4, <1>1, LogsOver DEF LogsInv
  <2>10. QueueInv'
    BY <1>0, <2>2, <2>4, <2>6 DEF QueueInv, TableSame
  <2>11. CopyInv'
    BY <2>2, <1>1 DEF CopyInv
  <2>12. SrcInv'
    BY <2>2, <1>1 DEF SrcInv
  <2>13. ListedInv'
    BY <1>0, <2>1, <2>2, <2>6, ListedFrame DEF ListedInv
  <2>14. NumberInv'
    BY <2>1 DEF NumberInv
  <2>15. AllInv'
    BY <2>1 DEF AllInv
  <2>16. DescriptorInv'
    BY <1>0, <2>2, <2>4, <2>5 DEF DescriptorInv
  <2> QED
    BY <2>2, <2>6, <2>7, <2>8, <2>9, <2>10, <2>11, <2>12, <2>13, <2>14, <2>15, <2>16 DEF RepairCore, RpTypes
<1>7. CASE rcount' = rcount /\ UNCHANGED <<rdir, rlost>>
  <2>1. rcount' = rcount
    BY <1>7
  <2>2. /\ rp' \in RpType /\ rp'.pc = rp.pc /\ rp'.next = rp.next /\ rp'.logs = rp.logs
        /\ rp'.table_numbers = rp.table_numbers /\ rp'.manifests = rp.manifests \ {n}
        /\ rp'.tables = rp.tables /\ rp'.copy = rp.copy /\ rp'.src = rp.src /\ rp'.good = rp.good
    <3>1. rp' = [rp EXCEPT !.manifests = rp.manifests \ {n}]
      BY <1>4
    <3>2. rp \in RpType
      BY <1>0 DEF RpTypes
    <3> QED
      BY <1>1, <3>1, <3>2 DEF RpType
  <2>3. rp'.next > 0 /\ IsFiniteSet(rp'.tables) /\ IsFiniteSet(rp'.good)
    BY <1>0, <2>2 DEF RpTypes
  <2>4. Logs' = Logs /\ Queue' = Queue /\ Number' = Number /\ Listed' = Listed /\ Edit' = Edit
    BY <2>2, SameSets
  <2>5. DataKept /\ Dir' = Dir /\ rdir' = rdir
    BY <1>0, <1>7, UntouchedKept DEF Dir
  <2>6. /\ DirTypes' /\ LostInv' /\ SafeInv'
        /\ \A m : TableSame(m) /\ LogSame(m)
        /\ \A m : Ldb(m) \in Lost' <=> Ldb(m) \in Lost
    BY <1>0, <2>4, <2>1, <2>5, DataKeeps
  <2>7. NextInv'
    BY <1>0, <2>2, <2>4, <2>5, <2>6 DEF NextInv
  <2>8. StartInv'
    BY <2>2, <1>1 DEF StartInv
  <2>9. LogsInv'
    BY <1>0, <2>2, <2>4, <1>1, LogsOver DEF LogsInv
  <2>10. QueueInv'
    BY <1>0, <2>2, <2>4, <2>6 DEF QueueInv, TableSame
  <2>11. CopyInv'
    BY <2>2, <1>1 DEF CopyInv
  <2>12. SrcInv'
    BY <2>2, <1>1 DEF SrcInv
  <2>13. ListedInv'
    BY <1>0, <2>1, <2>2, <2>6, ListedFrame DEF ListedInv
  <2>14. NumberInv'
    BY <1>0, <2>1, <2>2, <2>6, <1>1 DEF NumberInv, TableSame
  <2>15. AllInv'
    BY <1>0, <2>1, <2>4, <2>6, <1>1, LogsOver, SameTable DEF AllInv
  <2>16. DescriptorInv'
    BY <1>0, <2>2, <2>4, <2>5 DEF DescriptorInv
  <2> QED
    BY <2>2, <2>6, <2>7, <2>8, <2>9, <2>10, <2>11, <2>12, <2>13, <2>14, <2>15, <2>16 DEF RepairCore, RpTypes
<1> QED
  BY <1>3, <1>5, <1>6, <1>7

\* The new manifest takes its name.
LEMMA InstallManifestKeeps ==
    ASSUME CountTypes, RepairCore, Clean', InstallManifest
    PROVE  RepairCore'
<1>0. DirTypes /\ RpTypes /\ NextInv /\ StartInv /\ LogsInv /\ QueueInv /\ CopyInv /\ SrcInv
       /\ ListedInv /\ LostInv /\ SafeInv /\ NumberInv /\ AllInv /\ DescriptorInv
  BY DEF RepairCore
<1>1. rp.pc = "manifests" /\ rlost' = rlost /\ rp.next \in Nat
  BY <1>0 DEF InstallManifest, RpTypes, RpType
<1>2. /\ Tmp \in Names /\ Tmp[1] = "tmp" /\ Manifest1 \in Names /\ Manifest1[1] = "manifest" /\ Tmp # Manifest1
      /\ Current \in Names /\ Current[1] = "current" /\ Current[2] = 0 /\ Tmp # Current /\ Manifest1 # Current
      /\ "tmp" \notin DataKinds /\ "manifest" \notin DataKinds /\ "current" \notin DataKinds
  BY NameParts DEF DataKinds
<1> DEFINE named == /\ NoFault
                    /\ rdir' = With1(Without1(rdir, Tmp), Manifest1, rdir[Tmp])
                    /\ rp' = [rp EXCEPT !.pc = "current"]
           fails == Fault /\ rdir' = Without1(rdir, Tmp) /\ rp' = [rp EXCEPT !.pc = "failed"]
<1>3. CASE named
  <2>1. rcount' = rcount
    BY <1>3 DEF NoFault
  <2>2. /\ rp' \in RpType /\ rp'.pc = "current" /\ rp'.next = rp.next /\ rp'.logs = rp.logs
        /\ rp'.table_numbers = rp.table_numbers /\ rp'.manifests = rp.manifests
        /\ rp'.tables = rp.tables /\ rp'.copy = rp.copy /\ rp'.src = rp.src /\ rp'.good = rp.good
    <3>1. rp' = [rp EXCEPT !.pc = "current"]
      BY <1>3
    <3>2. rp \in RpType
      BY <1>0 DEF RpTypes
    <3> QED
      BY <3>1, <3>2 DEF RpType
  <2>3. rp'.next > 0 /\ IsFiniteSet(rp'.tables) /\ IsFiniteSet(rp'.good)
    BY <1>0, <2>2 DEF RpTypes
  <2>4. Logs' = Logs /\ Queue' = Queue /\ Number' = Number /\ Listed' = Listed /\ Edit' = Edit
    BY <2>2, SameSets
  <2>5. DataKept /\ Dir' = (Dir \ {Tmp}) \cup {Manifest1} /\ rdir'[Manifest1] = rdir[Tmp]
    BY <1>0, <1>1, <1>2, <1>3, RenameKept
  <2>6. /\ DirTypes' /\ LostInv' /\ SafeInv'
        /\ \A m : TableSame(m) /\ LogSame(m)
        /\ \A m : Ldb(m) \in Lost' <=> Ldb(m) \in Lost
    BY <1>0, <2>4, <2>1, <2>5, DataKeeps
  <2>7. NextInv'
    BY <1>0, <2>2, <2>4, <2>5, <2>6, <1>1, <1>2 DEF NextInv
  <2>8. StartInv'
    BY <2>2 DEF StartInv
  <2>9. LogsInv'
    BY <1>0, <2>2, <2>4, <1>1, LogsOver DEF LogsInv
  <2>10. QueueInv'
    BY <1>0, <2>2, <2>4, <2>6, <1>1 DEF QueueInv, TableSame
  <2>11. CopyInv'
    BY <2>2 DEF CopyInv
  <2>12. SrcInv'
    BY <2>2 DEF SrcInv
  <2>13. ListedInv'
    BY <1>0, <2>1, <2>2, <2>6, <1>1, ListedFrame
  <2>14. NumberInv'
    BY <1>0, <2>1, <2>2, <2>6 DEF NumberInv, TableSame
  <2>15. AllInv'
    BY <1>0, <2>1, <2>4, <2>6, <1>1, LogsOver, SameTable DEF AllInv
  <2>16. DescriptorInv'
    BY <1>0, <2>2, <2>4, <2>5, <1>1, <1>2 DEF DescriptorInv
  <2> QED
    BY <2>2, <2>6, <2>7, <2>8, <2>9, <2>10, <2>11, <2>12, <2>13, <2>14, <2>15, <2>16 DEF RepairCore, RpTypes
<1>4. CASE fails
  <2>1. /\ rcount'.entries = rcount.entries /\ rcount'.calls = rcount.calls /\ rcount'.faults # 0
        /\ rcount.calls = 0 /\ rcount.misreads = 0 /\ rcount'.misreads = 0
    BY <1>4, FaultCounts
  <2>2. /\ rp' \in RpType /\ rp'.pc = "failed" /\ rp'.next = rp.next /\ rp'.logs = rp.logs
        /\ rp'.table_numbers = rp.table_numbers /\ rp'.manifests = rp.manifests
        /\ rp'.tables = rp.tables /\ rp'.copy = rp.copy /\ rp'.src = rp.src /\ rp'.good = rp.good
    <3>1. rp' = [rp EXCEPT !.pc = "failed"]
      BY <1>4
    <3>2. rp \in RpType
      BY <1>0 DEF RpTypes
    <3> QED
      BY <3>1, <3>2 DEF RpType
  <2>3. rp'.next > 0 /\ IsFiniteSet(rp'.tables) /\ IsFiniteSet(rp'.good)
    BY <1>0, <2>2 DEF RpTypes
  <2>4. Logs' = Logs /\ Queue' = Queue /\ Number' = Number /\ Listed' = Listed /\ Edit' = Edit
    BY <2>2, SameSets
  <2>5. DataKept /\ Dir' = Dir \ {Tmp}
    BY <1>0, <1>1, <1>2, <1>4, WithoutKept
  <2>6. /\ DirTypes' /\ LostInv' /\ SafeInv'
        /\ \A m : TableSame(m) /\ LogSame(m)
        /\ \A m : Ldb(m) \in Lost' <=> Ldb(m) \in Lost
    BY <1>0, <2>4, <2>1, <2>5, DataKeeps
  <2>7. NextInv'
    BY <1>0, <2>2, <2>4 DEF NextInv
  <2>8. StartInv'
    BY <2>2 DEF StartInv
  <2>9. LogsInv'
    BY <1>0, <2>2, <2>4, <1>1, LogsOver DEF LogsInv
  <2>10. QueueInv'
    BY <1>0, <2>2, <2>4, <2>6, <1>1 DEF QueueInv, TableSame
  <2>11. CopyInv'
    BY <2>2 DEF CopyInv
  <2>12. SrcInv'
    BY <2>2 DEF SrcInv
  <2>13. ListedInv'
    BY <2>2 DEF ListedInv
  <2>14. NumberInv'
    BY <2>1 DEF NumberInv
  <2>15. AllInv'
    BY <2>2 DEF AllInv
  <2>16. DescriptorInv'
    BY <2>2 DEF DescriptorInv
  <2> QED
    BY <2>2, <2>6, <2>7, <2>8, <2>9, <2>10, <2>11, <2>12, <2>13, <2>14, <2>15, <2>16 DEF RepairCore, RpTypes
<1> QED
  BY <1>3, <1>4 DEF InstallManifest, GiveUp, Manifest1

\* CURRENT names the new manifest.
LEMMA SetCurrentKeeps ==
    ASSUME CountTypes, RepairCore, Clean', SetCurrentFile
    PROVE  RepairCore'
<1>0. DirTypes /\ RpTypes /\ NextInv /\ StartInv /\ LogsInv /\ QueueInv /\ CopyInv /\ SrcInv
       /\ ListedInv /\ LostInv /\ SafeInv /\ NumberInv /\ AllInv /\ DescriptorInv
  BY DEF RepairCore
<1>1. rp.pc = "current" /\ rlost' = rlost /\ rp.next \in Nat /\ rp.next > 0
  BY <1>0 DEF SetCurrentFile, RpTypes, RpType
<1>2. /\ Tmp \in Names /\ Tmp[1] = "tmp" /\ Manifest1 \in Names /\ Manifest1[1] = "manifest" /\ Tmp # Manifest1
      /\ Current \in Names /\ Current[1] = "current" /\ Current[2] = 0 /\ Tmp # Current /\ Manifest1 # Current
      /\ "tmp" \notin DataKinds /\ "manifest" \notin DataKinds /\ "current" \notin DataKinds
  BY NameParts DEF DataKinds
<1> DEFINE set == NoFault /\ rdir' = With1(rdir, Current, 1) /\ rp' = [rp EXCEPT !.pc = "done"]
           fails == Fault /\ rdir' = rdir /\ rp' = [rp EXCEPT !.pc = "failed"]
<1>3. CASE set
  <2>1. rcount' = rcount
    BY <1>3 DEF NoFault
  <2>2. /\ rp' \in RpType /\ rp'.pc = "done" /\ rp'.next = rp.next /\ rp'.logs = rp.logs
        /\ rp'.table_numbers = rp.table_numbers /\ rp'.manifests = rp.manifests
        /\ rp'.tables = rp.tables /\ rp'.copy = rp.copy /\ rp'.src = rp.src /\ rp'.good = rp.good
    <3>1. rp' = [rp EXCEPT !.pc = "done"]
      BY <1>3
    <3>2. rp \in RpType
      BY <1>0 DEF RpTypes
    <3> QED
      BY <3>1, <3>2 DEF RpType
  <2>3. rp'.next > 0 /\ IsFiniteSet(rp'.tables) /\ IsFiniteSet(rp'.good)
    BY <1>0, <2>2 DEF RpTypes
  <2>4. Logs' = Logs /\ Queue' = Queue /\ Number' = Number /\ Listed' = Listed /\ Edit' = Edit
    BY <2>2, SameSets
  <2>5. DataKept /\ Dir' = Dir \cup {Current} /\ rdir'[Current] = 1 /\ \A g \in Dir : g # Current => rdir'[g] = rdir[g]
    BY <1>0, <1>1, <1>2, <1>3, WithKept
  <2>6. /\ DirTypes' /\ LostInv' /\ SafeInv'
        /\ \A m : TableSame(m) /\ LogSame(m)
        /\ \A m : Ldb(m) \in Lost' <=> Ldb(m) \in Lost
    BY <1>0, <2>4, <2>1, <2>5, DataKeeps
  <2>7. NextInv'
    BY <1>0, <2>2, <2>4, <2>5, <2>6, <1>1, <1>2 DEF NextInv
  <2>8. StartInv'
    BY <2>2 DEF StartInv
  <2>9. LogsInv'
    BY <1>0, <2>2, <2>4, <1>1, LogsOver DEF LogsInv
  <2>10. QueueInv'
    BY <1>0, <2>2, <2>4, <2>6, <1>1 DEF QueueInv, TableSame
  <2>11. CopyInv'
    BY <2>2 DEF CopyInv
  <2>12. SrcInv'
    BY <2>2 DEF SrcInv
  <2>13. ListedInv'
    BY <1>0, <2>1, <2>2, <2>6, <1>1, ListedFrame
  <2>14. NumberInv'
    BY <1>0, <2>1, <2>2, <2>6 DEF NumberInv, TableSame
  <2>15. AllInv'
    BY <1>0, <2>1, <2>4, <2>6, <1>1, LogsOver, SameTable DEF AllInv
  <2>16. DescriptorInv'
    BY <1>0, <2>2, <2>4, <2>5, <1>1, <1>2 DEF DescriptorInv
  <2> QED
    BY <2>2, <2>6, <2>7, <2>8, <2>9, <2>10, <2>11, <2>12, <2>13, <2>14, <2>15, <2>16 DEF RepairCore, RpTypes
<1>4. CASE fails
  <2>1. /\ rcount'.entries = rcount.entries /\ rcount'.calls = rcount.calls /\ rcount'.faults # 0
        /\ rcount.calls = 0 /\ rcount.misreads = 0 /\ rcount'.misreads = 0
    BY <1>4, FaultCounts
  <2>2. /\ rp' \in RpType /\ rp'.pc = "failed" /\ rp'.next = rp.next /\ rp'.logs = rp.logs
        /\ rp'.table_numbers = rp.table_numbers /\ rp'.manifests = rp.manifests
        /\ rp'.tables = rp.tables /\ rp'.copy = rp.copy /\ rp'.src = rp.src /\ rp'.good = rp.good
    <3>1. rp' = [rp EXCEPT !.pc = "failed"]
      BY <1>4
    <3>2. rp \in RpType
      BY <1>0 DEF RpTypes
    <3> QED
      BY <3>1, <3>2 DEF RpType
  <2>3. rp'.next > 0 /\ IsFiniteSet(rp'.tables) /\ IsFiniteSet(rp'.good)
    BY <1>0, <2>2 DEF RpTypes
  <2>4. Logs' = Logs /\ Queue' = Queue /\ Number' = Number /\ Listed' = Listed /\ Edit' = Edit
    BY <2>2, SameSets
  <2>5. DataKept /\ Dir' = Dir /\ rdir' = rdir
    BY <1>0, <1>1, <1>4, UntouchedKept DEF Dir
  <2>6. /\ DirTypes' /\ LostInv' /\ SafeInv'
        /\ \A m : TableSame(m) /\ LogSame(m)
        /\ \A m : Ldb(m) \in Lost' <=> Ldb(m) \in Lost
    BY <1>0, <2>4, <2>1, <2>5, DataKeeps
  <2>7. NextInv'
    BY <1>0, <2>2, <2>4 DEF NextInv
  <2>8. StartInv'
    BY <2>2 DEF StartInv
  <2>9. LogsInv'
    BY <1>0, <2>2, <2>4, <1>1, LogsOver DEF LogsInv
  <2>10. QueueInv'
    BY <1>0, <2>2, <2>4, <2>6, <1>1 DEF QueueInv, TableSame
  <2>11. CopyInv'
    BY <2>2 DEF CopyInv
  <2>12. SrcInv'
    BY <2>2 DEF SrcInv
  <2>13. ListedInv'
    BY <2>2 DEF ListedInv
  <2>14. NumberInv'
    BY <2>1 DEF NumberInv
  <2>15. AllInv'
    BY <2>2 DEF AllInv
  <2>16. DescriptorInv'
    BY <2>2 DEF DescriptorInv
  <2> QED
    BY <2>2, <2>6, <2>7, <2>8, <2>9, <2>10, <2>11, <2>12, <2>13, <2>14, <2>15, <2>16 DEF RepairCore, RpTypes
<1> QED
  BY <1>1, <1>3, <1>4 DEF SetCurrentFile, GiveUp, Current
\* A sequence of some numbers is one of numbers.
LEMMA SubSequences ==
    ASSUME NEW S \in SUBSET Nat, NEW s \in Seq(S)
    PROVE  s \in Seq(Nat)
<1>1. Len(s) \in Nat /\ s \in [1..Len(s) -> S]
  OBVIOUS
<1>2. s \in [1..Len(s) -> Nat]
  BY <1>1
<1> QED
  BY <1>1, <1>2

\* The numbers of the files of some kinds are finitely many.
LEMMA NumbersFinite ==
    ASSUME DirTypes, NEW kinds
    PROVE  LET files == {f \in Dir : f[1] \in kinds}
           IN  IsFiniteSet(files) /\ IsFiniteSet({f[2] : f \in files}) /\ {f[2] : f \in files} \subseteq Nat
<1> DEFINE files == {f \in Dir : f[1] \in kinds}
           numbers == {f[2] : f \in files}
           number == [f \in files |-> f[2]]
<1>1. IsFiniteSet(files)
  BY FS_Subset DEF DirTypes
<1>2. numbers \subseteq Nat
  BY NameParts DEF DirTypes
<1>3. number \in Surjection(files, numbers)
  BY DEF Surjection
<1>4. IsFiniteSet(numbers)
  BY <1>1, <1>3, FS_Surjection
<1> QED
  BY <1>1, <1>2, <1>4

\* FindFiles: the logs, the tables, and a next number above every file's.
LEMMA FindFilesKeeps ==
    ASSUME CountTypes, RepairCore, Clean', FindFiles
    PROVE  RepairCore'
<1>0. DirTypes /\ RpTypes /\ NextInv /\ StartInv /\ LogsInv /\ QueueInv /\ CopyInv /\ SrcInv
       /\ ListedInv /\ LostInv /\ SafeInv /\ NumberInv /\ AllInv /\ DescriptorInv
  BY DEF RepairCore
<1> DEFINE Of(kinds) == {f \in Dir : f[1] \in kinds}
           numbers(kinds) == {f[2] : f \in Of(kinds)}
           counted == numbers({"log", "ldb", "sst", "tmp", "current"})
           tables == Of({"ldb", "sst"})
           top == Max(counted \cup {0})
<1>1. /\ rp.pc = "start" /\ rp = Repairer /\ rdir' = rdir /\ rlost' = rlost
  BY <1>0 DEF FindFiles, StartInv
<1>2. /\ rp.tables = {} /\ rp.logs = <<>> /\ rp.table_numbers = <<>> /\ rp.good = {} /\ rp \in RpType
  BY <1>0, <1>1 DEF Repairer, RpTypes
<1>3. /\ rcount'.entries = rcount.entries /\ rcount'.calls = rcount.calls
      /\ rcount.faults = 0 /\ rcount.misreads = 0 /\ rcount'.misreads = 0
      /\ rcount' = rcount \/ rcount'.faults # 0
  <2>1. /\ Fault \/ NoFault
    BY DEF FindFiles
  <2>2. Clean /\ rcount.faults = 0 /\ rcount.misreads = 0
    BY <1>0, <1>1, <2>1, FaultCounts, NoFaultCounts DEF StartInv, Clean
  <2> QED
    BY <2>1, <2>2, FaultCounts, NoFaultCounts
<1>4. DataKept
  BY <1>0, <1>1, UntouchedKept
<1>5. /\ DirTypes' /\ LostInv' /\ SafeInv'
      /\ Dir' = Dir /\ Lost' = Lost
  BY <1>0, <1>1, <1>3, <1>4, DataKeeps DEF Dir, Lost
<1> DEFINE listed == \E ls \in SetToSeqs(numbers({"log"})), ts \in SetToSeqs(tables) :
                        rp' = [rp EXCEPT !.pc = "logs", !.next = top + 1, !.logs = ls,
                                         !.table_numbers = [i \in DOMAIN ts |-> ts[i][2]],
                                         !.manifests = numbers({"manifest"})]
<1>6. (rcount' = rcount /\ listed) \/ (Fault /\ rp' = [rp EXCEPT !.pc = "failed"])
  BY DEF FindFiles, Dir, NoFault, GiveUp
<1> HIDE DEF listed
<1>7. CASE Fault /\ rp' = [rp EXCEPT !.pc = "failed"]
  <2>1. /\ rp' \in RpType /\ rp'.pc = "failed" /\ rp'.next = rp.next /\ rp'.logs = <<>>
        /\ rp'.table_numbers = <<>> /\ rp'.tables = {} /\ rp'.good = {}
    BY <1>2, <1>7 DEF RpType
  <2>2. rp'.next > 0 /\ IsFiniteSet(rp'.tables) /\ IsFiniteSet(rp'.good)
    BY <1>0, <1>2, <2>1 DEF RpTypes
  <2>3. Logs' = {} /\ Queue' = {} /\ Listed' = {}
    BY <2>1, EmptyElems DEF Logs, Queue, Listed
  <2>4. NextInv' /\ StartInv' /\ CopyInv' /\ SrcInv' /\ ListedInv' /\ AllInv' /\ DescriptorInv'
    BY <2>1, <2>3 DEF NextInv, StartInv, CopyInv, SrcInv, ListedInv, AllInv, DescriptorInv
  <2>5. LogsInv' /\ QueueInv'
    BY <2>1, <2>3, EmptyElems DEF LogsInv, QueueInv
  <2>6. NumberInv'
    BY <1>7, FaultCounts DEF NumberInv
  <2> QED
    BY <1>5, <2>1, <2>2, <2>4, <2>5, <2>6 DEF RepairCore, RpTypes
<1>8. CASE rcount' = rcount /\ listed
  <2>0. PICK ls \in SetToSeqs(numbers({"log"})), ts \in SetToSeqs(tables) :
           rp' = [rp EXCEPT !.pc = "logs", !.next = top + 1, !.logs = ls,
                            !.table_numbers = [i \in DOMAIN ts |-> ts[i][2]],
                            !.manifests = numbers({"manifest"})]
    BY <1>8 DEF listed
  <2> DEFINE tn == [i \in DOMAIN ts |-> ts[i][2]]
  <2>1. /\ IsFiniteSet(numbers({"log"})) /\ numbers({"log"}) \subseteq Nat
        /\ IsFiniteSet(counted) /\ counted \subseteq Nat /\ IsFiniteSet(tables)
        /\ numbers({"manifest"}) \in SUBSET Nat
    BY <1>0, NumbersFinite
  <2>2. top \in Nat /\ \A n \in counted : n <= top
    BY <2>1, MaxWithZero
  <2> DEFINE found == numbers({"log"})
  <2>3. /\ IsFiniteSet(found) /\ found \subseteq Nat /\ ls \in SetToSeqs(found)
        /\ IsFiniteSet(tables) /\ ts \in SetToSeqs(tables)
    BY <2>0, <2>1
  <2>4. /\ ls \in Seq(Nat) /\ Distinct(ls) /\ Elems(ls) = numbers({"log"})
    <3> HIDE DEF found
    <3>1. /\ ls \in Seq(found) /\ \A i \in 1..Len(ls) : ls[i] \in found
          /\ \A i, j \in 1..Len(ls) : i # j => ls[i] # ls[j]
          /\ \A n \in found : \E i \in 1..Len(ls) : ls[i] = n
      BY <2>3, Listing
    <3>2. ls \in Seq(Nat)
      BY <2>3, <3>1, SubSequences
    <3>3. Elems(ls) = found
      BY <3>1 DEF Elems
    <3> QED
      BY <3>1, <3>2, <3>3 DEF Distinct, found
  <2>5. /\ ts \in Seq(tables) /\ DOMAIN ts = 1..Len(ts) /\ Len(ts) \in Nat
        /\ \A i \in 1..Len(ts) : ts[i] \in tables
        /\ \A i, j \in 1..Len(ts) : i # j => ts[i] # ts[j]
        /\ \A f \in tables : \E i \in 1..Len(ts) : ts[i] = f
    <3> HIDE DEF tables
    <3>1. /\ ts \in Seq(tables) /\ DOMAIN ts = 1..Len(ts)
          /\ \A i \in 1..Len(ts) : ts[i] \in tables
          /\ \A i, j \in 1..Len(ts) : i # j => ts[i] # ts[j]
          /\ \A f \in tables : \E i \in 1..Len(ts) : ts[i] = f
      BY <2>3, Listing
    <3> QED
      BY <3>1
  <2>6. \A f \in tables : /\ f \in Dir /\ f[2] \in Nat /\ (f[1] = "ldb" => f = Ldb(f[2]))
                          /\ (f[1] = "sst" => f = Sst(f[2])) /\ f[1] \in {"ldb", "sst"}
    BY <1>0, NameParts DEF DirTypes
  <2>7. \A f, g \in tables : f[2] = g[2] => f = g
    BY <1>0, <1>3, <2>6 DEF NumberInv
  <2>8. tn \in Seq(Nat) /\ Len(tn) = Len(ts) /\ \A i \in 1..Len(ts) : tn[i] = ts[i][2]
    <3>1. tn \in [1..Len(ts) -> Nat]
      BY <2>5, <2>6
    <3> QED
      BY <2>5, <3>1
  <2> HIDE DEF tn
  <2>9. Distinct(tn)
    BY <2>5, <2>7, <2>8 DEF Distinct
  <2>10. \A n : n \in Elems(tn) <=> \E f \in tables : f[2] = n
    <3> HIDE DEF tables
    <3>1. \A n : n \in Elems(tn) <=> \E i \in 1..Len(ts) : ts[i][2] = n
      BY <2>8 DEF Elems
    <3> QED
      BY <2>5, <3>1
  <2> DEFINE mans == numbers({"manifest"})
  <2>11. rp' = [rp EXCEPT !.pc = "logs", !.next = top + 1, !.logs = ls, !.table_numbers = tn,
                          !.manifests = mans]
    BY <2>0 DEF tn
  <2>12. top + 1 \in Nat /\ top + 1 > 0 /\ mans \in SUBSET Nat /\ \A n \in counted : n \in Nat /\ n < top + 1
    <3> HIDE DEF counted, top
    <3>1. \A n \in counted : n \in Nat /\ n < top + 1
      BY <2>1, <2>2
    <3> QED
      BY <2>1, <2>2, <3>1
  <2> HIDE DEF mans, top
  <2>13. /\ rp' \in RpType /\ rp'.pc = "logs" /\ rp'.next = top + 1 /\ rp'.logs = ls
         /\ rp'.table_numbers = tn /\ rp'.tables = {} /\ rp'.good = {}
    BY <1>2, <2>4, <2>8, <2>11, <2>12 DEF RpType
  <2>14. rp'.next > 0 /\ IsFiniteSet(rp'.tables) /\ IsFiniteSet(rp'.good)
    BY <2>12, <2>13, FS_EmptySet
  <2>15. /\ Logs' = numbers({"log"}) /\ Listed' = {}
         /\ \A n : n \in Queue' <=> \E f \in tables : f[2] = n
    BY <2>4, <2>10, <2>13 DEF Logs, Listed, Queue
  <2>16. \A f \in Dir : f[1] # "manifest" => f[2] \in counted
    <3>1. \A f \in Dir : f[1] \in FileKinds
      BY <1>0, NameParts DEF DirTypes
    <3> QED
      BY <3>1 DEF FileKinds
  <2>17. \A n : (Ldb(n) \in Dir => Ldb(n) \in tables /\ Ldb(n)[2] = n)
             /\ (Sst(n) \in Dir => Sst(n) \in tables /\ Sst(n)[2] = n)
             /\ (Log(n) \in Dir <=> n \in numbers({"log"}))
    <3>1. \A n : Log(n) \in Dir => n \in numbers({"log"})
      BY NameParts
    <3>2. \A n \in numbers({"log"}) : Log(n) \in Dir
      BY <1>0, NameParts DEF DirTypes
    <3> QED
      BY <3>1, <3>2, NameParts
  <2>18. NextInv'
    <3>1. \A f \in Dir : f[1] # "manifest" => f[2] < top + 1
      BY <2>12, <2>16
    <3>2. ASSUME NEW n \in Nat, Ldb(n) \in Lost
          PROVE  n < top + 1
      <4>1. PICK m \in Nat : m >= n /\ Ldb(m) \in Dir
        BY <1>0, <1>3, <3>2 DEF NumberInv
      <4>2. m < top + 1
        BY <3>1, <4>1, NameParts
      <4> QED
        BY <2>12, <4>1, <4>2
    <3>3. \A f \in tables : f[2] < top + 1
      BY <2>6, <3>1
    <3> QED
      BY <1>5, <2>13, <2>15, <3>1, <3>2 DEF NextInv
  <2>19. StartInv' /\ CopyInv' /\ SrcInv' /\ ListedInv' /\ DescriptorInv'
    BY <2>13 DEF StartInv, CopyInv, SrcInv, ListedInv, DescriptorInv
  <2>20. LogsInv'
    BY <1>5, <2>4, <2>13, <2>15, <2>17 DEF LogsInv
  <2>21. QueueInv'
    <3>1. \A n \in Nat : Ldb(n) \notin Dir \/ Sst(n) \notin Dir
      BY <1>0, <1>3 DEF NumberInv
    <3>2. \A n \in Queue' : n \in Nat
      BY <2>6, <2>15
    <3> QED
      BY <1>5, <2>9, <2>13, <2>15, <3>1, <3>2 DEF QueueInv
  <2>22. NumberInv'
    BY <1>0, <1>1, <1>3, <1>5, <2>13 DEF NumberInv
  <2>23. AllInv'
    <3>1. SUFFICES ASSUME rcount.calls = 0, NEW e \in rcount.entries
                   PROVE  \/ \E n \in Listed' \cup Queue' : HasTable(n)' /\ e \in TableContent(n)'.good
                          \/ \E n \in RestLogs' : e \in rdir'[Log(n)].good
      BY <1>3 DEF AllInv
    <3>2. PICK f \in Dir : f[1] \in DataKinds /\ e \in rdir[f].good
      BY <1>0, <1>1, <3>1 DEF StartInv
    <3>3. CASE f[1] = "log"
      <4>1. f = Log(f[2])
        BY <1>0, <3>3, NameParts DEF DirTypes
      <4>2. f[2] \in RestLogs'
        BY <2>13, <2>15, <2>17, <4>1 DEF RestLogs
      <4> QED
        BY <1>1, <3>2, <4>1, <4>2
    <3>4. CASE f[1] \in {"ldb", "sst"}
      <4>1. f \in tables /\ f[2] \in Queue'
        BY <2>15, <3>4
      <4>2. f = (IF Ldb(f[2]) \in Dir THEN Ldb(f[2]) ELSE Sst(f[2]))
        BY <2>6, <2>7, <2>17, <4>1
      <4>3. HasTable(f[2])' /\ TableContent(f[2])' = rdir[f]
        BY <1>1, <1>5, <4>2 DEF HasTable, TableContent
      <4> QED
        BY <3>2, <4>1, <4>3
    <3> QED
      BY <3>2, <3>3, <3>4 DEF DataKinds
  <2> QED
    BY <1>5, <2>13, <2>14, <2>18, <2>19, <2>20, <2>21, <2>22, <2>23 DEF RepairCore, RpTypes
<1> QED
  BY <1>6, <1>7, <1>8

\* RepairDB is called again.
LEMMA CallAgainKeeps ==
    ASSUME CountTypes, RepairCore, Clean', CallAgain
    PROVE  RepairCore'
<1>0. DirTypes /\ RpTypes /\ NextInv /\ StartInv /\ LogsInv /\ QueueInv /\ CopyInv /\ SrcInv
       /\ ListedInv /\ LostInv /\ SafeInv /\ NumberInv /\ AllInv /\ DescriptorInv
  BY DEF RepairCore
<1>1. /\ rp' = Repairer /\ rdir' = rdir /\ rlost' = rlost
      /\ rcount'.entries = rcount.entries /\ rcount'.calls # 0 /\ rcount'.faults = 0 /\ rcount.faults = 0
      /\ rcount'.misreads = 0 /\ rcount.misreads = 0
  BY DEF CallAgain, CountTypes, Clean
<1>2. /\ rp' \in RpType /\ rp'.pc = "start" /\ rp'.logs = <<>> /\ rp'.table_numbers = <<>>
      /\ rp'.tables = {} /\ rp'.next > 0 /\ rp'.good = {}
  BY <1>1, EmptyElems DEF Repairer, RpType
<1>3. Logs' = {} /\ Queue' = {} /\ Listed' = {}
  BY <1>2, EmptyElems DEF Logs, Queue, Listed
<1>4. DataKept
  BY <1>0, <1>1, UntouchedKept
<1>5. /\ DirTypes' /\ LostInv' /\ SafeInv' /\ Dir' = Dir /\ Lost' = Lost
  BY <1>0, <1>3, <1>1, <1>4, DataKeeps DEF Dir, Lost
<1>6. NextInv' /\ CopyInv' /\ SrcInv' /\ ListedInv' /\ AllInv' /\ DescriptorInv'
  BY <1>2, <1>3 DEF NextInv, CopyInv, SrcInv, ListedInv, AllInv, DescriptorInv
<1>7. StartInv'
  BY <1>1 DEF StartInv
<1>8. LogsInv' /\ QueueInv'
  BY <1>2, <1>3, EmptyElems DEF LogsInv, QueueInv
<1>9. NumberInv'
  BY <1>0, <1>1, <1>2, <1>5 DEF NumberInv
<1> QED
  BY <1>2, <1>5, <1>6, <1>7, <1>8, <1>9, FS_EmptySet DEF RepairCore, RpTypes

\* No step forgets the entries; a call with no failure before or only failures
\* in the first was so before the step.
LEMMA CountsKept ==
    ASSUME CountTypes, RepairNext
    PROVE  CountTypes' /\ (Clean' => Clean)
<1>1. ASSUME Fault
      PROVE  CountTypes' /\ (Clean' => Clean)
  BY <1>1, FaultCounts DEF Clean
<1>2. ASSUME NoFault
      PROVE  CountTypes' /\ (Clean' => Clean)
  BY <1>2, NoFaultCounts
<1>3. ASSUME NEW f, ArchiveFile(f)
      PROVE  CountTypes' /\ (Clean' => Clean)
  BY <1>1, <1>2, <1>3 DEF ArchiveFile
<1>4. ASSUME CallAgain
      PROVE  CountTypes' /\ (Clean' => Clean)
  <2>1. rcount' = [rcount EXCEPT !.calls = @ + 1]
    BY <1>4 DEF CallAgain
  <2> QED
    BY <2>1 DEF CountTypes, Clean
<1>5. CASE ConvertLogToTable \/ ScanTable \/ RepairTable
  <2>1. Fault \/ \E good, seen : ReadsOf(good, seen)
    BY <1>5 DEF ConvertLogToTable, ScanTable, RepairTable
  <2> QED
    BY <1>1, <2>1, ReadCounts
<1>6. CASE FindFiles \/ LogsDone \/ ScanDone \/ OpenLogFails \/ FinishBuild \/ DropTable
  BY <1>1, <1>2, <1>6 DEF FindFiles, LogsDone, ScanDone, OpenLogFails, FinishBuild, DropTable
<1>7. CASE FinishCopy \/ RenameCopy \/ WriteDescriptor \/ InstallManifest \/ SetCurrentFile
  BY <1>1, <1>2, <1>7 DEF FinishCopy, RenameCopy, WriteDescriptor, InstallManifest, SetCurrentFile
<1>8. CASE ArchiveLog \/ ArchiveTable \/ ArchiveManifest
  BY <1>3, <1>8 DEF ArchiveLog, ArchiveTable, ArchiveManifest
<1> QED
  BY <1>4, <1>5, <1>6, <1>7, <1>8 DEF RepairNext

\* Every directory repair may find satisfies the invariant.
LEMMA RepairInitInv == RepairInit => RepairInv
<1> SUFFICES ASSUME RepairInit
             PROVE  RepairInv
  OBVIOUS
<1>1. /\ rdir \in RepairDirs /\ rlost = <<>> /\ rp = Repairer
      /\ rcount = [entries |-> EntriesIn(rdir, DataKinds), calls |-> 0, faults |-> 0, misreads |-> 0]
  BY DEF RepairInit
<1>2. /\ IsFiniteSet(Dir) /\ Dir \subseteq Names
      /\ \A f \in Dir : f[1] \in DataKinds => rdir[f] \in Contents /\ IsFiniteSet(rdir[f].good)
      /\ \A f, g \in Dir : f[1] = "ldb" /\ g[1] = "sst" => f[2] # g[2]
  BY <1>1, RepairConstants DEF Dir, Names, Contents
<1>3. Lost = {}
  BY <1>1 DEF Lost
<1>4. DirTypes
  BY <1>2, <1>3 DEF DirTypes
<1>5. /\ rp \in RpType /\ rp.pc = "start" /\ rp.logs = <<>> /\ rp.table_numbers = <<>>
      /\ rp.tables = {} /\ rp.next > 0 /\ rp.good = {}
  BY <1>1, EmptyElems DEF Repairer, RpType
<1>6. Logs = {} /\ Queue = {} /\ Listed = {}
  BY <1>5, EmptyElems DEF Logs, Queue, Listed
<1>7. \A e \in rcount.entries : \E f \in Dir : f[1] \in DataKinds /\ e \in rdir[f].good
  BY <1>1 DEF EntriesIn, Dir
<1>8. CountTypes
  <2>1. \A e \in rcount.entries : e \in Nat
    BY <1>2, <1>7 DEF Contents
  <2>2. rcount.entries = EntriesIn(rdir, DataKinds)
    BY <1>1
  <2>3. EntriesIn(rdir, DataKinds) \in SUBSET Nat
    BY <2>1, <2>2
  <2> QED
    BY <1>1, <2>3 DEF CountTypes
<1>9. NextInv /\ CopyInv /\ SrcInv /\ ListedInv /\ AllInv /\ DescriptorInv
  BY <1>5, <1>6 DEF NextInv, CopyInv, SrcInv, ListedInv, AllInv, DescriptorInv
<1>10. StartInv
  BY <1>1, <1>3, <1>7 DEF StartInv
<1>11. LogsInv /\ QueueInv
  BY <1>5, <1>6, EmptyElems DEF LogsInv, QueueInv
<1>12. LostInv
  BY <1>3 DEF LostInv
<1>13. SafeInv
  BY <1>7 DEF SafeInv, InDir
<1>14. NumberInv
  <2>1. \A n \in Nat : Ldb(n) \notin Dir \/ Sst(n) \notin Dir
    BY <1>2, NameParts
  <2> QED
    BY <1>3, <2>1 DEF NumberInv
<1>15. RpTypes
  BY <1>5, FS_EmptySet DEF RpTypes
<1> QED
  BY <1>4, <1>8, <1>9, <1>10, <1>11, <1>12, <1>13, <1>14, <1>15 DEF RepairInv, RepairCore

\* The invariant is inductive.
LEMMA RepairStepInv == RepairInv /\ [RepairNext]_repair_vars => RepairInv'
<1> SUFFICES ASSUME RepairInv, [RepairNext]_repair_vars
             PROVE  RepairInv'
  OBVIOUS
<1>1. CASE UNCHANGED repair_vars
  <2>1. rdir' = rdir /\ rlost' = rlost /\ rp' = rp /\ rcount' = rcount
    BY <1>1 DEF repair_vars
  <2>2. /\ Dir' = Dir /\ Lost' = Lost /\ Logs' = Logs /\ Queue' = Queue /\ Listed' = Listed
        /\ Number' = Number /\ LogName' = LogName /\ Edit' = Edit
    BY <2>1 DEF Dir, Lost, Logs, Queue, Listed, Number, LogName, Edit
  <2>3. RestLogs' = RestLogs
    BY <2>1, <2>2 DEF RestLogs
  <2>4. /\ \A n : HasTable(n)' <=> HasTable(n)
        /\ \A n : TableContent(n)' = TableContent(n)
    BY <2>1, <2>2 DEF HasTable, TableContent
  <2>5. \A e : (InDir(e) => InDir(e)') /\ (InLost(e) => InLost(e)')
    BY <2>1, <2>2 DEF InDir, InLost
  <2>6. CountTypes => CountTypes'
    BY <2>1 DEF CountTypes
  <2>7. Clean' => Clean
    BY <2>1 DEF Clean
  <2>8. (DirTypes => DirTypes') /\ (RpTypes => RpTypes')
    BY <2>1, <2>2 DEF DirTypes, RpTypes
  <2>9. (NextInv => NextInv') /\ (StartInv => StartInv')
    BY <2>1, <2>2 DEF NextInv, StartInv
  <2>10. (LogsInv => LogsInv') /\ (QueueInv => QueueInv')
    BY <2>1, <2>2 DEF LogsInv, QueueInv
  <2>11. CopyInv => CopyInv'
    BY <2>1, <2>2 DEF CopyInv
  <2>12. SrcInv => SrcInv'
    BY <2>1, <2>2 DEF SrcInv
  <2>13. ListedInv => ListedInv'
    BY <2>1, <2>2, <2>4 DEF ListedInv
  <2>14. (LostInv => LostInv') /\ (SafeInv => SafeInv')
    BY <2>1, <2>2, <2>5 DEF LostInv, SafeInv
  <2>15. NumberInv => NumberInv'
    BY <2>1, <2>2 DEF NumberInv
  <2>16. AllInv => AllInv'
    BY <2>1, <2>2, <2>3, <2>4 DEF AllInv
  <2>17. DescriptorInv => DescriptorInv'
    BY <2>1, <2>2 DEF DescriptorInv
  <2> QED
    BY <2>6, <2>7, <2>8, <2>9, <2>10, <2>11, <2>12, <2>13, <2>14, <2>15, <2>16, <2>17 DEF RepairInv,
       RepairCore
<1>2. CASE RepairNext
  <2>1. CountTypes /\ CountTypes' /\ (Clean' => Clean)
    BY <1>2, CountsKept DEF RepairInv
  <2>2. SUFFICES ASSUME Clean'
                 PROVE  RepairCore'
    BY <2>1 DEF RepairInv
  <2>3. RepairCore
    BY <2>1, <2>2 DEF RepairInv
  <2>4. CASE FindFiles
    BY <2>1, <2>2, <2>3, <2>4, FindFilesKeeps
  <2>5. CASE LogsDone
    BY <2>1, <2>2, <2>3, <2>5, LogsDoneKeeps
  <2>6. CASE OpenLogFails
    BY <2>1, <2>2, <2>3, <2>6, OpenLogFailsKeeps
  <2>7. CASE ConvertLogToTable
    BY <2>1, <2>2, <2>3, <2>7, ConvertLogKeeps
  <2>8. CASE FinishBuild
    BY <2>1, <2>2, <2>3, <2>8, FinishBuildKeeps
  <2>9. CASE ArchiveLog
    BY <2>1, <2>2, <2>3, <2>9, ArchiveLogKeeps
  <2>10. CASE ScanDone
    BY <2>1, <2>2, <2>3, <2>10, ScanDoneKeeps
  <2>11. CASE DropTable
    BY <2>1, <2>2, <2>3, <2>11, DropTableKeeps
  <2>12. CASE ScanTable
    BY <2>1, <2>2, <2>3, <2>12, ScanTableKeeps
  <2>13. CASE RepairTable
    BY <2>1, <2>2, <2>3, <2>13, RepairTableKeeps
  <2>14. CASE ArchiveTable
    BY <2>1, <2>2, <2>3, <2>14, ArchiveTableKeeps
  <2>15. CASE FinishCopy
    BY <2>1, <2>2, <2>3, <2>15, FinishCopyKeeps
  <2>16. CASE RenameCopy
    BY <2>1, <2>2, <2>3, <2>16, RenameCopyKeeps
  <2>17. CASE WriteDescriptor
    BY <2>1, <2>2, <2>3, <2>17, WriteDescriptorKeeps
  <2>18. CASE ArchiveManifest
    BY <2>1, <2>2, <2>3, <2>18, ArchiveManifestKeeps
  <2>19. CASE InstallManifest
    BY <2>1, <2>2, <2>3, <2>19, InstallManifestKeeps
  <2>20. CASE SetCurrentFile
    BY <2>1, <2>2, <2>3, <2>20, SetCurrentKeeps
  <2>21. CASE CallAgain
    BY <2>1, <2>2, <2>3, <2>21, CallAgainKeeps
  <2> QED
    BY <1>2, <2>4, <2>5, <2>6, <2>7, <2>8, <2>9, <2>10, <2>11, <2>12, <2>13, <2>14, <2>15, <2>16, <2>17,
       <2>18, <2>19, <2>20, <2>21 DEF RepairNext
<1> QED
  BY <1>1, <1>2

\* A file of the directory or of lost/ with an entry is counted by EntriesIn.
LEMMA SafeEntries ==
    ASSUME SafeInv
    PROVE  rcount.entries \subseteq EntriesIn(rdir, DataKinds) \cup EntriesIn(rlost, DataKinds)
<1>1. \A e : InDir(e) => e \in EntriesIn(rdir, DataKinds)
  BY DEF InDir, Dir, EntriesIn
<1>2. \A e : InLost(e) => e \in EntriesIn(rlost, DataKinds)
  BY DEF InLost, Lost, EntriesIn
<1> QED
  BY <1>1, <1>2 DEF SafeInv

\* SetLastSequence: no listed table holds a later entry.
LEMMA LastBounds ==
    ASSUME RpTypes
    PROVE  /\ Edit.last \in Nat
           /\ \A t \in rp.tables : t.max \in Nat /\ t.max <= Edit.last
<1> DEFINE maxes == {t.max : t \in rp.tables}
           ofTable == [t \in rp.tables |-> t.max]
<1>1. rp.tables \in SUBSET [number: Nat, max: Nat] /\ IsFiniteSet(rp.tables)
  BY DEF RpTypes, RpType
<1>2. maxes \in SUBSET Nat
  BY <1>1
<1>3. ofTable \in Surjection(rp.tables, maxes)
  BY DEF Surjection
<1>4. IsFiniteSet(maxes)
  BY <1>1, <1>3, FS_Surjection
<1>5. Max(maxes \cup {0}) \in Nat /\ \A k \in maxes : k <= Max(maxes \cup {0})
  BY <1>2, <1>4, MaxWithZero
<1>6. Edit.last = Max(maxes \cup {0})
  BY DEF Edit
<1> QED
  BY <1>1, <1>5, <1>6

\* The invariant gives what repair promises.
LEMMA RepairInvKeeps == RepairInv => RepairKeeps
<1> DEFINE held(n) == UNION {rdir[f].good : f \in TableFile(n)}
<1> SUFFICES ASSUME RepairInv
             PROVE  RepairKeeps
  OBVIOUS
<1>1. SUFFICES ASSUME Clean
               PROVE  /\ rcount.entries \subseteq EntriesIn(rdir, DataKinds) \cup EntriesIn(rlost, DataKinds)
                      /\ rp.pc = "done" =>
                           /\ \A n \in ListedNumbers : TableFile(n) # {} /\ \A f \in TableFile(n) : ~rdir[f].bad
                           /\ \A f \in DOMAIN rdir : f[1] # "manifest" => f[2] < Installed.next
                           /\ rcount.misreads = 0 => \A e \in ListedEntries : e <= Installed.last
                           /\ rcount.calls + rcount.faults + rcount.misreads = 0 =>
                                rcount.entries \subseteq ListedEntries
  <2>1. CountTypes
    BY DEF RepairInv
  <2>2. rcount.faults \in Nat /\ rcount.misreads \in Nat
    BY <2>1 DEF CountTypes
  <2> QED
    BY <2>2 DEF RepairKeeps, Clean
<1>2. /\ CountTypes /\ DirTypes /\ RpTypes /\ NextInv /\ LogsInv /\ QueueInv /\ ListedInv /\ SafeInv /\ AllInv
      /\ DescriptorInv
  BY <1>1 DEF RepairInv, RepairCore
<1>3. rcount.entries \subseteq EntriesIn(rdir, DataKinds) \cup EntriesIn(rlost, DataKinds)
  BY <1>2, SafeEntries
<1>4. SUFFICES ASSUME rp.pc = "done"
               PROVE  /\ \A n \in ListedNumbers : TableFile(n) # {} /\ \A f \in TableFile(n) : ~rdir[f].bad
                      /\ \A f \in DOMAIN rdir : f[1] # "manifest" => f[2] < Installed.next
                      /\ rcount.misreads = 0 => \A e \in ListedEntries : e <= Installed.last
                      /\ rcount.calls + rcount.faults + rcount.misreads = 0 =>
                           rcount.entries \subseteq ListedEntries
  BY <1>3
<1>5. Installed = Edit /\ Tmp \notin Dir
  BY <1>2, <1>4 DEF DescriptorInv, Current, Manifest1, Installed
<1>6. Installed.tables = rp.tables /\ Installed.next = rp.next /\ Installed.last = Edit.last
  BY <1>5 DEF Edit
<1>7. ListedNumbers = Listed
  BY <1>6 DEF Listed, ListedNumbers
<1>8. \A n : HasTable(n) => /\ TableFile(n) = {IF Ldb(n) \in Dir THEN Ldb(n) ELSE Sst(n)}
                            /\ held(n) = TableContent(n).good
  <2>1. ASSUME NEW n, HasTable(n)
        PROVE  TableFile(n) = {IF Ldb(n) \in Dir THEN Ldb(n) ELSE Sst(n)}
    BY <2>1 DEF HasTable, Dir, Ldb, Sst, TableFile
  <2>2. ASSUME NEW n, HasTable(n)
        PROVE  held(n) = TableContent(n).good
    <3>1. TableFile(n) = {IF Ldb(n) \in Dir THEN Ldb(n) ELSE Sst(n)}
      BY <2>1, <2>2
    <3>2. CASE Ldb(n) \in Dir
      BY <3>1, <3>2 DEF TableContent
    <3>3. CASE Ldb(n) \notin Dir
      BY <3>1, <3>3 DEF TableContent
    <3> QED
      BY <3>2, <3>3
  <2> QED
    BY <2>1, <2>2
<1>9. \A t \in rp.tables : /\ HasTable(t.number) /\ ~TableContent(t.number).bad
                           /\ \A e \in TableContent(t.number).good : e \in Nat /\ (rcount.misreads = 0 => e <= t.max)
  <2>1. \A t \in rp.tables : /\ HasTable(t.number) /\ ~TableContent(t.number).bad
                             /\ rcount.misreads = 0 => \A e \in TableContent(t.number).good : e <= t.max
    BY <1>2, <1>4 DEF ListedInv
  <2>2. \A n : HasTable(n) => TableContent(n) \in Contents
    <3>1. \A n : Ldb(n)[1] \in DataKinds /\ Sst(n)[1] \in DataKinds
      BY NameParts DEF DataKinds
    <3> QED
      BY <1>2, <3>1 DEF DirTypes, HasTable, TableContent
  <2>3. \A n : HasTable(n) => TableContent(n).good \in SUBSET Nat
    BY <2>2 DEF Contents
  <2> QED
    BY <2>1, <2>3
<1>10. \A n \in Listed : \E t \in rp.tables : t.number = n
  BY DEF Listed
<1>11. \A n \in ListedNumbers : HasTable(n)
  BY <1>7, <1>9, <1>10
<1>12. \A n \in ListedNumbers : TableFile(n) # {} /\ \A f \in TableFile(n) : ~rdir[f].bad
  <2> SUFFICES ASSUME NEW n \in ListedNumbers
               PROVE  TableFile(n) # {} /\ \A f \in TableFile(n) : ~rdir[f].bad
    OBVIOUS
  <2>1. ~TableContent(n).bad
    BY <1>7, <1>9, <1>10
  <2>2. TableFile(n) = {IF Ldb(n) \in Dir THEN Ldb(n) ELSE Sst(n)}
    BY <1>8, <1>11
  <2> QED
    BY <2>1, <2>2 DEF TableContent
<1>13. \A f \in DOMAIN rdir : f[1] # "manifest" => f[2] < Installed.next
  BY <1>2, <1>4, <1>5, <1>6 DEF NextInv, Dir
<1>u. \A e : e \in ListedEntries <=> \E n \in ListedNumbers : e \in held(n)
  BY DEF ListedEntries
<1> HIDE DEF held
<1>14. ASSUME rcount.misreads = 0, NEW e \in ListedEntries
       PROVE  e <= Installed.last
  <2>0. PICK n \in ListedNumbers : e \in held(n)
    BY <1>u
  <2>1. PICK t \in rp.tables : t.number = n
    BY <1>7, <1>10
  <2>2. e \in Nat /\ e <= t.max
    BY <1>8, <1>9, <1>11, <1>14, <2>0, <2>1
  <2>3. t.max \in Nat /\ t.max <= Edit.last
    BY <1>2, LastBounds
  <2>4. Edit.last \in Nat
    BY <1>2, LastBounds
  <2> QED
    BY <1>6, <2>2, <2>3, <2>4
<1>15. ASSUME rcount.calls + rcount.faults + rcount.misreads = 0
       PROVE  rcount.entries \subseteq ListedEntries
  <2>1. rcount.calls = 0 /\ rcount.faults = 0 /\ rcount.misreads = 0
    BY <1>2, <1>15 DEF CountTypes
  <2>2. rp.logs = <<>> /\ rp.table_numbers = <<>>
    BY <1>2, <1>4 DEF LogsInv, QueueInv
  <2>3. RestLogs = {} /\ Queue = {}
    BY <1>4, <2>2, EmptyElems DEF RestLogs, Logs, Queue
  <2>4. ASSUME NEW e \in rcount.entries
        PROVE  \E n \in ListedNumbers : e \in held(n)
    <3>1. PICK n \in Listed : HasTable(n) /\ e \in TableContent(n).good
      BY <1>2, <1>4, <2>1, <2>3 DEF AllInv
    <3> QED
      BY <1>7, <1>8, <3>1
  <2> QED
    BY <1>u, <2>4
<1> QED
  BY <1>12, <1>13, <1>14, <1>15

\* Whatever directory repair finds, however many calls without a failure are killed,
\* and however many operations, or reads, fail in the first call, RepairKeeps holds:
\* no readable entry is destroyed, and a repair that completes leaves a manifest the
\* next open can use, whose last sequence number is right if no read failed.
THEOREM RepairIsSafe == RepairSpec => []RepairKeeps
<1>1. RepairInit => RepairInv
  BY RepairInitInv
<1>2. RepairInv /\ [RepairNext]_repair_vars => RepairInv'
  BY RepairStepInv
<1>3. RepairInv => RepairKeeps
  BY RepairInvKeeps
<1> QED
  BY <1>1, <1>2, <1>3, PTL DEF RepairSpec
=============================================================================
