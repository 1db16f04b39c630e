--------------------------- MODULE RlcAmPdu_proofs ---------------------------
(***************************************************************************)
(* What the proofs about RLC AM know of sequence numbers, for every number *)
(* of SNs and every window: the SN of the i-th SDU, how far SNs are from   *)
(* each other, and how many of them there are.                             *)
(***************************************************************************)
EXTENDS RlcAmPdu, FiniteSetsExt, FiniteSetTheorems, WellFoundedInduction, TLAPS

-----------------------------------------------------------------------------
(* Least and greatest numbers.                                             *)

LEMMA LeastNat ==
  ASSUME NEW S \in SUBSET Nat, S # {}
  PROVE  \E n \in S : \A m \in S : n <= m
<1> DEFINE R == OpToRel(<, Nat)
<1>1. IsWellFoundedOn(R, Nat)
  BY NatLessThanWellFounded, Zenon
<1>2. R = {ss \in Nat \X Nat : ss[1] < ss[2]}
  BY DEF OpToRel
<1> HIDE DEF R
<1>3. PICK n \in S : \A m \in S : ~(<<m, n>> \in R)
  BY <1>1, WFMin
<1>4. \A m \in Nat : m < n => <<m, n>> \in R
  BY <1>2
<1>5. \A m \in S : ~(m < n)
  BY <1>3, <1>4
<1> QED
  BY <1>5

LEMMA LeastMin ==
  ASSUME NEW S \in SUBSET Nat, S # {}
  PROVE  Min(S) \in S /\ \A m \in S : Min(S) <= m
<1>1. PICK n \in S : \A m \in S : n <= m
  BY LeastNat
<1> QED
  BY <1>1 DEF Min

LEMMA GreatestMax ==
  ASSUME NEW S \in SUBSET Int, S # {}, NEW a \in Int, \A x \in S : x <= a
  PROVE  Max(S) \in S /\ \A m \in S : m <= Max(S)
<1> DEFINE T == {n \in Nat : a - n \in S}
<1>1. T # {}
  <2>1. PICK x \in S : TRUE
    OBVIOUS
  <2>2. a - x \in Nat /\ a - (a - x) = x
    BY <2>1
  <2> QED
    BY <2>1, <2>2
<1>2. PICK n \in T : \A m \in T : n <= m
  BY <1>1, LeastNat
<1>3. \A x \in S : x <= a - n
  <2> SUFFICES ASSUME NEW x \in S PROVE x <= a - n
    OBVIOUS
  <2>1. a - x \in Nat /\ a - (a - x) = x
    OBVIOUS
  <2>2. a - x \in T
    BY <2>1
  <2> QED
    BY <1>2, <2>2
<1>4. a - n \in S /\ a - n \in Int
  BY <1>2
<1> HIDE DEF T
<1>5. \E x \in S : \A y \in S : x >= y
  BY <1>3, <1>4
<1> QED
  BY <1>5 DEF Max

-----------------------------------------------------------------------------
(* The SN of the i-th SDU.                                                 *)

SnOf(i) == (Start + i) % SnMod

LEMMA ConstantFacts ==
  /\ Window \in Nat /\ Window > 1
  /\ SnMod \in Nat /\ SnMod > 0 /\ SnMod >= 2 * Window
  /\ Start \in Nat /\ Start < SnMod
  /\ Len(Lens) \in Nat
  /\ \A i \in SduIds : i \in Nat /\ i < Len(Lens) /\ Length(i) \in Nat /\ Length(i) > 0
BY AmAssumption DEF SduIds, Length

\* A remainder is known by what it differs from the number by.
LEMMA ModUnique ==
  ASSUME NEW n \in Nat, n > 0, NEW q \in Int, NEW r \in Nat, r < n
  PROVE  (n * q + r) % n = r
<1> DEFINE a == n * q + r
           p == a \div n
           s == a % n
<1>1. a \in Int /\ p \in Int /\ s \in Nat /\ s < n /\ a = n * p + s
  OBVIOUS
<1>2. n * (q - p) = s - r
  BY <1>1
<1> HIDE DEF a, p, s
<1>3. ~(q - p >= 1)
  <2> SUFFICES ASSUME q - p >= 1 PROVE FALSE
    OBVIOUS
  <2>1. n * (q - p) >= n
    BY <1>1
  <2> QED
    BY <1>1, <1>2, <2>1
<1>4. ~(q - p <= -1)
  <2> SUFFICES ASSUME q - p <= -1 PROVE FALSE
    OBVIOUS
  <2>1. n * (q - p) <= -n
    BY <1>1
  <2> QED
    BY <1>1, <1>2, <2>1
<1>5. q - p = 0
  BY <1>1, <1>3, <1>4
<1>6. s = r
  BY <1>1, <1>2, <1>5
<1> QED
  BY <1>6 DEF s, a

LEMMA Division ==
  ASSUME NEW n \in Nat, n > 0, NEW x \in Int
  PROVE  /\ x % n \in Nat /\ x % n < n /\ x \div n \in Int
         /\ x = n * (x \div n) + (x % n)
OBVIOUS

LEMMA Distribute ==
  \A n, a, b, c \in Int :
    /\ n * a \in Int
    /\ n * (a - b) = n * a - n * b /\ n * (a - b + c) = n * a - n * b + n * c
OBVIOUS

LEMMA SnType ==
  ASSUME NEW i \in Nat
  PROVE  SnOf(i) \in Sn /\ SnOf(i) \in Nat /\ SnOf(i) < SnMod
BY ConstantFacts DEF SnOf, Sn

LEMMA BaseOf ==
  ASSUME NEW i \in Nat, NEW j \in Nat, NEW q \in Int, NEW r \in Nat, r < SnMod,
         j - i = SnMod * q + r
  PROVE  Base(SnOf(j), SnOf(i)) = r
<1> DEFINE di == (Start + i) \div SnMod
           dj == (Start + j) \div SnMod
<1>1. /\ di \in Int /\ dj \in Int
      /\ Start + i = SnMod * di + SnOf(i) /\ Start + j = SnMod * dj + SnOf(j)
  BY ConstantFacts DEF SnOf
<1> HIDE DEF di, dj
<1>2. SnOf(j) - SnOf(i) = SnMod * (di - dj + q) + r
  <2>1. /\ SnMod * (di - dj + q) = SnMod * di - SnMod * dj + SnMod * q
        /\ SnMod * di \in Int /\ SnMod * dj \in Int /\ SnMod * q \in Int
    BY <1>1, Distribute, ConstantFacts
  <2>2. SnOf(i) \in Nat /\ SnOf(j) \in Nat
    BY SnType
  <2> QED
    BY <1>1, <2>1, <2>2, ConstantFacts
<1>3. (SnMod * (di - dj + q) + r) % SnMod = r
  BY <1>1, ModUnique, ConstantFacts
<1> QED
  BY <1>2, <1>3 DEF Base

LEMMA BaseAhead ==
  ASSUME NEW i \in Nat, NEW j \in Nat, i <= j, j < i + SnMod
  PROVE  Base(SnOf(j), SnOf(i)) = j - i
<1>1. j - i \in Nat /\ j - i < SnMod /\ j - i = SnMod * 0 + (j - i)
  BY ConstantFacts
<1> QED
  BY <1>1, BaseOf

LEMMA BaseBehind ==
  ASSUME NEW i \in Nat, NEW j \in Nat, j < i, i <= j + SnMod
  PROVE  Base(SnOf(j), SnOf(i)) = SnMod - (i - j)
<1> DEFINE r == SnMod - (i - j)
<1>1. r \in Nat /\ r < SnMod /\ j - i = SnMod * (-1) + r
  BY ConstantFacts
<1> QED
  BY <1>1, BaseOf

LEMMA BaseType ==
  ASSUME NEW sn \in Int, NEW edge \in Int
  PROVE  Base(sn, edge) \in Nat /\ Base(sn, edge) < SnMod
BY ConstantFacts DEF Base

LEMMA PlusOf ==
  ASSUME NEW i \in Nat, NEW n \in Int, i + n \in Nat
  PROVE  Plus(SnOf(i), n) = SnOf(i + n)
<1> DEFINE di == (Start + i) \div SnMod
           e  == (Start + i + n) \div SnMod
<1>1. /\ di \in Int /\ e \in Int
      /\ Start + i = SnMod * di + SnOf(i)
      /\ Start + i + n = SnMod * e + SnOf(i + n)
  BY ConstantFacts DEF SnOf
<1> HIDE DEF di, e
<1>2. SnOf(i) + n = SnMod * (e - di) + SnOf(i + n)
  <2>1. /\ SnMod * (e - di) = SnMod * e - SnMod * di
        /\ SnMod * e \in Int /\ SnMod * di \in Int
    BY <1>1, Distribute, ConstantFacts
  <2>2. SnOf(i) \in Nat /\ SnOf(i + n) \in Nat
    BY SnType
  <2> QED
    BY <1>1, <2>1, <2>2, ConstantFacts
<1>3. (SnMod * (e - di) + SnOf(i + n)) % SnMod = SnOf(i + n)
  <2>1. e - di \in Int /\ SnOf(i + n) \in Nat /\ SnOf(i + n) < SnMod
    BY <1>1, SnType
  <2> QED
    BY <2>1, ModUnique, ConstantFacts
<1> QED
  BY <1>2, <1>3 DEF Plus

\* SnMod more is the same SN.
LEMMA SnWraps ==
  ASSUME NEW i \in Nat
  PROVE  SnOf(i + SnMod) = SnOf(i)
<1>1. /\ ((Start + i) \div SnMod) + 1 \in Int
      /\ Start + (i + SnMod) = SnMod * (((Start + i) \div SnMod) + 1) + SnOf(i)
  BY ConstantFacts DEF SnOf
<1>2. (SnMod * (((Start + i) \div SnMod) + 1) + SnOf(i)) % SnMod = SnOf(i)
  BY <1>1, ModUnique, SnType, ConstantFacts
<1> QED
  BY <1>1, <1>2 DEF SnOf

LEMMA PlusBack ==
  ASSUME NEW i \in Nat, i > 0
  PROVE  Plus(SnOf(i), SnMod - 1) = SnOf(i - 1)
<1>1. Plus(SnOf(i), SnMod - 1) = SnOf((i - 1) + SnMod)
  <2>1. i + (SnMod - 1) = (i - 1) + SnMod /\ SnMod - 1 \in Int /\ i + (SnMod - 1) \in Nat
    BY ConstantFacts
  <2>2. Plus(SnOf(i), SnMod - 1) = SnOf(i + (SnMod - 1))
    BY <2>1, PlusOf
  <2> QED
    BY <2>1, <2>2
<1> QED
  BY <1>1, SnWraps

\* Every SN is that of an SDU that lies ahead of a given one, less than SnMod.
LEMMA SnAhead ==
  ASSUME NEW i \in Nat, NEW sn \in Sn
  PROVE  /\ Base(sn, SnOf(i)) \in 0 .. SnMod - 1
         /\ sn = SnOf(i + Base(sn, SnOf(i)))
<1> DEFINE b  == Base(sn, SnOf(i))
           di == (Start + i) \div SnMod
           e  == (sn - SnOf(i)) \div SnMod
<1>1. sn \in Nat /\ sn < SnMod /\ SnOf(i) \in Nat
  BY ConstantFacts, SnType DEF Sn
<1>2. /\ di \in Int /\ Start + i = SnMod * di + SnOf(i)
  BY ConstantFacts DEF SnOf
<1>3. b \in Nat /\ b < SnMod /\ e \in Int /\ sn - SnOf(i) = SnMod * e + b
  <2>1. sn - SnOf(i) \in Int
    BY <1>1
  <2> QED
    BY <2>1, Division, ConstantFacts DEF Base
<1> HIDE DEF b, di, e
<1>4. Start + (i + b) = SnMod * (di - e) + sn
  <2>1. SnMod * (di - e) = SnMod * di - SnMod * e
    BY <1>2, <1>3, Distribute, ConstantFacts
  <2> QED
    BY <1>1, <1>2, <1>3, <2>1, ConstantFacts
<1>5. (SnMod * (di - e) + sn) % SnMod = sn
  <2>1. di - e \in Int
    BY <1>2, <1>3
  <2> QED
    BY <1>1, <2>1, ModUnique, ConstantFacts
<1>6. SnOf(i + b) = sn
  BY <1>4, <1>5 DEF SnOf
<1>7. b \in 0 .. SnMod - 1
  BY <1>3, ConstantFacts
<1> QED
  BY <1>6, <1>7 DEF b

LEMMA SnDiffer ==
  ASSUME NEW i \in Nat, NEW j \in Nat, i < j, j < i + SnMod
  PROVE  SnOf(i) # SnOf(j)
<1>1. Base(SnOf(j), SnOf(i)) = j - i
  BY BaseAhead
<1>2. Base(SnOf(i), SnOf(i)) = 0
  BY BaseAhead, ConstantFacts
<1>3. j - i # 0
  OBVIOUS
<1> QED
  BY <1>1, <1>2, <1>3

\* The SNs of the SDUs a, ..., b - 1, and how many there are.
SnRange(a, b) == {SnOf(i) : i \in a .. b - 1}

LEMMA InRange ==
  ASSUME NEW a \in Nat, NEW b \in Nat, b <= a + SnMod, NEW sn \in Sn
  PROVE  sn \in SnRange(a, b) <=> Base(sn, SnOf(a)) < b - a
<1>1. ASSUME sn \in SnRange(a, b) PROVE Base(sn, SnOf(a)) < b - a
  <2>1. PICK i \in a .. b - 1 : sn = SnOf(i)
    BY <1>1 DEF SnRange
  <2>2. i \in Nat /\ a <= i /\ i < a + SnMod /\ i < b
    BY ConstantFacts
  <2>3. Base(sn, SnOf(a)) = i - a
    BY <2>1, <2>2, BaseAhead
  <2> QED
    BY <2>2, <2>3
<1>2. ASSUME Base(sn, SnOf(a)) < b - a PROVE sn \in SnRange(a, b)
  <2> DEFINE i == a + Base(sn, SnOf(a))
  <2>1. Base(sn, SnOf(a)) \in 0 .. SnMod - 1 /\ sn = SnOf(i)
    BY SnAhead
  <2>2. i \in a .. b - 1
    BY <1>2, <2>1, ConstantFacts
  <2> QED
    BY <2>1, <2>2 DEF SnRange
<1> QED
  BY <1>1, <1>2

LEMMA RangeType ==
  ASSUME NEW a \in Nat, NEW b \in Nat
  PROVE  SnRange(a, b) \subseteq Sn
<1> SUFFICES ASSUME NEW i \in a .. b - 1 PROVE SnOf(i) \in Sn
  BY DEF SnRange
<1>1. i \in Nat
  OBVIOUS
<1> QED
  BY <1>1, SnType

LEMMA RangeSize ==
  ASSUME NEW a \in Nat, NEW b \in Nat, a <= b, b <= a + SnMod
  PROVE  IsFiniteSet(SnRange(a, b)) /\ Cardinality(SnRange(a, b)) = b - a
<1> DEFINE D == a .. b - 1
           f == [i \in D |-> SnOf(i)]
<1>1. f \in Surjection(D, SnRange(a, b))
  BY DEF SnRange, Surjection
<1>2. f \in Injection(D, SnRange(a, b))
  <2>1. ASSUME NEW i \in D, NEW j \in D, f[i] = f[j] PROVE i = j
    <3>1. i \in Nat /\ j \in Nat /\ i < j + SnMod /\ j < i + SnMod
      BY ConstantFacts
    <3>2. SnOf(i) = SnOf(j)
      BY <2>1
    <3>3. ~(i < j)
      BY <3>1, <3>2, SnDiffer
    <3>4. ~(j < i)
      BY <3>1, <3>2, SnDiffer
    <3> QED
      BY <3>1, <3>3, <3>4
  <2> QED
    BY <1>1, <2>1 DEF Surjection, Injection, IsInjective
<1>3. ExistsBijection(D, SnRange(a, b))
  BY <1>1, <1>2 DEF Bijection, ExistsBijection
<1>4. IsFiniteSet(D) /\ Cardinality(D) = b - a
  <2>1. b - 1 \in Int /\ a \in Int
    OBVIOUS
  <2>2. IsFiniteSet(D) /\ Cardinality(D) = IF a > b - 1 THEN 0 ELSE (b - 1) - a + 1
    BY <2>1, FS_Interval
  <2>3. (IF a > b - 1 THEN 0 ELSE (b - 1) - a + 1) = b - a
    OBVIOUS
  <2> QED
    BY <2>2, <2>3
<1> QED
  BY <1>3, <1>4, FS_Bijection

\* The SN of an SDU in a range determines the SDU.
LEMMA RangeUnique ==
  ASSUME NEW a \in Nat, NEW b \in Nat, b <= a + SnMod,
         NEW i \in a .. b - 1, NEW j \in a .. b - 1, SnOf(i) = SnOf(j)
  PROVE  i = j
<1>1. i \in Nat /\ j \in Nat /\ i < j + SnMod /\ j < i + SnMod
  BY ConstantFacts
<1>2. ~(i < j) /\ ~(j < i)
  BY <1>1, SnDiffer
<1> QED
  BY <1>1, <1>2

LEMMA PutFacts ==
  ASSUME NEW window, NEW sn, NEW entry
  PROVE  /\ DOMAIN Put(window, sn, entry) = DOMAIN window \cup {sn}
         /\ Put(window, sn, entry)[sn] = entry
         /\ \A k \in DOMAIN window : k # sn => Put(window, sn, entry)[k] = window[k]
BY DEF Put

\* The NACKs of a status PDU are of SDUs b, ..., at - 1, and b is one of them
\* if there are any.
Spans(s, b, at) ==
  /\ b <= at /\ at <= b + Window
  /\ s.ack_sn = SnOf(at)
  /\ \A nack \in s.nacks : \E i \in b .. at - 1 : nack.sn = SnOf(i)
  /\ at > b => \E nack \in s.nacks : nack.sn = SnOf(b)
=============================================================================
