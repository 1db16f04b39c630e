--------------------------- MODULE RlcAmTx_proofs ---------------------------
(***************************************************************************)
(* What the operators of the transmitting RLC AM entity compute, for every *)
(* window that holds the SDUs a, ..., t - 1.                               *)
(***************************************************************************)
EXTENDS RlcAmTx, RlcAmPdu_proofs

Entry == [id : SduIds, retx_count : Int, next_so : Nat]

\* SDU i, as long as it waits for its acknowledgement.
SduOk(r, i) == r \in Entry /\ r.id = i

LEMMA UpToFacts ==
  ASSUME NEW a \in Nat, NEW b \in Nat
  PROVE  /\ UpTo(a, b) \in Nat /\ UpTo(a, b) <= a /\ UpTo(a, b) <= b
         /\ UpTo(a, b) = a \/ UpTo(a, b) = b
<1>1. {a, b} \in SUBSET Nat /\ {a, b} # {}
  OBVIOUS
<1>2. UpTo(a, b) \in {a, b} /\ \A m \in {a, b} : UpTo(a, b) <= m
  BY <1>1, LeastMin DEF UpTo
<1> QED
  BY <1>2

-----------------------------------------------------------------------------
(* Retransmission counts.                                                  *)

LEMMA IncrementFacts ==
  ASSUME NEW w, NEW sns, NEW sn \in DOMAIN w, w[sn] \in Entry
  PROVE  /\ Increment(w, sns)[sn] \in Entry
         /\ Increment(w, sns)[sn].id = w[sn].id
         /\ Increment(w, sns)[sn].next_so = w[sn].next_so
         /\ Increment(w, sns)[sn].retx_count =
              IF sn \in sns THEN w[sn].retx_count + 1 ELSE w[sn].retx_count
<1>1. Increment(w, sns)[sn] =
        IF sn \in sns THEN [w[sn] EXCEPT !.retx_count = @ + 1] ELSE w[sn]
  BY DEF Increment
<1> QED
  BY <1>1 DEF Entry

\* A count goes back, or it is at its start.
LEMMA RewindFacts ==
  ASSUME NEW w, NEW sn \in DOMAIN w, w[sn] \in Entry, Len(retx_queue) \in Nat,
         DOMAIN retx_queue = 1 .. Len(retx_queue)
  PROVE  /\ Rewind(w)[sn] \in Entry
         /\ Rewind(w)[sn].id = w[sn].id
         /\ Rewind(w)[sn].next_so = w[sn].next_so
         /\ \/ Rewind(w)[sn].retx_count <= w[sn].retx_count
            \/ Rewind(w)[sn].retx_count = NotStarted
<1> DEFINE Before(i) == IF i = 1 THEN retx_sn ELSE retx_queue[i - 1].sn
           Runs(x)   == {i \in DOMAIN retx_queue : retx_queue[i].sn = x /\ Before(i) # x}
           n         == Cardinality(Runs(sn))
           count     == w[sn].retx_count
           two       == {NotStarted, count - n}
<1>1. Rewind(w)[sn] = [w[sn] EXCEPT !.retx_count = Max({NotStarted, @ - Cardinality(Runs(sn))})]
  BY DEF Rewind
<1>2. n \in Nat
  <2>1. Runs(sn) \subseteq 1 .. Len(retx_queue)
    OBVIOUS
  <2>2. IsFiniteSet(1 .. Len(retx_queue))
    BY FS_Interval
  <2> HIDE DEF Runs
  <2> QED
    BY <2>1, <2>2, FS_Subset, FS_CardinalityType
<1> HIDE DEF n
<1>3. count \in Int
  BY DEF Entry
<1>4. Max(two) \in two
  <2>1. \E a \in Int : \A x \in two : x <= a
    <3>1. \A x \in two : x <= NotStarted \/ x <= count - n
      BY <1>2, <1>3 DEF NotStarted
    <3>2. CASE NotStarted <= count - n
      BY <1>2, <1>3, <3>2 DEF NotStarted
    <3>3. CASE ~(NotStarted <= count - n)
      BY <1>2, <1>3, <3>3 DEF NotStarted
    <3> QED
      BY <3>2, <3>3
  <2>2. two \in SUBSET Int /\ two # {}
    BY <1>2, <1>3 DEF NotStarted
  <2> QED
    BY <2>1, <2>2, GreatestMax
<1>5. Rewind(w)[sn] = [w[sn] EXCEPT !.retx_count = Max(two)]
  BY <1>1 DEF n
<1>6. Max(two) \in Int /\ (Max(two) <= count \/ Max(two) = NotStarted)
  BY <1>2, <1>3, <1>4 DEF NotStarted
<1> HIDE DEF two
<1> QED
  BY <1>5, <1>6 DEF Entry

-----------------------------------------------------------------------------
(* A status PDU whose NACKs are of the SDUs b, ..., at - 1.                *)

LEMMA AckStopFacts ==
  ASSUME NEW s, NEW b \in Nat, NEW at \in Nat, Spans(s, b, at)
  PROVE  AckStop(s) = SnOf(b)
<1>1. \A nack \in s.nacks : \E i \in b .. at - 1 :
        nack.sn = SnOf(i) /\ Behind(s, nack) = at - i
  <2> SUFFICES ASSUME NEW nack \in s.nacks
               PROVE  \E i \in b .. at - 1 : nack.sn = SnOf(i) /\ Behind(s, nack) = at - i
    OBVIOUS
  <2>1. PICK i \in b .. at - 1 : nack.sn = SnOf(i)
    BY DEF Spans
  <2>2. i \in Nat /\ i <= at /\ at < i + SnMod
    BY ConstantFacts DEF Spans
  <2>3. Base(SnOf(at), SnOf(i)) = at - i
    BY <2>2, BaseAhead
  <2> QED
    BY <2>1, <2>3 DEF Spans, Behind
<1>2. CASE s.nacks = {}
  BY <1>2 DEF Spans, AckStop
<1>3. CASE s.nacks # {}
  <2>1. at > b
    BY <1>1, <1>3
  <2>2. PICK first \in s.nacks : first.sn = SnOf(b)
    BY <2>1 DEF Spans
  <2>3. Base(SnOf(at), SnOf(b)) = at - b
    BY <2>1, BaseAhead, ConstantFacts DEF Spans
  <2>4. Behind(s, first) = at - b
    BY <2>2, <2>3 DEF Spans, Behind
  <2>5. \A m \in s.nacks : Behind(s, m) <= Behind(s, first)
    BY <1>1, <2>4
  <2>6. FirstNack(s) \in s.nacks /\ Behind(s, first) <= Behind(s, FirstNack(s))
    BY <2>5 DEF FirstNack
  <2>7. PICK i \in b .. at - 1 : FirstNack(s).sn = SnOf(i) /\ Behind(s, FirstNack(s)) = at - i
    BY <1>1, <2>6
  <2>8. i = b
    BY <2>4, <2>6, <2>7
  <2> QED
    BY <1>3, <2>7, <2>8 DEF AckStop
<1> QED
  BY <1>2, <1>3

\* What it acknowledges.
LEMMA AckedFacts ==
  ASSUME NEW s, NEW a \in Nat, NEW b \in Nat, NEW t \in Nat,
         a <= b, b <= t, t <= a + Window,
         tx_next_ack = SnOf(a), DOMAIN tx_window = SnRange(a, t), AckStop(s) = SnOf(b)
  PROVE  AckedSns(s) = SnRange(a, b)
<1>1. TxBase(AckStop(s)) = b - a
  BY BaseAhead, ConstantFacts DEF TxBase
<1>2. \A sn \in Sn : TxBase(sn) \in 0 .. SnMod - 1 /\ (sn \in SnRange(a, b) <=> TxBase(sn) < b - a)
  <2>1. b <= a + SnMod
    BY ConstantFacts
  <2> QED
    BY <2>1, SnAhead, InRange DEF TxBase
<1>3. \A k \in 0 .. b - a - 1 : InWindow(Plus(tx_next_ack, k))
  <2> TAKE k \in 0 .. b - a - 1
  <2>1. k \in Int /\ a + k \in Nat /\ a + k \in a .. t - 1
    OBVIOUS
  <2>2. Plus(SnOf(a), k) = SnOf(a + k)
    BY <2>1, PlusOf
  <2> QED
    BY <2>1, <2>2 DEF InWindow, SnRange
<1>4. ASSUME NEW sn \in AckedSns(s) PROVE sn \in SnRange(a, b)
  <2>1. sn \in Sn /\ TxBase(sn) \in 0 .. SnMod - 1
    BY <1>2 DEF AckedSns
  <2>2. TxBase(sn) \in 0 .. TxBase(sn)
    BY <2>1, ConstantFacts
  <2>3. TxBase(sn) < TxBase(AckStop(s))
    BY <2>2 DEF AckedSns
  <2> QED
    BY <1>1, <1>2, <2>1, <2>3
<1>5. ASSUME NEW sn \in SnRange(a, b) PROVE sn \in AckedSns(s)
  <2>1. sn \in Sn
    BY RangeType
  <2>2. TxBase(sn) \in 0 .. SnMod - 1 /\ TxBase(sn) < b - a
    BY <1>2, <2>1
  <2>3. \A k \in 0 .. TxBase(sn) : k < b - a /\ k \in 0 .. b - a - 1
    BY <2>2, ConstantFacts
  <2> QED
    BY <1>1, <1>3, <2>1, <2>3 DEF AckedSns
<1> QED
  BY <1>4, <1>5
=============================================================================
