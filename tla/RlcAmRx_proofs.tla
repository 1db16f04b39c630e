--------------------------- MODULE RlcAmRx_proofs ---------------------------
(***************************************************************************)
(* What the operators of the receiving RLC AM entity compute, for every    *)
(* window that holds bytes of the SDUs p, ..., h - 1 and nothing else.     *)
(***************************************************************************)
EXTENDS RlcAmRx, RlcAmPdu_proofs

\* The bytes of SDU i that are there, and whether the last is one of them.
EntryOk(r, i) ==
  /\ r = [got |-> r.got, end |-> r.end]
  /\ r.got \subseteq Whole(i) /\ r.got # {}
  /\ r.end \in BOOLEAN
  /\ r.end <=> <<i, Length(i) - 1>> \in r.got

WindowOk(w, p, h) ==
  /\ DOMAIN w \subseteq SnRange(p, h)
  /\ \A i \in p .. h - 1 : SnOf(i) \in DOMAIN w => EntryOk(w[SnOf(i)], i)

-----------------------------------------------------------------------------
(* Bytes.                                                                  *)

LEMMA OffsetFacts ==
  ASSUME NEW i \in SduIds, NEW r, EntryOk(r, i)
  PROVE  /\ Offsets(r.got) \subseteq 0 .. Length(i) - 1 /\ Offsets(r.got) # {}
         /\ \A o : o \in Offsets(r.got) <=> <<i, o>> \in r.got
<1>1. \A b \in r.got : b = <<i, b[2]>> /\ b[2] \in 0 .. Length(i) - 1
  BY DEF EntryOk, Whole
<1>2. \A o : o \in Offsets(r.got) <=> <<i, o>> \in r.got
  <2> TAKE o
  <2>1. ASSUME o \in Offsets(r.got) PROVE <<i, o>> \in r.got
    <3>1. PICK b \in r.got : o = b[2]
      BY <2>1 DEF Offsets
    <3> QED
      BY <1>1, <3>1
  <2>2. ASSUME <<i, o>> \in r.got PROVE o \in Offsets(r.got)
    <3>1. <<i, o>>[2] = o
      OBVIOUS
    <3> QED
      BY <2>2, <3>1 DEF Offsets
  <2> QED
    BY <2>1, <2>2
<1>3. Offsets(r.got) \subseteq 0 .. Length(i) - 1
  BY <1>1 DEF Offsets
<1>4. Offsets(r.got) # {}
  BY DEF Offsets, EntryOk
<1> QED
  BY <1>2, <1>3, <1>4

\* An SDU is fully received when each of its bytes is there.
LEMMA FullIsWhole ==
  ASSUME NEW w, NEW p \in Nat, NEW h \in Nat, WindowOk(w, p, h),
         NEW i \in p .. h - 1, i \in SduIds
  PROVE  FullyReceived(w, SnOf(i))
           <=> SnOf(i) \in DOMAIN w /\ w[SnOf(i)].got = Whole(i)
<1> SUFFICES ASSUME SnOf(i) \in DOMAIN w
             PROVE  w[SnOf(i)].end /\ Contiguous(w[SnOf(i)].got)
                      <=> w[SnOf(i)].got = Whole(i)
  BY DEF FullyReceived
<1> DEFINE r == w[SnOf(i)]
<1>1. EntryOk(r, i)
  BY DEF WindowOk
<1> HIDE DEF r
<1>2. Length(i) \in Nat /\ Length(i) > 0
  BY ConstantFacts
<1>3. ASSUME r.end, Contiguous(r.got) PROVE r.got = Whole(i)
  <2>1. Length(i) - 1 \in Offsets(r.got)
    BY <1>1, <1>3, OffsetFacts DEF EntryOk
  <2>2. 0 .. Length(i) - 1 \subseteq Offsets(r.got)
    BY <1>3, <2>1 DEF Contiguous
  <2>3. \A o \in 0 .. Length(i) - 1 : <<i, o>> \in r.got
    BY <1>1, <2>2, OffsetFacts
  <2>4. Whole(i) \subseteq r.got
    BY <2>3 DEF Whole
  <2> QED
    BY <1>1, <2>4 DEF EntryOk
<1>4. ASSUME r.got = Whole(i) PROVE r.end /\ Contiguous(r.got)
  <2>1. <<i, Length(i) - 1>> \in Whole(i)
    BY <1>2 DEF Whole
  <2>2. r.end
    BY <1>1, <1>4, <2>1 DEF EntryOk
  <2>3. Offsets(r.got) \subseteq 0 .. Length(i) - 1
    BY <1>1, OffsetFacts
  <2>4. 0 .. Length(i) - 1 \subseteq Offsets(r.got)
    <3>1. \A o \in 0 .. Length(i) - 1 : <<i, o>> \in r.got
      BY <1>4 DEF Whole
    <3> QED
      BY <1>1, <3>1, OffsetFacts
  <2>5. Contiguous(r.got)
    <3> SUFFICES ASSUME NEW o \in Offsets(r.got) PROVE 0 .. o \subseteq Offsets(r.got)
      BY DEF Contiguous
    <3>1. 0 .. o \subseteq 0 .. Length(i) - 1
      BY <1>2, <2>3
    <3> QED
      BY <2>4, <3>1
  <2> QED
    BY <2>2, <2>5
<1> QED
  BY <1>3, <1>4 DEF r

-----------------------------------------------------------------------------
(* What a PDU adds to the window.                                          *)

Stored(sn) == IF sn \in DOMAIN rx_window THEN rx_window[sn].got ELSE {}

LEMMA StoreFacts ==
  ASSUME NEW pdu, NEW i \in SduIds, pdu.id = i,
         pdu.from \in Nat, pdu.to \in Nat,
         pdu.from <= pdu.to, pdu.to < Length(i),
         pdu.sn \in DOMAIN rx_window => EntryOk(rx_window[pdu.sn], i)
  PROVE  /\ DOMAIN Store(pdu) = DOMAIN rx_window \cup {pdu.sn}
         /\ \A sn \in DOMAIN rx_window : sn # pdu.sn => Store(pdu)[sn] = rx_window[sn]
         /\ EntryOk(Store(pdu)[pdu.sn], i)
         /\ Store(pdu)[pdu.sn].got = Stored(pdu.sn) \cup Bytes(pdu)
<1> DEFINE old  == IF pdu.sn \in DOMAIN rx_window THEN rx_window[pdu.sn]
                   ELSE [got |-> {}, end |-> FALSE]
           more == {b \in Bytes(pdu) : b[2] \notin Offsets(old.got)}
           new  == IF IsFull(pdu) THEN [got |-> Bytes(pdu), end |-> TRUE]
                   ELSE [got |-> old.got \cup more,
                         end |-> old.end \/ (Stores(pdu) /\ IsLast(pdu))]
<1>1. /\ DOMAIN Store(pdu) = DOMAIN rx_window \cup {pdu.sn}
      /\ \A sn \in DOMAIN rx_window : sn # pdu.sn => Store(pdu)[sn] = rx_window[sn]
      /\ Store(pdu)[pdu.sn] = new
  <2>1. Store(pdu) = Put(rx_window, pdu.sn, new)
    BY DEF Store
  <2> HIDE DEF new, old, more
  <2> QED
    BY <2>1 DEF Put
<1>2. old.got = Stored(pdu.sn)
  BY DEF Stored
<1>3. /\ \A o : o \in Offsets(old.got) <=> <<i, o>> \in old.got
      /\ old.got \subseteq Whole(i)
      /\ old.end \in BOOLEAN
      /\ old.end <=> <<i, Length(i) - 1>> \in old.got
  <2>1. CASE pdu.sn \in DOMAIN rx_window
    BY <2>1, OffsetFacts DEF EntryOk
  <2>2. CASE pdu.sn \notin DOMAIN rx_window
    BY <2>2 DEF Offsets
  <2> QED
    BY <2>1, <2>2
<1>4. Length(i) \in Nat /\ Length(i) > 0
  BY ConstantFacts
<1>5. \A b : b \in Bytes(pdu) <=> b = <<i, b[2]>> /\ b[2] \in pdu.from .. pdu.to
  BY DEF Bytes
<1>6. Bytes(pdu) \subseteq Whole(i) /\ Bytes(pdu) # {}
  <2>1. pdu.from .. pdu.to \subseteq 0 .. Length(i) - 1
    BY <1>4
  <2>2. <<i, pdu.from>> \in Bytes(pdu)
    BY <1>4 DEF Bytes
  <2> QED
    BY <2>1, <2>2 DEF Bytes, Whole
<1>7. <<i, Length(i) - 1>> \in Bytes(pdu) <=> IsLast(pdu)
  BY <1>4 DEF Bytes, IsLast
<1>8. IsFull(pdu) => Bytes(pdu) = Whole(i)
  BY DEF IsFull, IsLast, Bytes, Whole
<1>9. IsFull(pdu) => IsLast(pdu)
  BY DEF IsFull
<1>10. ~Stores(pdu) =>
         /\ pdu.sn \in DOMAIN rx_window
         /\ \A b \in Bytes(pdu) : b \in old.got
  <2> SUFFICES ASSUME ~Stores(pdu), NEW b \in Bytes(pdu)
               PROVE  pdu.sn \in DOMAIN rx_window /\ b \in old.got
    BY <1>6
  <2>1. pdu.sn \in DOMAIN rx_window /\ pdu.from .. pdu.to \subseteq Offsets(old.got)
    BY DEF Stores
  <2>2. b[2] \in Offsets(old.got) /\ b = <<i, b[2]>>
    BY <1>5, <2>1
  <2> QED
    BY <1>3, <2>1, <2>2
<1> HIDE DEF old
<1>11. old.got \cup more = old.got \cup Bytes(pdu)
  <2>1. \A b \in Bytes(pdu) : b \notin more => b \in old.got
    <3> TAKE b \in Bytes(pdu)
    <3>1. b = <<i, b[2]>>
      BY <1>5
    <3> HAVE b \notin more
    <3>2. b[2] \in Offsets(old.got)
      OBVIOUS
    <3> QED
      BY <1>3, <3>1, <3>2
  <2> QED
    BY <2>1
<1> HIDE DEF more
<1>12. CASE IsFull(pdu)
  <2>1. new = [got |-> Bytes(pdu), end |-> TRUE]
    BY <1>12
  <2> HIDE DEF new
  <2>2. new.got = Bytes(pdu) /\ new.end = TRUE /\ new = [got |-> new.got, end |-> new.end]
    BY <2>1
  <2>3. EntryOk(new, i)
    BY <1>6, <1>7, <1>9, <1>12, <2>2 DEF EntryOk
  <2>4. new.got = Stored(pdu.sn) \cup Bytes(pdu)
    BY <1>2, <1>3, <1>8, <1>12, <2>2
  <2> QED
    BY <1>1, <2>3, <2>4
<1>13. CASE ~IsFull(pdu)
  <2>1. new = [got |-> old.got \cup Bytes(pdu),
               end |-> (old.end \/ (Stores(pdu) /\ IsLast(pdu)))]
    BY <1>11, <1>13
  <2> HIDE DEF new
  <2>2. /\ new.got = old.got \cup Bytes(pdu)
        /\ new.end = (old.end \/ (Stores(pdu) /\ IsLast(pdu)))
        /\ new = [got |-> new.got, end |-> new.end]
    BY <2>1
  <2>3. new.end \in BOOLEAN
    BY <2>2
  <2>4. new.end <=> <<i, Length(i) - 1>> \in new.got
    <3>1. new.end <=> (old.end \/ (Stores(pdu) /\ IsLast(pdu)))
      BY <2>2
    <3>2. <<i, Length(i) - 1>> \in new.got <=> (old.end \/ IsLast(pdu))
      BY <1>3, <1>7, <2>2
    <3>3. ~Stores(pdu) /\ IsLast(pdu) => old.end
      BY <1>3, <1>7, <1>10
    <3> QED
      BY <3>1, <3>2, <3>3
  <2>5. EntryOk(new, i)
    BY <1>3, <1>6, <2>2, <2>3, <2>4 DEF EntryOk
  <2> QED
    BY <1>1, <1>2, <2>2, <2>5
<1> QED
  BY <1>12, <1>13

\* A PDU whose bytes are all there leaves the window as it is.
LEMMA NothingStored ==
  ASSUME NEW pdu, NEW i \in SduIds, pdu.id = i,
         pdu.from \in Nat, pdu.to \in Nat,
         pdu.from <= pdu.to, pdu.to < Length(i),
         pdu.sn \in DOMAIN rx_window => EntryOk(rx_window[pdu.sn], i),
         rx_window = [sn \in DOMAIN rx_window |-> rx_window[sn]],
         ~Stores(pdu)
  PROVE  Store(pdu) = rx_window
<1> DEFINE old == rx_window[pdu.sn]
           new == Store(pdu)[pdu.sn]
<1>1. /\ pdu.sn \in DOMAIN rx_window /\ ~IsFull(pdu)
      /\ pdu.from .. pdu.to \subseteq Offsets(old.got)
  BY DEF Stores
<1>2. EntryOk(old, i) /\ EntryOk(new, i)
  BY <1>1, StoreFacts
<1>3. Bytes(pdu) \subseteq old.got
  <2> SUFFICES ASSUME NEW o \in pdu.from .. pdu.to PROVE <<i, o>> \in old.got
    BY DEF Bytes
  <2> QED
    BY <1>1, <1>2, OffsetFacts
<1>4. new.got = old.got
  BY <1>1, <1>3, StoreFacts DEF Stored
<1>5. new.end = old.end
  BY <1>2, <1>4 DEF EntryOk
<1>6. new = old
  BY <1>2, <1>4, <1>5 DEF EntryOk
<1>7. Store(pdu) = [sn \in DOMAIN rx_window |-> Store(pdu)[sn]]
  BY <1>1 DEF Store, Put
<1>8. \A sn \in DOMAIN rx_window : Store(pdu)[sn] = rx_window[sn]
  BY <1>6, StoreFacts
<1> QED
  BY <1>7, <1>8

-----------------------------------------------------------------------------
(* The first SDU that is not complete, and the report.                     *)

LEMMA FirstIncompleteFacts ==
  ASSUME NEW w, NEW p \in Nat, NEW f \in Nat, NEW t \in Nat,
         p <= f, f <= t, t <= p + Window
  PROVE  \E g \in f .. t :
           /\ FirstIncomplete(w, SnOf(f), SnOf(t), SnOf(p)) = SnOf(g)
           /\ \A i \in f .. g - 1 : FullyReceived(w, SnOf(i))
           /\ g = t \/ ~FullyReceived(w, SnOf(g))
<1> DEFINE Stop(k) == \/ Base(Plus(SnOf(f), k), SnOf(p)) >= Base(SnOf(t), SnOf(p))
                      \/ ~FullyReceived(w, Plus(SnOf(f), k))
           stops   == {k \in 0 .. Window : Stop(k)}
<1>1. Base(SnOf(t), SnOf(p)) = t - p
  BY BaseAhead, ConstantFacts
<1>2. \A k \in 0 .. t - f : /\ k \in 0 .. Window
                            /\ Plus(SnOf(f), k) = SnOf(f + k)
                            /\ Base(SnOf(f + k), SnOf(p)) = f + k - p
  <2> TAKE k \in 0 .. t - f
  <2>1. k \in 0 .. Window /\ k \in Int /\ f + k \in Nat /\ p <= f + k /\ f + k < p + SnMod
    BY ConstantFacts
  <2>2. Base(SnOf(f + k), SnOf(p)) = (f + k) - p
    BY <2>1, BaseAhead
  <2> QED
    BY <2>1, <2>2, PlusOf
<1>3. t - f \in stops /\ stops \subseteq Nat
  <2>1. t - f \in 0 .. t - f /\ f + (t - f) - p = t - p
    OBVIOUS
  <2>2. Base(Plus(SnOf(f), t - f), SnOf(p)) = t - p
    BY <1>2, <2>1
  <2>3. t - f \in 0 .. Window
    BY <1>2, <2>1
  <2> QED
    BY <1>1, <2>2, <2>3, ConstantFacts
<1> DEFINE m == Min(stops)
<1>4. m \in stops /\ \A k \in stops : m <= k
  BY <1>3, LeastMin
<1>5. m \in Nat /\ m <= t - f /\ FirstIncomplete(w, SnOf(f), SnOf(t), SnOf(p)) = Plus(SnOf(f), m)
  BY <1>3, <1>4 DEF FirstIncomplete
<1>6. m \in 0 .. t - f /\ Stop(m)
  BY <1>4, <1>5
<1>7. \A k \in 0 .. m - 1 : ~Stop(k)
  <2> SUFFICES ASSUME NEW k \in 0 .. m - 1, Stop(k) PROVE FALSE
    OBVIOUS
  <2>1. k \in 0 .. t - f
    BY <1>5
  <2>2. k \in stops
    BY <1>2, <2>1
  <2>3. m <= k
    BY <1>4, <2>2
  <2> QED
    BY <1>5, <2>3
<1> HIDE DEF stops, m
<1> DEFINE g == f + m
<1>8. g \in f .. t /\ FirstIncomplete(w, SnOf(f), SnOf(t), SnOf(p)) = SnOf(g)
  BY <1>2, <1>5, <1>6
<1>9. \A i \in f .. g - 1 : FullyReceived(w, SnOf(i))
  <2> SUFFICES ASSUME NEW i \in f .. g - 1 PROVE FullyReceived(w, SnOf(i))
    OBVIOUS
  <2>1. i - f \in 0 .. m - 1 /\ i - f \in 0 .. t - f /\ f + (i - f) = i
    BY <1>5
  <2>2. ~Stop(i - f)
    BY <1>7, <2>1
  <2> QED
    BY <1>2, <2>1, <2>2
<1>10. g = t \/ ~FullyReceived(w, SnOf(g))
  <2>1. g - p >= t - p \/ ~FullyReceived(w, SnOf(g))
    BY <1>1, <1>2, <1>6
  <2> QED
    BY <1>8, <2>1
<1> QED
  BY <1>8, <1>9, <1>10

\* What a NACK of SDU i says is true of the window.
NackTrue(w, nack, i) ==
  /\ nack \in Nack /\ nack.sn = SnOf(i)
  /\ nack.to # EndOfSdu =>
       /\ nack.from <= nack.to
       /\ SnOf(i) \in DOMAIN w /\ <<i, nack.to + 1>> \in w[SnOf(i)].got
  /\ nack.to = EndOfSdu /\ nack.from = 0 => SnOf(i) \notin DOMAIN w
  /\ nack.to = EndOfSdu => nack.from < Length(i)

LEMMA NackFacts ==
  ASSUME NEW w, NEW p \in Nat, NEW h \in Nat, WindowOk(w, p, h),
         NEW i \in p .. h - 1, i \in SduIds, ~FullyReceived(w, SnOf(i))
  PROVE  /\ NacksOf(w, SnOf(i)) # {}
         /\ \A nack \in NacksOf(w, SnOf(i)) : NackTrue(w, nack, i)
<1> DEFINE sn == SnOf(i)
<1>1. sn \in Sn /\ Length(i) \in Nat /\ Length(i) > 0 /\ EndOfSdu = -1
  BY SnType, ConstantFacts DEF EndOfSdu
<1>2. CASE sn \notin DOMAIN w
  <2>1. NacksOf(w, sn) = {[sn |-> sn, from |-> 0, to |-> EndOfSdu]}
    BY <1>2 DEF NacksOf
  <2>2. [sn |-> sn, from |-> 0, to |-> EndOfSdu] \in Nack
    BY <1>1 DEF Nack
  <2> QED
    BY <1>1, <1>2, <2>1, <2>2 DEF NackTrue
<1>3. CASE sn \in DOMAIN w
  <2> DEFINE r       == w[sn]
             offs    == Offsets(r.got)
             starts  == {o \in offs : o > 0 /\ o - 1 \notin offs}
             Lower(o) == {-1} \cup {b \in offs : b < o}
             gap(o)  == [sn |-> sn, to |-> o - 1, from |-> Max(Lower(o)) + 1]
             rest    == [sn |-> sn, from |-> Max(offs) + 1, to |-> EndOfSdu]
  <2>1. EntryOk(r, i)
    BY <1>3 DEF WindowOk
  <2>2. NacksOf(w, sn) = {gap(o) : o \in starts} \cup (IF r.end THEN {} ELSE {rest})
    BY <1>3 DEF NacksOf
  <2>3. /\ offs \subseteq 0 .. Length(i) - 1 /\ offs # {}
        /\ \A o : o \in offs <=> <<i, o>> \in r.got
    BY <2>1, OffsetFacts
  <2> HIDE DEF r, offs
  <2>10. \A o \in offs : o \in Nat /\ o < Length(i)
    BY <1>1, <2>3
  <2>4. \A o \in starts : NackTrue(w, gap(o), i)
    <3> SUFFICES ASSUME NEW o \in starts PROVE NackTrue(w, gap(o), i)
      OBVIOUS
    <3>1. o \in Nat /\ o > 0 /\ o \in offs /\ o - 1 \notin offs
      BY <2>10
    <3> DEFINE lower == Lower(o)
    <3>2. /\ \A x \in lower : x = -1 \/ (x \in Nat /\ x < o /\ x \in offs)
          /\ -1 \in lower
      BY <2>10
    <3> HIDE DEF lower
    <3>3. \A x \in lower : x \in Int /\ x >= -1 /\ x <= o - 1 /\ x # o - 1
      BY <3>1, <3>2
    <3>8. Max(lower) \in lower
      <4>1. lower \in SUBSET Int /\ lower # {} /\ o - 1 \in Int
            /\ \A x \in lower : x <= o - 1
        BY <3>1, <3>2, <3>3
      <4> QED
        BY <4>1, GreatestMax
    <3>4. Max(Lower(o)) \in Int /\ Max(Lower(o)) >= -1 /\ Max(Lower(o)) <= o - 1
          /\ Max(Lower(o)) # o - 1
      BY <3>3, <3>8 DEF lower
    <3>5. gap(o).from \in Nat /\ gap(o).to \in Nat /\ gap(o).from <= gap(o).to
          /\ gap(o).to # EndOfSdu /\ gap(o).to + 1 = o /\ gap(o).sn = sn
      BY <1>1, <3>1, <3>4
    <3>6. gap(o) \in Nack
      BY <1>1, <3>5 DEF Nack
    <3>7. <<i, gap(o).to + 1>> \in w[sn].got
      BY <2>3, <3>1, <3>5 DEF r
    <3> HIDE DEF gap
    <3> QED
      BY <1>3, <3>5, <3>6, <3>7 DEF NackTrue
  <2>5. ~r.end => NackTrue(w, rest, i)
    <3> SUFFICES ASSUME ~r.end PROVE NackTrue(w, rest, i)
      OBVIOUS
    <3>1. Length(i) - 1 \in Int /\ \A x \in offs : x \in Int /\ x <= Length(i) - 1
      BY <1>1, <2>10
    <3>2. Max(offs) \in offs
      BY <2>3, <3>1, GreatestMax
    <3>3. Length(i) - 1 \notin offs
      BY <2>1, <2>3 DEF EntryOk
    <3>4. Max(offs) \in Nat /\ Max(offs) + 1 > 0 /\ Max(offs) + 1 < Length(i)
      BY <1>1, <2>10, <3>2, <3>3
    <3>5. rest.from \in Nat /\ rest.from > 0 /\ rest.from < Length(i) /\ rest.sn = sn
          /\ rest.to = EndOfSdu
      BY <3>4
    <3>6. rest \in Nack
      BY <1>1, <3>5 DEF Nack
    <3> HIDE DEF rest
    <3> QED
      BY <1>3, <3>5, <3>6 DEF NackTrue
  <2>6. r.end => starts # {}
    <3> SUFFICES ASSUME r.end PROVE \E o \in offs : o > 0 /\ o - 1 \notin offs
      OBVIOUS
    <3>1. PICK o \in offs : ~(0 .. o \subseteq offs)
      BY <1>3 DEF FullyReceived, Contiguous, r, offs
    <3>2. PICK k \in 0 .. o : k \notin offs
      BY <3>1
    <3> DEFINE above == {b \in offs : b > k}
    <3>3. o \in Nat /\ k \in Nat /\ above \subseteq Nat /\ o \in above
      BY <2>10, <3>1, <3>2
    <3>4. PICK b \in above : \A c \in above : b <= c
      BY <3>3, LeastNat
    <3>5. b \in offs /\ b > 0 /\ b - 1 \notin offs
      <4>1. b \in Nat /\ b > k
        BY <3>3, <3>4
      <4>2. b - 1 \in offs => b - 1 = k \/ b - 1 \in above
        BY <3>3, <4>1
      <4> QED
        BY <3>2, <3>3, <3>4, <4>1, <4>2
    <3> QED
      BY <3>5
  <2> HIDE DEF rest, gap, starts
  <2> QED
    BY <2>2, <2>4, <2>5, <2>6
<1> QED
  BY <1>2, <1>3

\* The report covers the SDUs p, ..., at - 1.
LEMMA ReportFacts ==
  ASSUME NEW w, NEW p \in Nat, NEW s \in Nat, p <= s, s <= p + Window
  PROVE  \E at \in p .. s :
           /\ Report(w, SnOf(p), SnOf(s)).ack_sn = SnOf(at)
           /\ at <= p + MaxSnPerStatus
           /\ s > p => at > p
           /\ \A nack : nack \in Report(w, SnOf(p), SnOf(s)).nacks <=>
                \E i \in p .. at - 1 : /\ ~FullyReceived(w, SnOf(i))
                                       /\ nack \in NacksOf(w, SnOf(i))
<1> DEFINE at   == IF s - p > MaxSnPerStatus THEN p + MaxSnPerStatus ELSE s
           stop == IF Base(SnOf(s), SnOf(p)) > MaxSnPerStatus
                     THEN Plus(SnOf(p), MaxSnPerStatus) ELSE SnOf(s)
           missing == {k \in 0 .. Base(stop, SnOf(p)) - 1 :
                         ~FullyReceived(w, Plus(SnOf(p), k))}
           nacks == UNION {NacksOf(w, Plus(SnOf(p), k)) : k \in missing}
<1>1. MaxSnPerStatus \in Nat /\ MaxSnPerStatus >= 1 /\ MaxSnPerStatus <= Window
  BY RxAssumption, ConstantFacts
<1>2. Base(SnOf(s), SnOf(p)) = s - p
  BY BaseAhead, ConstantFacts
<1>3. /\ at \in p .. s /\ at \in Nat /\ at <= p + MaxSnPerStatus /\ (s > p => at > p)
      /\ at < p + SnMod
  BY <1>1, ConstantFacts
<1>4. stop = SnOf(at)
  <2>1. Plus(SnOf(p), MaxSnPerStatus) = SnOf(p + MaxSnPerStatus)
    BY <1>1, PlusOf
  <2> QED
    BY <1>2, <2>1
<1>5. Report(w, SnOf(p), SnOf(s)) = [ack_sn |-> stop, nacks |-> nacks]
  BY DEF Report
<1> HIDE DEF at, stop
<1>6. Base(stop, SnOf(p)) = at - p
  BY <1>3, <1>4, BaseAhead
<1>7. \A k \in 0 .. at - p - 1 : Plus(SnOf(p), k) = SnOf(p + k) /\ p + k \in p .. at - 1
  <2> TAKE k \in 0 .. at - p - 1
  <2>1. k \in Int /\ p + k \in Nat /\ p + k \in p .. at - 1
    BY <1>3
  <2> QED
    BY <2>1, PlusOf
<1>8. ASSUME NEW nack, nack \in nacks
      PROVE  \E i \in p .. at - 1 : /\ ~FullyReceived(w, SnOf(i))
                                    /\ nack \in NacksOf(w, SnOf(i))
  <2>1. PICK k \in missing : nack \in NacksOf(w, Plus(SnOf(p), k))
    BY <1>8
  <2>2. k \in 0 .. at - p - 1 /\ ~FullyReceived(w, Plus(SnOf(p), k))
    BY <1>6, <2>1
  <2> QED
    BY <1>7, <2>1, <2>2
<1>9. ASSUME NEW nack, NEW i \in p .. at - 1, ~FullyReceived(w, SnOf(i)),
             nack \in NacksOf(w, SnOf(i))
      PROVE  nack \in nacks
  <2>1. i - p \in 0 .. at - p - 1 /\ p + (i - p) = i
    BY <1>3
  <2>2. Plus(SnOf(p), i - p) = SnOf(i)
    BY <1>7, <2>1
  <2>3. i - p \in missing
    BY <1>6, <1>9, <2>1, <2>2
  <2> QED
    BY <1>9, <2>2, <2>3
<1> HIDE DEF nacks
<1>10. \A nack : nack \in nacks <=> \E i \in p .. at - 1 : /\ ~FullyReceived(w, SnOf(i))
                                                         /\ nack \in NacksOf(w, SnOf(i))
  BY <1>8, <1>9
<1> QED
  BY <1>3, <1>4, <1>5, <1>10

\* What is left of the report after trim, and the report itself.
LEMMA TrimmedFacts ==
  ASSUME NEW p \in Nat, NEW s \in Nat, NEW h \in Nat,
         p <= s, s <= h, h <= p + Window, h <= Len(Lens),
         WindowOk(rx_window, p, h), ~FullyReceived(rx_window, SnOf(p)),
         report = Report(rx_window, SnOf(p), SnOf(s)),
         NEW sn \in {report.ack_sn} \cup {nack.sn : nack \in report.nacks}
  PROVE  \E at \in p .. s :
           /\ Spans(Trimmed(sn), p, at)
           /\ sn = SnOf(at)
           /\ \A nack \in Trimmed(sn).nacks :
                \E i \in p .. at - 1 : NackTrue(rx_window, nack, i)
<1>1. PICK last \in p .. s :
        /\ report.ack_sn = SnOf(last)
        /\ last <= p + MaxSnPerStatus
        /\ \A nack : nack \in report.nacks <=>
             \E i \in p .. last - 1 : /\ ~FullyReceived(rx_window, SnOf(i))
                                      /\ nack \in NacksOf(rx_window, SnOf(i))
  <2>1. p <= s /\ s <= p + Window
    BY ConstantFacts
  <2> QED
    BY <2>1, ReportFacts
<1>2. /\ last \in Nat /\ p <= last /\ last <= s
      /\ last <= p + Window /\ last <= h /\ last <= Len(Lens)
  BY RxAssumption, ConstantFacts
<1>3. \A i \in p .. last - 1 :
        i \in Nat /\ i \in p .. h - 1 /\ i \in SduIds /\ i < last /\ last < i + SnMod
  BY <1>2, ConstantFacts DEF SduIds
<1>4. \A nack \in report.nacks : \E i \in p .. last - 1 :
        /\ nack.sn = SnOf(i) /\ NackTrue(rx_window, nack, i)
        /\ Behind(report, nack) = last - i
  <2> SUFFICES ASSUME NEW nack \in report.nacks
               PROVE  \E i \in p .. last - 1 :
                        /\ nack.sn = SnOf(i) /\ NackTrue(rx_window, nack, i)
                        /\ Behind(report, nack) = last - i
    OBVIOUS
  <2>1. PICK i \in p .. last - 1 : /\ ~FullyReceived(rx_window, SnOf(i))
                                   /\ nack \in NacksOf(rx_window, SnOf(i))
    BY <1>1
  <2>2. NackTrue(rx_window, nack, i)
    BY <1>3, <2>1, NackFacts
  <2>3. nack.sn = SnOf(i)
    BY <2>2 DEF NackTrue
  <2>4. Base(SnOf(last), SnOf(i)) = last - i
    BY <1>2, <1>3, BaseAhead
  <2> QED
    BY <1>1, <2>2, <2>3, <2>4 DEF Behind
<1>5. PICK at \in p .. last : sn = SnOf(at)
  <2>1. CASE sn = report.ack_sn
    BY <1>1, <1>2, <2>1
  <2>2. CASE \E nack \in report.nacks : sn = nack.sn
    BY <1>2, <1>4, <2>2
  <2> QED
    BY <2>1, <2>2
<1>6. at \in Nat /\ at <= last /\ last < at + SnMod /\ Base(SnOf(last), SnOf(at)) = last - at
  <2>1. at \in Nat /\ at <= last /\ last < at + SnMod
    BY <1>2, ConstantFacts
  <2> QED
    BY <1>2, <2>1, BaseAhead
<1>7. \A nack : nack \in Trimmed(sn).nacks <=>
        nack \in report.nacks /\ Behind(report, nack) > last - at
  BY <1>1, <1>5, <1>6 DEF Trimmed
<1>8. \A nack \in Trimmed(sn).nacks : \E i \in p .. at - 1 :
        nack.sn = SnOf(i) /\ NackTrue(rx_window, nack, i)
  <2> SUFFICES ASSUME NEW nack \in Trimmed(sn).nacks
               PROVE  \E i \in p .. at - 1 : nack.sn = SnOf(i) /\ NackTrue(rx_window, nack, i)
    OBVIOUS
  <2>1. nack \in report.nacks /\ Behind(report, nack) > last - at
    BY <1>7
  <2>2. PICK i \in p .. last - 1 : /\ nack.sn = SnOf(i) /\ NackTrue(rx_window, nack, i)
                                   /\ Behind(report, nack) = last - i
    BY <1>4, <2>1
  <2>3. i \in p .. at - 1
    BY <1>2, <1>6, <2>1, <2>2
  <2> QED
    BY <2>2, <2>3
<1>9. at > p => \E nack \in Trimmed(sn).nacks : nack.sn = SnOf(p)
  <2> SUFFICES ASSUME at > p PROVE \E nack \in Trimmed(sn).nacks : nack.sn = SnOf(p)
    OBVIOUS
  <2>1. p \in p .. last - 1
    BY <1>2, <1>6
  <2>2. PICK nack \in NacksOf(rx_window, SnOf(p)) : NackTrue(rx_window, nack, p)
    BY <1>3, <2>1, NackFacts
  <2>3. nack \in report.nacks /\ nack.sn = SnOf(p)
    BY <1>1, <2>1, <2>2 DEF NackTrue
  <2>4. Base(SnOf(last), SnOf(p)) = last - p
    BY <1>2, <1>3, <2>1, BaseAhead
  <2>5. Behind(report, nack) = last - p
    BY <1>1, <2>3, <2>4 DEF Behind
  <2>6. last - p > last - at
    BY <1>2, <1>6
  <2> QED
    BY <1>7, <2>3, <2>5, <2>6
<1>10. at \in p .. s /\ p <= at /\ at <= p + Window
  BY <1>1, <1>2, <1>5, <1>6, ConstantFacts
<1>11. Trimmed(sn).ack_sn = SnOf(at)
  BY <1>5 DEF Trimmed
<1>12. Spans(Trimmed(sn), p, at)
  BY <1>8, <1>9, <1>10, <1>11 DEF Spans
<1> QED
  BY <1>5, <1>8, <1>10, <1>12
=============================================================================
