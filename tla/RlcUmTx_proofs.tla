---------------------------- MODULE RlcUmTx_proofs ----------------------------
(***************************************************************************)
(* Proofs about the RLC UM transmitter and its SDU queue, for every        *)
(* capacity, every set of PDCP SNs and any number of SDUs: whose a slot    *)
(* is, the types, the order in which SDUs are read, the refinement of      *)
(* SduBuffer, the counters, and what the MAC knows.                        *)
(***************************************************************************)
EXTENDS RlcUmTx, FiniteSetTheorems, WellFoundedInduction, TLAPS

-----------------------------------------------------------------------------
(* The SDUs that may hold a slot stand in one line: the one that was popped *)
(* and not released yet, the FIFO, the one that is to be pushed.           *)

Places == {i \in 0 .. Len(fifo) + 1 :
             (i = 0 => lpc = "release") /\ (i = Len(fifo) + 1 => upc = "push")}
At(i) == IF i = 0 THEN got ELSE IF i = Len(fifo) + 1 THEN cur ELSE fifo[i]

HasSlot(i, k) == At(i).sn # None /\ SlotOf(At(i).sn) = k

Shape ==
  /\ fifo \in Seq(Sdu)
  /\ slots \in [Slots -> SNs \cup {Free, Discarded}]
  /\ upc = "push" => cur \in Sdu
  /\ lpc = "release" => got \in Sdu /\ got.sn # None

Apart == \A i, j \in Places, k \in Slots : HasSlot(i, k) /\ HasSlot(j, k) => i = j

Marked == \A i \in Places, k \in Slots :
            HasSlot(i, k) => slots[k] \in {At(i).sn, Discarded}

Occupied == \A k \in Slots : slots[k] # Free => \E i \in Places : HasSlot(i, k)

QueueInv == Shape /\ Apart /\ Marked /\ Occupied

-----------------------------------------------------------------------------
LEMMA SlotFacts ==
  /\ \A sn \in SNs : SlotOf(sn) \in Slots
  /\ \A sn \in SNs : sn # Free /\ sn # Discarded /\ sn # None
  /\ Free # Discarded
<1>1. SNs \subseteq Nat /\ None \notin SNs /\ Capacity \in Nat \ {0}
  BY SizesAssumption
<1>2. \A sn \in SNs : sn % Capacity \in 0 .. Capacity - 1
  BY <1>1
<1> QED
  BY <1>1, <1>2 DEF SlotOf, Slots, Free, Discarded

LEMMA SduFacts ==
  /\ \A s \in Sdu : s.sn \in SNs \cup {None}
  /\ \A s \in Sdu : s.sn # None => s.sn \in SNs /\ SlotOf(s.sn) \in Slots
<1>1. \A s \in Sdu : s.sn \in SNs \cup {None}
  BY DEF Sdu
<1> QED
  BY <1>1, SlotFacts

\* Who stands in the line is an SDU, and has its SN from SNs.
LEMMA AtFacts ==
  ASSUME Shape, NEW i \in Places
  PROVE  At(i) \in Sdu /\ (At(i).sn # None => At(i).sn \in SNs /\ SlotOf(At(i).sn) \in Slots)
<1>1. At(i) \in Sdu
  BY DEF Shape, Places, At
<1> QED
  BY <1>1, SduFacts

\* The invariant says of the sets of SlotHeld what it says of the line.
LEMMA QueueInvHolds == QueueInv => SlotHeld
<1> SUFFICES ASSUME QueueInv PROVE SlotHeld
  OBVIOUS
<1> DEFINE holders == Held \cup (IF upc = "push" THEN {cur} ELSE {})
<1>1. \A s \in holders : \E i \in Places : s = At(i)
  <2> TAKE s \in holders
  <2>1. CASE \E i \in DOMAIN fifo : s = fifo[i]
    BY <2>1 DEF Places, At, QueueInv, Shape
  <2>2. CASE lpc = "release" /\ s = got
    <3>1. 0 \in Places /\ At(0) = got
      BY <2>2 DEF Places, At, QueueInv, Shape
    <3> QED
      BY <2>2, <3>1
  <2>3. CASE upc = "push" /\ s = cur
    <3>1. Len(fifo) + 1 \in Places /\ At(Len(fifo) + 1) = cur
      BY <2>3 DEF Places, At, QueueInv, Shape
    <3> QED
      BY <2>3, <3>1
  <2> QED
    BY <2>1, <2>2, <2>3 DEF Held
<1>2. \A i \in Places : At(i) \in holders
  BY DEF Places, At, Held, QueueInv, Shape
<1>3. \A s \in holders : s.sn # None =>
        /\ slots[SlotOf(s.sn)] \in {s.sn, Discarded}
        /\ \A t \in holders : t.sn # None /\ SlotOf(t.sn) = SlotOf(s.sn) => t = s
  <2> SUFFICES ASSUME NEW s \in holders, s.sn # None
               PROVE  /\ slots[SlotOf(s.sn)] \in {s.sn, Discarded}
                      /\ \A t \in holders : t.sn # None /\ SlotOf(t.sn) = SlotOf(s.sn) => t = s
    OBVIOUS
  <2>1. PICK i \in Places : s = At(i)
    BY <1>1
  <2>2. SlotOf(s.sn) \in Slots /\ HasSlot(i, SlotOf(s.sn))
    BY <2>1, AtFacts DEF QueueInv, HasSlot
  <2>3. ASSUME NEW t \in holders, t.sn # None, SlotOf(t.sn) = SlotOf(s.sn)
        PROVE  t = s
    <3>1. PICK j \in Places : t = At(j)
      BY <1>1
    <3>2. HasSlot(j, SlotOf(s.sn))
      BY <2>3, <3>1 DEF HasSlot
    <3> QED
      BY <2>1, <2>2, <3>1, <3>2 DEF QueueInv, Apart
  <2> QED
    BY <2>1, <2>2, <2>3 DEF QueueInv, Marked
<1>4. \A k \in Slots : slots[k] # Free => \E s \in holders : s.sn # None /\ SlotOf(s.sn) = k
  BY <1>2 DEF QueueInv, Occupied, HasSlot
<1> QED
  BY <1>3, <1>4 DEF SlotHeld

-----------------------------------------------------------------------------
(* How the line changes.                                                   *)

LEMMA InitQueue == Init => QueueInv
<1> SUFFICES ASSUME Init PROVE QueueInv
  OBVIOUS
<1>1. Places = {}
  BY DEF Init, Places
<1>2. Shape
  BY DEF Init, Shape
<1> QED
  BY <1>1, <1>2 DEF Init, QueueInv, Apart, Marked, Occupied

\* A new SDU stands at the end, in a slot that was free.
LEMMA WriteKeeps ==
  ASSUME QueueInv, NEW s \in Sdu, Write(s)
  PROVE  QueueInv'
<1>0. PICK last \in Nat : last = Len(fifo) + 1
  BY DEF QueueInv, Shape
<1>1. Shape'
  BY SduFacts DEF Write, SetSlot, QueueInv, Shape, lowVars
<1>2. Places' = Places \cup {last} /\ last \notin Places /\ At(last)' = s
  BY <1>0 DEF Write, Places, At, QueueInv, Shape, lowVars
<1>3. \A i \in Places : At(i)' = At(i)
  BY DEF Write, Places, At, QueueInv, Shape, lowVars
<1>4. s.sn # None => slots[SlotOf(s.sn)] = Free /\ s.sn \in SNs /\ SlotOf(s.sn) \in Slots
  BY SduFacts DEF Write, SlotIsFree
<1>5. \A k \in Slots : slots'[k] = IF s.sn # None /\ k = SlotOf(s.sn) THEN s.sn ELSE slots[k]
  BY <1>4 DEF Write, SetSlot, QueueInv, Shape
<1>6. \A i \in Places, k \in Slots : HasSlot(i, k)' <=> HasSlot(i, k)
  BY <1>3 DEF HasSlot
<1>7. \A k \in Slots : HasSlot(last, k)' <=> s.sn # None /\ SlotOf(s.sn) = k
  BY <1>2 DEF HasSlot
<1>8. \A i \in Places, k \in Slots : HasSlot(i, k) => slots[k] # Free
  BY AtFacts, SlotFacts DEF QueueInv, Marked, HasSlot
<1>9. Apart'
  <2> SUFFICES ASSUME NEW i \in Places', NEW j \in Places', NEW k \in Slots,
                      HasSlot(i, k)', HasSlot(j, k)'
               PROVE  i = j
    BY DEF Apart, Slots
  <2>1. i \in Places /\ j \in Places => i = j
    BY <1>6 DEF QueueInv, Apart
  <2>2. i \in Places => j # last
    BY <1>4, <1>6, <1>7, <1>8
  <2>3. j \in Places => i # last
    BY <1>4, <1>6, <1>7, <1>8
  <2> QED
    BY <1>2, <2>1, <2>2, <2>3
<1>10. Marked'
  <2> SUFFICES ASSUME NEW i \in Places', NEW k \in Slots, HasSlot(i, k)'
               PROVE  slots'[k] \in {At(i)'.sn, Discarded}
    BY DEF Marked, Slots, Discarded
  <2>1. CASE i = last
    BY <1>2, <1>5, <1>7, <2>1
  <2>2. CASE i \in Places
    <3>1. HasSlot(i, k) /\ slots[k] # Free /\ slots[k] \in {At(i).sn, Discarded}
      BY <1>6, <1>8, <2>2 DEF QueueInv, Marked
    <3>2. slots'[k] = slots[k]
      BY <1>4, <1>5, <3>1
    <3> QED
      BY <1>3, <2>2, <3>1, <3>2
  <2> QED
    BY <1>2, <2>1, <2>2
<1>11. Occupied'
  <2> SUFFICES ASSUME NEW k \in Slots, slots'[k] # Free
               PROVE  \E i \in Places' : HasSlot(i, k)'
    BY DEF Occupied, Slots, Free
  <2>1. CASE s.sn # None /\ SlotOf(s.sn) = k
    BY <1>2, <1>7, <2>1
  <2>2. CASE ~(s.sn # None /\ SlotOf(s.sn) = k)
    <3>1. PICK i \in Places : HasSlot(i, k)
      BY <1>5, <2>2 DEF QueueInv, Occupied
    <3> QED
      BY <1>2, <1>6, <3>1
  <2> QED
    BY <2>1, <2>2
<1> QED
  BY <1>1, <1>9, <1>10, <1>11 DEF QueueInv

\* Whoever leaves the line gives his slot back: at the end, where there was no
\* room, or at the front.
LEMMA LeavingKeeps ==
  ASSUME QueueInv, Shape', NEW gone \in Places, NEW step \in {0, 1},
         SetSlot(At(gone).sn, Free),
         \A i \in Places' : /\ i + step \in Places /\ i + step # gone
                            /\ At(i)' = At(i + step),
         \A i \in Places : i # gone => i - step \in Places'
  PROVE  QueueInv'
<1>1. At(gone).sn # None => At(gone).sn \in SNs /\ SlotOf(At(gone).sn) \in Slots
  BY AtFacts DEF QueueInv
<1>2. \A k \in Slots : slots'[k] = IF HasSlot(gone, k) THEN Free ELSE slots[k]
  BY <1>1 DEF SetSlot, HasSlot, QueueInv, Shape
<1>3. \A i \in Places', k \in Slots : HasSlot(i, k)' <=> HasSlot(i + step, k)
  BY DEF HasSlot
<1>4. \A i \in Places', k \in Slots : HasSlot(i, k)' => ~HasSlot(gone, k)
  BY <1>3 DEF QueueInv, Apart
<1>5. Places' \subseteq Nat /\ Places \subseteq Nat
  BY DEF Places, Shape, QueueInv
<1>6. Apart'
  <2> SUFFICES ASSUME NEW i \in Places', NEW j \in Places', NEW k \in Slots,
                      HasSlot(i, k)', HasSlot(j, k)'
               PROVE  i = j
    BY DEF Apart, Slots
  <2>1. i + step = j + step
    BY <1>3 DEF QueueInv, Apart
  <2> QED
    BY <1>5, <2>1
<1>7. Marked'
  <2> SUFFICES ASSUME NEW i \in Places', NEW k \in Slots, HasSlot(i, k)'
               PROVE  slots'[k] \in {At(i).sn, Discarded}'
    BY DEF Marked, Slots
  <2>1. slots'[k] = slots[k]
    BY <1>2, <1>4
  <2> QED
    BY <1>3, <2>1 DEF QueueInv, Marked, Discarded
<1>8. Occupied'
  <2> SUFFICES ASSUME NEW k \in Slots, slots'[k] # Free
               PROVE  \E i \in Places' : HasSlot(i, k)'
    BY DEF Occupied, Slots, Free
  <2>1. ~HasSlot(gone, k) /\ slots[k] # Free
    BY <1>2
  <2>2. PICK i \in Places : HasSlot(i, k)
    BY <2>1 DEF QueueInv, Occupied
  <2>3. i # gone /\ i - step \in Places' /\ (i - step) + step = i
    BY <1>5, <2>1, <2>2
  <2> QED
    BY <1>3, <2>2, <2>3
<1> QED
  BY <1>6, <1>7, <1>8 DEF QueueInv

\* Nobody comes or goes: an SDU may move on in the line, and be marked.
LEMMA StayingKeeps ==
  ASSUME QueueInv, Shape', NEW step \in {0, 1},
         \A k \in Slots : \/ slots'[k] = slots[k]
                          \/ slots[k] # Free /\ slots'[k] = Discarded,
         \A i \in Places' : i + step \in Places /\ At(i)' = At(i + step),
         \A i \in Places : i - step \in Places'
  PROVE  QueueInv'
<1>1. \A i \in Places', k \in Slots : HasSlot(i, k)' <=> HasSlot(i + step, k)
  BY DEF HasSlot
<1>2. Places' \subseteq Nat /\ Places \subseteq Nat
  BY DEF Places, Shape, QueueInv
<1>3. Apart'
  <2> SUFFICES ASSUME NEW i \in Places', NEW j \in Places', NEW k \in Slots,
                      HasSlot(i, k)', HasSlot(j, k)'
               PROVE  i = j
    BY DEF Apart, Slots
  <2>1. i + step = j + step
    BY <1>1 DEF QueueInv, Apart
  <2> QED
    BY <1>2, <2>1
<1>4. Marked'
  <2> SUFFICES ASSUME NEW i \in Places', NEW k \in Slots, HasSlot(i, k)'
               PROVE  slots'[k] \in {At(i)'.sn, Discarded}
    BY DEF Marked, Slots, Discarded
  <2>1. slots[k] \in {At(i)'.sn, Discarded}
    BY <1>1 DEF QueueInv, Marked
  <2> QED
    BY <2>1
<1>5. Occupied'
  <2> SUFFICES ASSUME NEW k \in Slots, slots'[k] # Free
               PROVE  \E i \in Places' : HasSlot(i, k)'
    BY DEF Occupied, Slots, Free
  <2>1. PICK i \in Places : HasSlot(i, k)
    BY DEF QueueInv, Occupied
  <2>2. i - step \in Places' /\ (i - step) + step = i
    BY <1>2
  <2> QED
    BY <1>1, <2>1, <2>2
<1> QED
  BY <1>3, <1>4, <1>5 DEF QueueInv

\* A step that touches neither the queue nor what the threads have in hand.
LEMMA UntouchedKeeps ==
  ASSUME QueueInv, UNCHANGED queueVars,
         upc' = "push" <=> upc = "push", upc = "push" => cur' = cur,
         lpc' = "release" <=> lpc = "release", lpc = "release" => got' = got
  PROVE  QueueInv'
<1>1. Shape'
  BY DEF QueueInv, Shape, queueVars
<1>2. Places' = Places /\ \A i \in Places : i \in Nat /\ At(i)' = At(i)
  BY DEF Places, At, queueVars, QueueInv, Shape
<1>3. \A i \in Places : i + 0 = i /\ i - 0 = i
  BY <1>2
<1>4. \A k \in Slots : slots'[k] = slots[k]
  BY DEF queueVars
<1> QED
  BY <1>1, <1>2, <1>3, <1>4, StayingKeeps

-----------------------------------------------------------------------------
(* The steps that touch the queue.                                         *)

LEMMA PushKeeps ==
  ASSUME QueueInv, Push
  PROVE  QueueInv'
<1> USE DEF lowVars
<1>1. cur \in Sdu
  BY DEF Push, QueueInv, Shape
<1>2. CASE HasRoom /\ fifo' = Append(fifo, cur) /\ upc' = "count" /\ UNCHANGED <<slots, cur>>
  <2>1. Shape'
    BY <1>1, <1>2 DEF Push, QueueInv, Shape
  <2>2. Places' = Places /\ \A i \in Places : i + 0 = i /\ i - 0 = i /\ At(i)' = At(i)
    BY <1>1, <1>2 DEF Push, Places, At, QueueInv, Shape
  <2> QED
    BY <1>2, <2>1, <2>2, StayingKeeps
<1>3. CASE ~HasRoom /\ PushFails /\ upc' = "idle" /\ UNCHANGED fifo
  <2>1. PICK last \in Nat : last = Len(fifo) + 1
    BY DEF QueueInv, Shape
  <2>2. last \in Places /\ At(last) = cur
    BY <2>1 DEF Push, Places, At, QueueInv, Shape
  <2>3. SetSlot(At(last).sn, Free)
    BY <1>3, <2>2 DEF PushFails
  <2>4. Shape'
    BY <1>1, <1>3, SduFacts DEF Push, PushFails, SetSlot, QueueInv, Shape
  <2>5. \A i \in Places' : /\ i + 0 \in Places /\ i + 0 # last
                           /\ At(i)' = At(i + 0)
    BY <1>3, <2>1 DEF Push, Places, At, QueueInv, Shape
  <2>6. \A i \in Places : i # last => i - 0 \in Places'
    BY <1>3, <2>1 DEF Push, Places, QueueInv, Shape
  <2> QED
    BY <2>2, <2>3, <2>4, <2>5, <2>6, LeavingKeeps
<1> QED
  BY <1>2, <1>3 DEF Push

LEMMA DiscardKeeps ==
  ASSUME QueueInv, NEW sn \in SNs, Discard(sn)
  PROVE  QueueInv'
<1>1. SlotOf(sn) \in Slots /\ sn # None /\ sn # Free
  BY SlotFacts
<1>2. slots' = [slots EXCEPT ![SlotOf(sn)] = Discarded] /\ slots[SlotOf(sn)] # Free
  BY <1>1 DEF Discard, SetSlot
<1>3. Shape'
  BY <1>2 DEF Discard, QueueInv, Shape, lowVars
<1>4. Places' = Places /\ \A i \in Places : i + 0 = i /\ i - 0 = i /\ At(i)' = At(i)
  BY DEF Discard, Places, At, QueueInv, Shape, lowVars
<1>5. \A k \in Slots : \/ slots'[k] = slots[k]
                       \/ slots[k] # Free /\ slots'[k] = Discarded
  BY <1>1, <1>2 DEF QueueInv, Shape
<1> QED
  BY <1>3, <1>4, <1>5, StayingKeeps

\* Popping moves the line on by one.
LEMMA PopMoves ==
  ASSUME Shape, fifo # <<>>, fifo' = Tail(fifo), lpc # "release", UNCHANGED <<upc, cur>>,
         lpc' = "release" => got' = Head(fifo)
  PROVE  /\ 1 \in Places /\ At(1) = Head(fifo)
         /\ Head(fifo) \in Sdu /\ fifo' \in Seq(Sdu)
         /\ \A i \in Places' : i + 1 \in Places /\ At(i)' = At(i + 1)
         /\ \A i \in Places : i - 1 \in Places' \/ (i = 1 /\ lpc' # "release")
         /\ 0 \in Places' => lpc' = "release"
<1>1. Len(fifo) \in Nat /\ Len(fifo) >= 1 /\ Len(fifo') = Len(fifo) - 1
  BY DEF Shape
<1>2. Head(fifo) = fifo[1] /\ Head(fifo) \in Sdu /\ fifo' \in Seq(Sdu)
  BY DEF Shape
<1>3. \A i \in 1 .. Len(fifo') : fifo'[i] = fifo[i + 1]
  BY DEF Shape
<1>4. 1 \in Places /\ At(1) = Head(fifo)
  BY <1>1, <1>2 DEF Places, At
<1>5. ASSUME NEW i \in Places'
      PROVE  i + 1 \in Places /\ At(i)' = At(i + 1)
  <2>1. Len(fifo) - 1 \in Nat
    BY <1>1
  <2>2. PICK n \in Nat : n = Len(fifo) - 1
    BY <2>1, Zenon
  <2>3. Len(fifo) = n + 1 /\ Len(fifo') = n
    BY <1>1, <2>2
  <2>4. /\ i \in 0 .. n + 1 /\ (i = 0 => lpc' = "release") /\ (i = n + 1 => upc' = "push")
        /\ upc' = upc /\ cur' = cur
    BY <2>3 DEF Places
  <2>5. i + 1 \in Places
    BY <2>3, <2>4 DEF Places
  <2>6. At(i)' = IF i = 0 THEN got' ELSE IF i = n + 1 THEN cur' ELSE fifo'[i]
    BY <2>3 DEF At
  <2>7. At(i + 1) = IF i = n + 1 THEN cur ELSE fifo[i + 1]
    BY <2>3, <2>4 DEF At
  <2>8. i # 0 /\ i # n + 1 => fifo'[i] = fifo[i + 1]
    BY <1>3, <2>3, <2>4
  <2>9. i = 0 => got' = fifo[i + 1]
    BY <1>2, <2>4
  <2>10. At(i)' = At(i + 1)
    <3>1. CASE i = 0
      BY <2>6, <2>7, <2>9, <3>1
    <3>2. CASE i = n + 1
      BY <2>4, <2>6, <2>7, <3>2
    <3>3. CASE i # 0 /\ i # n + 1
      BY <2>6, <2>7, <2>8, <3>3
    <3> QED
      BY <3>1, <3>2, <3>3
  <2> QED
    BY <2>5, <2>10
<1>6. \A i \in Places : i - 1 \in Places' \/ (i = 1 /\ lpc' # "release")
  BY <1>1 DEF Places
<1>7. 0 \in Places' => lpc' = "release"
  BY DEF Places
<1> QED
  BY <1>2, <1>4, <1>5, <1>6, <1>7

LEMMA PopKeeps ==
  ASSUME QueueInv, Pop
  PROVE  QueueInv'
<1>1. /\ Shape /\ fifo # <<>> /\ fifo' = Tail(fifo) /\ lpc # "release"
      /\ UNCHANGED <<upc, cur, slots>> /\ got' = Head(fifo)
  BY DEF Pop, QueueInv, upVars
<1>2. Shape'
  <2>1. Head(fifo) \in Sdu /\ fifo' \in Seq(Sdu)
    BY <1>1, PopMoves
  <2>2. lpc' = "release" => Head(fifo).sn # None
    BY DEF Pop
  <2> QED
    BY <1>1, <2>1, <2>2 DEF Shape
<1>3. CASE Head(fifo).sn # None
  <2>1. lpc' = "release"
    BY <1>3 DEF Pop
  <2> QED
    BY <1>1, <1>2, <2>1, PopMoves, StayingKeeps
<1>4. CASE Head(fifo).sn = None
  <2>1. lpc' # "release"
    BY <1>4 DEF Pop
  <2>2. SetSlot(At(1).sn, Free)
    BY <1>1, <1>4, PopMoves DEF SetSlot
  <2>3. \A i \in Places' : i \in Nat /\ i # 0 /\ i + 1 # 1
    BY <1>1, <2>1, PopMoves DEF Places, Shape
  <2> QED
    BY <1>1, <1>2, <2>1, <2>2, <2>3, PopMoves, LeavingKeeps
<1> QED
  BY <1>3, <1>4

LEMMA FrontDropKeeps ==
  ASSUME QueueInv, FrontDrop
  PROVE  QueueInv'
<1>1. /\ Shape /\ fifo # <<>> /\ fifo' = Tail(fifo) /\ lpc # "release" /\ lpc' # "release"
      /\ UNCHANGED <<upc, cur>>
  BY DEF FrontDrop, FrontInvalid, QueueInv, upVars, lowVars
<1>2. SetSlot(At(1).sn, Free) /\ Head(fifo) \in Sdu
  BY <1>1, PopMoves DEF FrontDrop
<1>3. Shape'
  BY <1>1, <1>2, PopMoves, SduFacts DEF FrontDrop, SetSlot, Shape
<1>4. \A i \in Places' : i \in Nat /\ i # 0 /\ i + 1 # 1
  BY <1>1, <1>3, PopMoves DEF Places, Shape
<1> QED
  BY <1>1, <1>2, <1>3, <1>4, PopMoves, LeavingKeeps

LEMMA ReleaseKeeps ==
  ASSUME QueueInv, Release
  PROVE  QueueInv'
<1>1. 0 \in Places /\ At(0) = got /\ got \in Sdu
  BY DEF Release, Places, At, QueueInv, Shape
<1>2. Shape' /\ lpc' # "release"
  BY <1>1, SduFacts DEF Release, SetSlot, QueueInv, Shape, upVars
<1>3. \A i \in Places' : i + 0 \in Places /\ i + 0 # 0 /\ At(i)' = At(i + 0)
  BY <1>2 DEF Release, Places, At, QueueInv, Shape, upVars
<1>4. \A i \in Places : i # 0 => i - 0 \in Places'
  BY <1>2 DEF Release, Places, QueueInv, Shape, upVars
<1>5. SetSlot(At(0).sn, Free)
  BY <1>1 DEF Release
<1> QED
  BY <1>1, <1>2, <1>3, <1>4, <1>5, LeavingKeeps

-----------------------------------------------------------------------------
LEMMA StepKeeps == QueueInv /\ [Next]_vars => QueueInv'
<1> SUFFICES ASSUME QueueInv, [Next]_vars PROVE QueueInv'
  OBVIOUS
<1>1. ASSUME NEW s \in Sdu, Write(s) PROVE QueueInv'
  BY <1>1, WriteKeeps
<1>2. ASSUME NEW sn \in SNs, Discard(sn) PROVE QueueInv'
  BY <1>2, DiscardKeeps
<1>3. CASE Push
  BY <1>3, PushKeeps
<1>4. CASE Count \/ Uncount \/ Flag
  BY <1>4, UntouchedKeeps DEF Count, Uncount, Flag, queueVars, lowVars
<1>5. CASE Pop
  BY <1>5, PopKeeps
<1>6. CASE Release
  BY <1>6, ReleaseKeeps
<1>7. CASE StartSlot \/ PopNothing \/ RunUpdate \/ Load \/ Report
  BY <1>7, UntouchedKeeps
     DEF StartSlot, PopNothing, RunUpdate, Load, Report, queueVars, upVars
<1>8. ASSUME NEW g \in Grants, Continue(g) \/ SendNew(g) PROVE QueueInv'
  BY <1>8, UntouchedKeeps DEF Continue, SendNew, AfterPdu, queueVars, upVars
<1>9. CASE FrontDrop
  BY <1>9, FrontDropKeeps
<1>10. CASE UNCHANGED vars
  BY <1>10, UntouchedKeeps DEF vars, queueVars, upVars, lowVars
<1> QED
  BY <1>1, <1>2, <1>3, <1>4, <1>5, <1>6, <1>7, <1>8, <1>9, <1>10
     DEF Next, UpperStep, PullStep, StateStep

\* In every instance a slot of sdu_states belongs to one SDU in the queue, or on its
\* way in or out, from before it is pushed until after it was popped, and no slot is
\* lost: a discard never hits another SDU with the same slot.
THEOREM SlotsOwned == Spec => []SlotHeld
<1>1. Spec => []QueueInv
  BY InitQueue, StepKeeps, PTL DEF Spec
<1> QED
  BY <1>1, QueueInvHolds, PTL

-----------------------------------------------------------------------------
(* Types.                                                                  *)

LEMMA WrapFacts ==
  \A n \in Int : Wrap(n) \in 0 .. CounterMod - 1 /\ n \div CounterMod \in Int
<1>1. CounterMod \in Nat \ {0}
  BY SizesAssumption
<1> QED
  BY <1>1 DEF Wrap

LEMMA SduTypes ==
  /\ \A s \in Sdu : s.id \in SduIds /\ s.id \in Nat \ {0} /\ s.len \in Nat \ {0}
  /\ NoSdu.id = 0 /\ NoSdu.len = 0
<1>1. Lens \in Seq(Nat \ {0})
  BY SizesAssumption
<1>2. \A i \in SduIds : i \in Nat \ {0} /\ Lens[i] \in Nat \ {0}
  BY <1>1 DEF SduIds
<1> QED
  BY <1>2 DEF Sdu, NoSdu

\* The counters stay in one word, whatever is counted in or out.
LEMMA CountersStay ==
  ASSUME nSdus \in 0 .. CounterMod - 1, nBytes \in 0 .. CounterMod - 1,
         NEW s \in Sdu, CountIn(s) \/ CountOut(s)
  PROVE  nSdus' \in 0 .. CounterMod - 1 /\ nBytes' \in 0 .. CounterMod - 1
<1>1. s.len \in Int /\ nSdus \in Int /\ nBytes \in Int /\ CounterMod \in Int
  BY SduTypes, SizesAssumption
<1>2. CASE CountIn(s)
  <2>1. PICK q \in Int : q = (nBytes + s.len) \div CounterMod
    BY <1>1, WrapFacts
  <2>2. nSdus + 1 + q \in Int /\ nBytes + s.len \in Int
    BY <1>1
  <2> QED
    BY <1>2, <2>1, <2>2, WrapFacts DEF CountIn
<1>3. CASE CountOut(s)
  <2>1. PICK q \in Int : q = (nBytes - s.len) \div CounterMod
    BY <1>1, WrapFacts
  <2>2. nSdus - 1 + q \in Int /\ nBytes - s.len \in Int
    BY <1>1
  <2> QED
    BY <1>3, <2>1, <2>2, WrapFacts DEF CountOut
<1> QED
  BY <1>2, <1>3

\* Where the threads have an SDU in hand.
InHand ==
  /\ upc \in {"push", "count", "uncount"} => cur \in Sdu
  /\ lpc \in {"release", "uncount"} => got \in Sdu

TypeInv == TypeOK /\ InHand

LEMMA InitTypes == Init => TypeInv
<1> SUFFICES ASSUME Init PROVE TypeInv
  OBVIOUS
<1>1. 0 \in 0 .. CounterMod - 1 /\ Capacity \in Nat
  BY SizesAssumption
<1>2. fifo \in Seq(Sdu) /\ Len(fifo) <= Capacity
  BY <1>1 DEF Init
<1>3. slots \in [Slots -> SNs \cup {Free, Discarded}]
  BY DEF Init
<1>4. {suspend, pending, queued} \subseteq BOOLEAN
  BY DEF Init
<1> QED
  BY <1>1, <1>2, <1>3, <1>4 DEF Init, TypeInv, TypeOK, InHand

\* The steps of the UE executor.
LEMMA UpperTypes ==
  ASSUME TypeInv,
         \/ \E s \in Sdu : Write(s)
         \/ \E sn \in SNs : Discard(sn)
         \/ UpperStep
  PROVE  TypeInv'
<1>1. \A sn \in SNs \cup {None}, v \in SNs \cup {Free, Discarded} :
        SetSlot(sn, v) => slots' \in [Slots -> SNs \cup {Free, Discarded}]
  BY SlotFacts DEF SetSlot, TypeInv, TypeOK
<1>2. ASSUME NEW s \in Sdu, Write(s) PROVE TypeInv'
  <2>1. SetSlot(s.sn, s.sn) /\ s.sn \in SNs \cup {None}
    BY <1>2, SduFacts DEF Write
  <2>2. slots' \in [Slots -> SNs \cup {Free, Discarded}]
    BY <1>1, <2>1 DEF SetSlot, TypeInv, TypeOK
  <2> QED
    BY <1>2, <2>2, SduTypes
       DEF Write, TypeInv, TypeOK, InHand, counters, lowVars, flagVars
<1>3. ASSUME NEW sn \in SNs, Discard(sn) PROVE TypeInv'
  <2>1. slots' \in [Slots -> SNs \cup {Free, Discarded}]
    BY <1>1, <1>3 DEF Discard
  <2>2. cur' \in Sdu
    BY <1>3 DEF Discard, Held, TypeInv, TypeOK, InHand
  <2> QED
    BY <1>3, <2>1, <2>2
       DEF Discard, TypeInv, TypeOK, InHand, counters, lowVars, flagVars
<1>4. CASE Push
  <2>1. cur \in Sdu /\ cur.sn \in SNs \cup {None}
    BY <1>4, SduFacts DEF Push, TypeInv, InHand
  <2>2. PushFails => slots' \in [Slots -> SNs \cup {Free, Discarded}]
    BY <1>1, <2>1 DEF PushFails
  <2>3. slots' \in [Slots -> SNs \cup {Free, Discarded}]
    BY <1>4, <2>2 DEF Push, TypeInv, TypeOK
  <2>4. fifo' \in Seq(Sdu) /\ Len(fifo') <= Capacity
    <3>1. fifo \in Seq(Sdu) /\ Len(fifo) \in Nat /\ Len(fifo) <= Capacity /\ Capacity \in Nat
      BY SizesAssumption DEF TypeInv, TypeOK
    <3>2. HasRoom => Len(fifo) + 1 <= Capacity
      BY <3>1 DEF HasRoom
    <3>3. Append(fifo, cur) \in Seq(Sdu) /\ Len(Append(fifo, cur)) = Len(fifo) + 1
      BY <2>1, <3>1
    <3> QED
      BY <1>4, <3>1, <3>2, <3>3 DEF Push
  <2> QED
    BY <1>4, <2>1, <2>3, <2>4
       DEF Push, TypeInv, TypeOK, InHand, counters, lowVars, flagVars
<1>5. CASE Count \/ Uncount
  <2>1. nSdus' \in 0 .. CounterMod - 1 /\ nBytes' \in 0 .. CounterMod - 1
    BY <1>5, CountersStay DEF Count, Uncount, TypeInv, TypeOK, InHand
  <2> QED
    BY <1>5, <2>1 DEF Count, Uncount, TypeInv, TypeOK, InHand, queueVars, lowVars, flagVars
<1>6. CASE Flag
  BY <1>6 DEF Flag, TypeInv, TypeOK, InHand, queueVars, counters, lowVars
<1> QED
  BY <1>2, <1>3, <1>4, <1>5, <1>6 DEF UpperStep

\* An SDU leaves the FIFO at the front.
LEMMA TailTypes ==
  ASSUME TypeInv, fifo # <<>>
  PROVE  Head(fifo) \in Sdu /\ Tail(fifo) \in Seq(Sdu) /\ Len(Tail(fifo)) <= Capacity
<1>1. fifo \in Seq(Sdu) /\ Len(fifo) <= Capacity /\ Capacity \in Nat
  BY SizesAssumption DEF TypeInv, TypeOK
<1>2. Head(fifo) \in Sdu /\ Tail(fifo) \in Seq(Sdu) /\ Len(Tail(fifo)) = Len(fifo) - 1
  BY <1>1
<1> QED
  BY <1>1, <1>2

\* The rest of the SDU being sent.
LEMMA SendTypes ==
  ASSUME NEW s \in Sdu, NEW so \in Nat, NEW g \in Grants, SendFrom(s, so, g)
  PROVE  sdu' \in Sdu \cup {NoSdu} /\ next_so' \in Nat
<1>1. g \in Nat
  BY SizesAssumption
<1> QED
  BY <1>1 DEF SendFrom

\* The steps of the cell executor.
LEMMA LowerTypes ==
  ASSUME TypeInv, StartSlot \/ PullStep \/ RunUpdate \/ StateStep
  PROVE  TypeInv'
<1>1. \A s \in Sdu : SetSlot(s.sn, Free) => slots' \in [Slots -> SNs \cup {Free, Discarded}]
  BY SduFacts DEF SetSlot, TypeInv, TypeOK
<1>2. CASE StartSlot
  BY <1>2 DEF StartSlot, TypeInv, TypeOK, InHand, queueVars, counters, upVars, flagVars
<1>3. CASE Pop
  BY <1>3, TailTypes, SduTypes
     DEF Pop, TypeInv, TypeOK, InHand, counters, upVars, flagVars
<1>4. CASE PopNothing
  BY <1>4 DEF PopNothing, TypeInv, TypeOK, InHand, queueVars, counters, upVars, flagVars
<1>5. CASE Release
  <2>1. got \in Sdu /\ got.id \in SduIds
    BY <1>5, SduTypes DEF Release, TypeInv, InHand
  <2>2. slots' \in [Slots -> SNs \cup {Free, Discarded}]
    BY <1>1, <1>5, <2>1 DEF Release
  <2> QED
    BY <1>5, <2>1, <2>2 DEF Release, TypeInv, TypeOK, InHand, counters, upVars, flagVars
<1>6. ASSUME NEW g \in Grants, Continue(g) PROVE TypeInv'
  <2>1. sdu' \in Sdu \cup {NoSdu} /\ next_so' \in Nat
    BY <1>6, SendTypes DEF Continue, TypeInv, TypeOK
  <2> QED
    BY <1>6, <2>1
       DEF Continue, AfterPdu, TypeInv, TypeOK, InHand, queueVars, counters, upVars, flagVars
<1>7. ASSUME NEW g \in Grants, SendNew(g) PROVE TypeInv'
  <2>1. got \in Sdu
    BY <1>7 DEF SendNew, TypeInv, InHand
  <2>2. nSdus' \in 0 .. CounterMod - 1 /\ nBytes' \in 0 .. CounterMod - 1
    BY <1>7, <2>1, CountersStay DEF SendNew, TypeInv, TypeOK
  <2>3. sdu' \in Sdu \cup {NoSdu} /\ next_so' \in Nat
    BY <1>7, <2>1, SendTypes DEF SendNew
  <2> QED
    BY <1>7, <2>2, <2>3
       DEF SendNew, AfterPdu, TypeInv, TypeOK, InHand, queueVars, upVars, flagVars
<1>8. CASE RunUpdate
  BY <1>8 DEF RunUpdate, ClearFlag, TypeInv, TypeOK, InHand, queueVars, counters, upVars
<1>9. CASE Load
  <2>1. nBytes \in Int /\ nSdus \in Int /\ HeadFull \in Int /\ HeadNotFirst \in Int
    BY SizesAssumption DEF TypeInv, TypeOK
  <2>2. nSdus * HeadFull \in Int
    BY <2>1
  <2>3. (IF sdu = NoSdu THEN 0 ELSE sdu.len - next_so + HeadNotFirst) \in Int
    BY <2>1, SduTypes DEF TypeInv, TypeOK
  <2>4. bs' \in 0 .. CounterMod - 1
    <3>1. PICK a \in Int, b \in Int :
            /\ a = nSdus * HeadFull
            /\ b = IF sdu = NoSdu THEN 0 ELSE sdu.len - next_so + HeadNotFirst
      BY <2>2, <2>3
    <3>2. nBytes + a + b \in Int
      BY <2>1
    <3>3. bs' = Wrap(nBytes + a + b)
      BY <1>9, <3>1 DEF Load
    <3> QED
      BY <3>2, <3>3, WrapFacts
  <2> QED
    BY <1>9, <2>4 DEF Load, TypeInv, TypeOK, InHand, queueVars, counters, upVars, flagVars
<1>10. CASE FrontDrop
  <2>1. slots' \in [Slots -> SNs \cup {Free, Discarded}]
    BY <1>1, <1>10, TailTypes DEF FrontDrop, FrontInvalid
  <2> QED
    BY <1>10, <2>1, TailTypes
       DEF FrontDrop, FrontInvalid, TypeInv, TypeOK, InHand, counters, upVars, flagVars, lowVars
<1>11. CASE Report
  <2>1. 0 \in 0 .. CounterMod - 1
    BY SizesAssumption
  <2>2. (suspend \/ bs <= MaxDlPdu) \in BOOLEAN
    BY DEF TypeInv, TypeOK
  <2> QED
    BY <1>11, <2>1, <2>2
       DEF Report, TypeInv, TypeOK, InHand, queueVars, counters, upVars, flagVars
<1> QED
  BY <1>2, <1>3, <1>4, <1>5, <1>6, <1>7, <1>8, <1>9, <1>10, <1>11
     DEF PullStep, StateStep

LEMMA StepTypes == TypeInv /\ [Next]_vars => TypeInv'
<1>1. CASE UNCHANGED vars
  BY <1>1 DEF vars, queueVars, counters, upVars, lowVars, flagVars, TypeInv, TypeOK, InHand
<1> QED
  BY <1>1, UpperTypes, LowerTypes DEF Next

\* In every instance each variable keeps its type: the FIFO its capacity, the counters
\* and the buffer state their width, what the threads have in hand an SDU.
THEOREM TypeCorrect == Spec => []TypeOK
<1>1. TypeInv => TypeOK
  BY DEF TypeInv
<1> QED
  BY <1>1, InitTypes, StepTypes, PTL DEF Spec

-----------------------------------------------------------------------------
(* The order.  The line is in the order of acceptance, and behind what was  *)
(* taken.                                                                  *)

Ascending == \A i, j \in Places : i < j => At(i).id < At(j).id

Behind ==
  /\ written \in Nat /\ taken \in Nat /\ taken <= written
  /\ \A i \in Places : taken < At(i).id /\ At(i).id <= written

OrderInv == Ascending /\ Behind

\* Who leaves the line was taken, as the first that was not discarded, or was discarded,
\* or found no room.
First(i) == Valid(At(i)) /\ \A j \in Places : Valid(At(j)) => At(i).id <= At(j).id
LeavesInTurn ==
  \A i \in Places : (\A j \in Places' : At(j)' # At(i)) =>
    \/ taken' = At(i).id /\ First(i)
    \/ At(i).sn # None /\ slots[SlotOf(At(i).sn)] = Discarded
    \/ upc = "push" /\ i = Len(fifo) + 1 /\ ~HasRoom

\* What is taken comes after all that was taken before, and is the first in the line.
TakenInTurn ==
  taken' # taken => taken' > taken /\ \E i \in Places : At(i).id = taken' /\ First(i)

LEMMA PlaceFacts ==
  ASSUME Shape
  PROVE  /\ \A i \in Places : i \in Nat /\ At(i) \in Sdu /\ At(i).id \in Nat
         /\ Len(fifo) \in Nat
<1>1. Len(fifo) \in Nat
  BY DEF Shape
<1>2. \A i \in Places : i \in Nat
  BY <1>1 DEF Places
<1> QED
  BY <1>1, <1>2, AtFacts, SduTypes

LEMMA InitOrder == Init => OrderInv
<1> SUFFICES ASSUME Init PROVE OrderInv
  OBVIOUS
<1>1. Places = {}
  BY DEF Init, Places
<1> QED
  BY <1>1 DEF Init, OrderInv, Ascending, Behind

\* The line moves on by one place, or not at all, and perhaps its first or its last
\* leaves; what is taken is before the rest.
LEMMA MovingOrder ==
  ASSUME QueueInv, Shape', OrderInv, NEW step \in {0, 1},
         \A i \in Places' : i + step \in Places /\ At(i)' = At(i + step),
         written' = written, taken' \in Nat, taken' <= written,
         \A i \in Places' : taken' < At(i + step).id
  PROVE  OrderInv'
<1>1. \A i \in Places' : i \in Nat /\ i + step \in Nat
  BY DEF Places, Shape
<1>2. Ascending'
  <2> SUFFICES ASSUME NEW i \in Places', NEW j \in Places', i < j
               PROVE  At(i)'.id < At(j)'.id
    BY DEF Ascending
  <2>1. i + step < j + step
    BY <1>1
  <2> QED
    BY <2>1 DEF OrderInv, Ascending
<1>3. Behind'
  BY <1>1 DEF OrderInv, Behind
<1> QED
  BY <1>2, <1>3 DEF OrderInv

\* The first in the line, if it was not discarded, is the first of those.
LEMMA FirstFacts ==
  ASSUME QueueInv, OrderInv, NEW i \in Places, \A j \in Places : i <= j
  PROVE  /\ Valid(At(i)) => First(i)
         /\ ~Valid(At(i)) => At(i).sn # None /\ slots[SlotOf(At(i).sn)] = Discarded
<1>1. \A j \in Places : At(i).id <= At(j).id
  BY PlaceFacts DEF QueueInv, OrderInv, Ascending
<1>2. ASSUME ~Valid(At(i))
      PROVE  At(i).sn # None /\ slots[SlotOf(At(i).sn)] = Discarded
  <2>1. At(i).sn # None /\ HasSlot(i, SlotOf(At(i).sn)) /\ SlotOf(At(i).sn) \in Slots
    BY <1>2, AtFacts DEF Valid, HasSlot, QueueInv
  <2> QED
    BY <1>2, <2>1 DEF Valid, QueueInv, Marked
<1> QED
  BY <1>1, <1>2 DEF First

InTurn == OrderInv' /\ LeavesInTurn /\ TakenInTurn

\* The line stays as it is.
LEMMA SameLine ==
  ASSUME QueueInv, Shape', OrderInv, Places' = Places,
         \A i \in Places : At(i)' = At(i), UNCHANGED <<written, taken>>
  PROVE  InTurn
<1>1. \A i \in Places' : i + 0 = i
  BY DEF Places, Shape
<1>2. OrderInv'
  BY <1>1, MovingOrder DEF OrderInv, Behind
<1> QED
  BY <1>2 DEF InTurn, LeavesInTurn, TakenInTurn

LEMMA UntouchedInTurn ==
  ASSUME QueueInv, OrderInv, UNCHANGED <<queueVars, written, taken>>,
         upc' = "push" <=> upc = "push", upc = "push" => cur' = cur,
         lpc' = "release" <=> lpc = "release", lpc = "release" => got' = got
  PROVE  InTurn
<1>1. Shape'
  BY DEF QueueInv, Shape, queueVars
<1>2. Places' = Places /\ \A i \in Places : At(i)' = At(i)
  BY DEF Places, At, queueVars, QueueInv, Shape
<1> QED
  BY <1>1, <1>2, SameLine

LEMMA WriteInTurn ==
  ASSUME QueueInv, OrderInv, QueueInv', NEW s \in Sdu, Write(s)
  PROVE  InTurn
<1>1. PICK last \in Nat : last = Len(fifo) + 1
  BY PlaceFacts DEF QueueInv
<1>2. /\ Places' = Places \cup {last} /\ last \notin Places
      /\ \A i \in Places : At(i)' = At(i) /\ i < last
      /\ At(last)' = s
  BY <1>1 DEF Write, Places, At, QueueInv, Shape, lowVars
<1>3. /\ s.id = written + 1 /\ s.id \in Nat /\ written' = s.id /\ taken' = taken
      /\ written \in Nat /\ taken \in Nat /\ taken <= written
  BY SduTypes DEF Write, lowVars, OrderInv, Behind
<1>4. \A i \in Places : At(i).id < s.id /\ taken < At(i).id
  BY <1>3, PlaceFacts DEF QueueInv, OrderInv, Behind
<1>5. \A i \in Places : ~(last < i)
  BY <1>2, PlaceFacts DEF QueueInv
<1>6. Ascending'
  <2> SUFFICES ASSUME NEW i \in Places', NEW j \in Places', i < j
               PROVE  At(i)'.id < At(j)'.id
    BY DEF Ascending
  <2>1. i # last
    BY <1>2, <1>5
  <2> QED
    BY <1>2, <1>4, <2>1 DEF OrderInv, Ascending
<1>7. Behind'
  <2>1. \A i \in Places : At(i)'.id \in Nat /\ taken' < At(i)'.id /\ At(i)'.id <= written'
    BY <1>2, <1>3, <1>4, PlaceFacts DEF QueueInv
  <2> QED
    BY <1>2, <1>3, <2>1 DEF Behind
<1> QED
  BY <1>2, <1>3, <1>6, <1>7 DEF InTurn, OrderInv, LeavesInTurn, TakenInTurn

LEMMA PushInTurn ==
  ASSUME QueueInv, OrderInv, QueueInv', Push
  PROVE  InTurn
<1>1. UNCHANGED <<written, taken, lpc, got>> /\ cur \in Sdu
  BY DEF Push, lowVars, QueueInv, Shape
<1>2. CASE HasRoom
  <2>1. Places' = Places /\ \A i \in Places : At(i)' = At(i)
    BY <1>1, <1>2 DEF Push, Places, At, QueueInv, Shape
  <2> QED
    BY <1>1, <2>1, SameLine DEF QueueInv
<1>3. CASE ~HasRoom
  <2>1. PICK last \in Nat : last = Len(fifo) + 1
    BY PlaceFacts DEF QueueInv
  <2>2. /\ \A i \in Places' : i + 0 = i /\ i \in Places /\ At(i)' = At(i)
        /\ \A i \in Places : i # last => i \in Places'
    BY <1>1, <1>3, <2>1 DEF Push, Places, At, QueueInv, Shape
  <2>3. OrderInv'
    BY <1>1, <2>2, MovingOrder DEF QueueInv, OrderInv, Behind
  <2>4. LeavesInTurn
    <3>1. upc = "push"
      BY DEF Push
    <3> QED
      BY <1>3, <2>1, <2>2, <3>1 DEF LeavesInTurn
  <2> QED
    BY <1>1, <2>3, <2>4 DEF InTurn, TakenInTurn
<1> QED
  BY <1>2, <1>3

LEMMA DiscardInTurn ==
  ASSUME QueueInv, OrderInv, QueueInv', NEW sn \in SNs, Discard(sn)
  PROVE  InTurn
<1>1. Places' = Places /\ \A i \in Places : At(i)' = At(i)
  BY DEF Discard, Places, At, QueueInv, Shape, lowVars
<1> QED
  BY <1>1, SameLine DEF Discard, QueueInv, lowVars

\* The first place is given up, and what was there is taken or had been discarded.
LEMMA LeavingInTurn ==
  ASSUME QueueInv, OrderInv, Shape', NEW gone \in Places, NEW step \in {0, 1},
         \A i \in Places : gone <= i,
         \A i \in Places' : /\ i + step \in Places /\ i + step # gone
                            /\ At(i)' = At(i + step),
         \A i \in Places : i # gone => i - step \in Places',
         written' = written,
         IF Valid(At(gone)) THEN taken' = At(gone).id ELSE taken' = taken
  PROVE  InTurn
<1>1. /\ \A i \in Places : i \in Nat /\ At(i).id \in Nat
      /\ \A i \in Places' : i \in Nat
      /\ written \in Nat /\ taken \in Nat /\ taken <= written
      /\ \A i \in Places : taken < At(i).id /\ At(i).id <= written
  BY PlaceFacts DEF QueueInv, OrderInv, Behind, Places, Shape
<1>2. \A i \in Places : i # gone => At(gone).id < At(i).id
  BY <1>1 DEF OrderInv, Ascending
<1>3. taken' \in Nat /\ taken' <= written'
  BY <1>1
<1>4. \A i \in Places' : taken' < At(i + step).id
  BY <1>1, <1>2
<1>5. OrderInv'
  BY <1>3, <1>4, MovingOrder
<1>6. LeavesInTurn
  <2> SUFFICES ASSUME NEW i \in Places, \A j \in Places' : At(j)' # At(i)
               PROVE  \/ taken' = At(i).id /\ First(i)
                      \/ At(i).sn # None /\ slots[SlotOf(At(i).sn)] = Discarded
    BY DEF LeavesInTurn
  <2>1. i # gone => i - step \in Places' /\ (i - step) + step = i
    BY <1>1
  <2>2. i = gone
    BY <2>1
  <2> QED
    BY <2>2, FirstFacts
<1>7. TakenInTurn
  BY <1>1, FirstFacts DEF TakenInTurn
<1> QED
  BY <1>5, <1>6, <1>7 DEF InTurn

LEMMA PopInTurn ==
  ASSUME QueueInv, OrderInv, QueueInv', Pop
  PROVE  InTurn
<1>1. /\ Shape /\ fifo # <<>> /\ fifo' = Tail(fifo) /\ lpc # "release"
      /\ UNCHANGED <<upc, cur, written>> /\ got' = Head(fifo)
  BY DEF Pop, QueueInv, upVars
<1>2. \A i \in Places : 1 <= i
  BY <1>1, PlaceFacts DEF Places
<1>3. CASE Head(fifo).sn # None
  <2>1. lpc' = "release" /\ taken' = taken
    BY <1>3 DEF Pop
  <2>2. /\ \A i \in Places' : i + 1 \in Places /\ At(i)' = At(i + 1)
        /\ \A i \in Places : i - 1 \in Places' /\ (i - 1) + 1 = i
    BY <1>1, <2>1, PopMoves, PlaceFacts
  <2>3. OrderInv'
    BY <1>1, <2>1, <2>2, MovingOrder DEF QueueInv, OrderInv, Behind
  <2>4. LeavesInTurn
    BY <2>2 DEF LeavesInTurn
  <2> QED
    BY <2>1, <2>3, <2>4 DEF InTurn, TakenInTurn
<1>4. CASE Head(fifo).sn = None
  <2>1. lpc' # "release" /\ taken' = Head(fifo).id
    BY <1>4 DEF Pop
  <2>2. 1 \in Places /\ At(1) = Head(fifo) /\ Valid(At(1))
    BY <1>1, <1>4, PopMoves DEF Valid
  <2>3. \A i \in Places' : i \in Nat /\ i # 0 /\ i + 1 # 1
    BY <1>1, <2>1, PopMoves DEF Places, Shape
  <2> QED
    BY <1>1, <1>2, <2>1, <2>2, <2>3, PopMoves, LeavingInTurn DEF QueueInv
<1> QED
  BY <1>3, <1>4

LEMMA FrontDropInTurn ==
  ASSUME QueueInv, OrderInv, QueueInv', FrontDrop
  PROVE  InTurn
<1>1. /\ Shape /\ fifo # <<>> /\ fifo' = Tail(fifo) /\ lpc # "release" /\ lpc' # "release"
      /\ UNCHANGED <<upc, cur, written, taken>>
  BY DEF FrontDrop, FrontInvalid, QueueInv, upVars, lowVars
<1>2. \A i \in Places : 1 <= i
  BY <1>1, PlaceFacts DEF Places
<1>3. 1 \in Places /\ ~Valid(At(1))
  BY <1>1, PopMoves DEF FrontDrop, FrontInvalid, StillValid, Valid
<1>4. \A i \in Places' : i \in Nat /\ i # 0 /\ i + 1 # 1
  BY <1>1, PopMoves DEF Places, Shape, QueueInv
<1> QED
  BY <1>1, <1>2, <1>3, <1>4, PopMoves, LeavingInTurn DEF QueueInv

LEMMA ReleaseInTurn ==
  ASSUME QueueInv, OrderInv, QueueInv', Release
  PROVE  InTurn
<1>1. 0 \in Places /\ At(0) = got /\ got \in Sdu /\ got.sn # None
  BY DEF Release, Places, At, QueueInv, Shape
<1>2. Shape' /\ lpc' # "release" /\ written' = written
  BY DEF Release, QueueInv, upVars
<1>3. IF Valid(At(0)) THEN taken' = At(0).id ELSE taken' = taken
  BY <1>1 DEF Release, StillValid, Valid
<1>4. \A i \in Places' : i + 0 \in Places /\ i + 0 # 0 /\ At(i)' = At(i + 0)
  BY <1>2 DEF Release, Places, At, QueueInv, Shape, upVars
<1>5. \A i \in Places : 0 <= i /\ (i # 0 => i - 0 \in Places')
  BY <1>2 DEF Release, Places, QueueInv, Shape, upVars
<1> QED
  BY <1>1, <1>2, <1>3, <1>4, <1>5, LeavingInTurn

LEMMA StepInTurn ==
  ASSUME QueueInv, OrderInv, QueueInv', [Next]_vars
  PROVE  InTurn
<1>1. ASSUME NEW s \in Sdu, Write(s) PROVE InTurn
  BY <1>1, WriteInTurn
<1>2. ASSUME NEW sn \in SNs, Discard(sn) PROVE InTurn
  BY <1>2, DiscardInTurn
<1>3. CASE Push
  BY <1>3, PushInTurn
<1>4. CASE Count \/ Uncount \/ Flag
  BY <1>4, UntouchedInTurn DEF Count, Uncount, Flag, queueVars, lowVars
<1>5. CASE Pop
  BY <1>5, PopInTurn
<1>6. CASE Release
  BY <1>6, ReleaseInTurn
<1>7. CASE StartSlot \/ PopNothing \/ RunUpdate \/ Load \/ Report
  BY <1>7, UntouchedInTurn
     DEF StartSlot, PopNothing, RunUpdate, Load, Report, queueVars, upVars
<1>8. ASSUME NEW g \in Grants, Continue(g) \/ SendNew(g) PROVE InTurn
  BY <1>8, UntouchedInTurn DEF Continue, SendNew, AfterPdu, queueVars, upVars
<1>9. CASE FrontDrop
  BY <1>9, FrontDropInTurn
<1>10. CASE UNCHANGED vars
  BY <1>10, UntouchedInTurn DEF vars, queueVars, upVars, lowVars
<1> QED
  BY <1>1, <1>2, <1>3, <1>4, <1>5, <1>6, <1>7, <1>8, <1>9, <1>10
     DEF Next, UpperStep, PullStep, StateStep

\* In every instance and every interleaving of the two threads, read() takes the first
\* SDU in the line that is not discarded, never one that is older than what it took
\* before, and no SDU is lost to the line but by being taken, discarded or refused: what
\* the refinement of SduBuffer says of the order, without its buffer.
THEOREM ReadsInTurn == Spec => [][TakenInTurn /\ LeavesInTurn]_vars
<1>1. OrderInv /\ QueueInv /\ QueueInv' /\ [Next]_vars => OrderInv'
  BY StepInTurn DEF InTurn
<1>2. OrderInv /\ QueueInv /\ QueueInv' /\ [Next]_vars => [TakenInTurn /\ LeavesInTurn]_vars
  BY StepInTurn DEF InTurn
<1>3. Spec => []QueueInv
  BY InitQueue, StepKeeps, PTL DEF Spec
<1>4. Spec => []OrderInv
  BY InitOrder, <1>1, <1>3, PTL DEF Spec
<1> QED
  BY <1>2, <1>3, <1>4, PTL DEF Spec

-----------------------------------------------------------------------------
(* The queue as a set, as the refinement sees it.                          *)

\* While an SDU is pushed it is the last one written, and nobody can discard it.
OfferInv ==
  upc = "push" => /\ cur.id = written
                  /\ cur.sn # None => slots[SlotOf(cur.sn)] = cur.sn

LineInv == QueueInv /\ OrderInv /\ OfferInv

\* No two SDUs in the queue have the same id, and one that is being pushed is not
\* among them.
LEMMA HeldFacts ==
  ASSUME QueueInv, OrderInv
  PROVE  /\ Held \subseteq Sdu
         /\ written \in Nat /\ taken \in Nat
         /\ \A s \in Held : s.id \in Nat /\ taken < s.id /\ s.id <= written
         /\ \A s, t \in Held : s.id = t.id => s = t
         /\ upc = "push" => /\ cur \in Sdu /\ cur \notin Held
                            /\ \A s \in Held : s.id < cur.id
<1>1. \A s \in Held : \E i \in Places : i # Len(fifo) + 1 /\ s = At(i)
  <2> TAKE s \in Held
  <2>1. CASE \E i \in DOMAIN fifo : s = fifo[i]
    BY <2>1 DEF Places, At, QueueInv, Shape
  <2>2. CASE lpc = "release" /\ s = got
    <3>1. 0 \in Places /\ At(0) = got /\ 0 # Len(fifo) + 1
      BY <2>2 DEF Places, At, QueueInv, Shape
    <3> QED
      BY <2>2, <3>1
  <2> QED
    BY <2>1, <2>2 DEF Held
<1>2. \A i \in Places : i \in Nat /\ At(i) \in Sdu /\ At(i).id \in Nat
  BY PlaceFacts DEF QueueInv
<1>3. /\ Held \subseteq Sdu /\ written \in Nat /\ taken \in Nat
      /\ \A s \in Held : s.id \in Nat /\ taken < s.id /\ s.id <= written
  BY <1>1, <1>2 DEF OrderInv, Behind
<1>4. ASSUME NEW s \in Held, NEW t \in Held, s.id = t.id
      PROVE  s = t
  <2>1. PICK i \in Places, j \in Places : s = At(i) /\ t = At(j)
    BY <1>1
  <2>2. ~(i < j) /\ ~(j < i)
    BY <1>2, <1>4, <2>1 DEF OrderInv, Ascending
  <2> QED
    BY <1>2, <2>1, <2>2
<1>5. ASSUME upc = "push"
      PROVE  cur \in Sdu /\ \A s \in Held : s.id < cur.id
  <2>1. PICK last \in Nat : last = Len(fifo) + 1
    BY PlaceFacts DEF QueueInv
  <2>2. last \in Places /\ At(last) = cur
    BY <1>5, <2>1 DEF Places, At, QueueInv, Shape
  <2>3. \A i \in Places : i # last => i < last
    BY <1>2, <2>1 DEF Places
  <2> QED
    BY <1>1, <1>2, <2>1, <2>2, <2>3 DEF OrderInv, Ascending
<1> QED
  BY <1>3, <1>4, <1>5

\* Two that hold a slot hold two slots.
LEMMA OwnSlots ==
  ASSUME QueueInv
  PROVE  LET holders == Held \cup (IF upc = "push" THEN {cur} ELSE {})
         IN  \A s, t \in holders :
               s.sn # None /\ t.sn # None /\ s # t => SlotOf(s.sn) # SlotOf(t.sn)
BY QueueInvHolds DEF SlotHeld

\* Setting the slot of one says nothing of another.
LEMMA OthersKept ==
  ASSUME QueueInv, OrderInv, NEW s \in Held \cup (IF upc = "push" THEN {cur} ELSE {}), NEW v,
         SetSlot(s.sn, v),
         NEW t \in Held \cup (IF upc = "push" THEN {cur} ELSE {}), t # s, t.sn # None
  PROVE  slots'[SlotOf(t.sn)] = slots[SlotOf(t.sn)]
<1>1. s.sn # None => SlotOf(s.sn) # SlotOf(t.sn)
  BY OwnSlots
<1>2. s \in Sdu /\ t \in Sdu
  BY HeldFacts
<1>3. SlotOf(t.sn) \in Slots
  BY <1>2, SduFacts
<1> QED
  BY <1>1, <1>3 DEF SetSlot, QueueInv, Shape

\* Who leaves, and gives his slot back, leaves the rest as it was.
LEMMA LeavingBuffer ==
  ASSUME QueueInv, OrderInv, NEW s \in Held, Held' = Held \ {s}, SetSlot(s.sn, Free)
  PROVE  Buffered' = Buffered \ {s}
<1>1. \A t \in Held : t # s => (Valid(t)' <=> Valid(t))
  BY OthersKept DEF Valid
<1> QED
  BY <1>1 DEF Buffered

LEMMA SameBuffer ==
  ASSUME UNCHANGED slots, Held' = Held
  PROVE  Buffered' = Buffered
BY DEF Buffered, Valid

-----------------------------------------------------------------------------
(* What each step does to the queue.                                       *)

\* Where the UE executor has nothing to push, or goes on with it.
LEMMA OfferKept ==
  ASSUME LineInv, upc' = "push" => upc = "push" /\ UNCHANGED <<cur, written>>,
         \/ UNCHANGED slots
         \/ \E s \in Held : SetSlot(s.sn, Free)
         \/ upc' # "push"
  PROVE  OfferInv'
<1> SUFFICES ASSUME upc' = "push" PROVE OfferInv'
  BY DEF OfferInv
<1>1. upc = "push" /\ cur \notin Held /\ UNCHANGED <<cur, written>>
  BY HeldFacts DEF LineInv
<1>2. CASE UNCHANGED slots
  BY <1>1, <1>2 DEF OfferInv, LineInv
<1>3. ASSUME NEW s \in Held, SetSlot(s.sn, Free) PROVE OfferInv'
  <2>1. s # cur
    BY <1>1
  <2>2. cur.sn # None => slots'[SlotOf(cur.sn)] = slots[SlotOf(cur.sn)]
    BY <1>1, <1>3, <2>1, OthersKept DEF LineInv
  <2> QED
    BY <1>1, <2>2 DEF OfferInv, LineInv
<1> QED
  BY <1>2, <1>3

LEMMA WriteBuffer ==
  ASSUME LineInv, NEW s \in Sdu, Write(s)
  PROVE  OfferInv' /\ UNCHANGED <<Buffered, Offered, taken>>
<1>1. /\ upc = "idle" /\ upc' = "push" /\ cur' = s /\ written' = s.id /\ s.id = written + 1
      /\ UNCHANGED <<fifo, lpc, got, taken>> /\ SetSlot(s.sn, s.sn)
      /\ written \in Nat
  BY HeldFacts DEF Write, lowVars, LineInv
<1>2. s.sn # None => slots[SlotOf(s.sn)] = Free /\ SlotOf(s.sn) \in Slots
  BY SduFacts DEF Write, SlotIsFree
<1>3. Held' = Held
  BY <1>1 DEF Held
<1>4. \A t \in Held : t.sn # None => slots[SlotOf(t.sn)] # Free /\ SlotOf(t.sn) \in Slots
  <2>1. \A t \in Held : t.sn # None => t.sn \in SNs /\ SlotOf(t.sn) \in Slots
    BY HeldFacts, SduFacts DEF LineInv
  <2>2. \A t \in Held : t.sn # None => slots[SlotOf(t.sn)] \in {t.sn, Discarded}
    BY QueueInvHolds DEF SlotHeld, LineInv
  <2> QED
    BY <2>1, <2>2, SlotFacts
<1>5. \A t \in Held : Valid(t)' <=> Valid(t)
  BY <1>1, <1>2, <1>4 DEF Valid, SetSlot, LineInv, QueueInv, Shape
<1>6. Buffered' = Buffered
  BY <1>3, <1>5 DEF Buffered
<1>7. OfferInv'
  BY <1>1, <1>2 DEF OfferInv, SetSlot, LineInv, QueueInv, Shape
<1>8. Offered' = Offered
  BY <1>1 DEF Offered
<1> QED
  BY <1>1, <1>6, <1>7, <1>8

LEMMA PushBuffer ==
  ASSUME LineInv, Push
  PROVE  /\ OfferInv' /\ UNCHANGED taken
         /\ cur \in Sdu /\ cur.id > Offered /\ Offered' = cur.id
         /\ IF HasRoom
            THEN cur \notin Buffered /\ Buffered' = Buffered \cup {cur}
            ELSE Buffered' = Buffered
<1>1. /\ upc = "push" /\ upc' # "push" /\ UNCHANGED <<written, lpc, got, taken>>
      /\ cur \in Sdu /\ cur \notin Held /\ cur.id = written /\ written \in Nat
  BY HeldFacts DEF Push, lowVars, LineInv, OfferInv
<1>2. OfferInv' /\ cur.id > Offered /\ Offered' = cur.id
  BY <1>1 DEF OfferInv, Offered
<1>3. CASE HasRoom
  <2>1. fifo' = Append(fifo, cur) /\ UNCHANGED slots
    BY <1>3 DEF Push
  <2>2. Held' = Held \cup {cur}
    <3>1. {fifo'[i] : i \in DOMAIN fifo'} = {fifo[i] : i \in DOMAIN fifo} \cup {cur}
      BY <1>1, <2>1 DEF LineInv, QueueInv, Shape
    <3> QED
      BY <1>1, <3>1 DEF Held
  <2>3. Valid(cur) /\ \A s : Valid(s)' <=> Valid(s)
    BY <1>1, <2>1 DEF Valid, OfferInv, LineInv
  <2>4. Buffered' = Buffered \cup {cur} /\ cur \notin Buffered
    BY <1>1, <2>2, <2>3 DEF Buffered
  <2> QED
    BY <1>1, <1>2, <1>3, <2>4
<1>4. CASE ~HasRoom
  <2>1. SetSlot(cur.sn, Free) /\ UNCHANGED fifo
    BY <1>4 DEF Push, PushFails
  <2>2. Held' = Held
    BY <1>1, <2>1 DEF Held
  <2>3. \A t \in Held : Valid(t)' <=> Valid(t)
    BY <1>1, <2>1, OthersKept DEF Valid, LineInv
  <2>4. Buffered' = Buffered
    BY <2>2, <2>3 DEF Buffered
  <2> QED
    BY <1>1, <1>2, <1>4, <2>4
<1> QED
  BY <1>3, <1>4

LEMMA DiscardBuffer ==
  ASSUME LineInv, NEW sn \in SNs, Discard(sn)
  PROVE  /\ OfferInv' /\ UNCHANGED <<Offered, taken>>
         /\ cur' \in Buffered /\ cur' \in Sdu /\ Buffered' = Buffered \ {cur'}
<1>1. /\ upc = "idle" /\ upc' = "uncount" /\ slots[SlotOf(sn)] = sn /\ SetSlot(sn, Discarded)
      /\ UNCHANGED <<fifo, lpc, got, written, taken>>
  BY DEF Discard, lowVars
<1>2. cur' \in Held /\ cur'.sn = sn
  BY DEF Discard
<1>3. sn # None /\ sn # Discarded /\ SlotOf(sn) \in Slots
  BY SlotFacts
<1>4. Held' = Held
  BY <1>1 DEF Held
<1>5. \A t \in Held : t # cur' => (Valid(t)' <=> Valid(t))
  BY <1>1, <1>2, OthersKept DEF Valid, LineInv
<1>6. Valid(cur') /\ ~(slots'[SlotOf(sn)] = sn)
  BY <1>1, <1>2, <1>3 DEF Valid, SetSlot, LineInv, QueueInv, Shape
<1>7. cur' \in Buffered /\ Buffered' = Buffered \ {cur'}
  <2>1. cur' \in Buffered
    BY <1>2, <1>6 DEF Buffered
  <2>2. \A t \in Held : Valid(t)' <=> Valid(t) /\ t # cur'
    BY <1>2, <1>3, <1>5, <1>6 DEF Valid
  <2> QED
    BY <1>4, <2>1, <2>2 DEF Buffered
<1>8. cur' \in Sdu
  BY <1>2, HeldFacts DEF LineInv
<1> QED
  BY <1>1, <1>7, <1>8 DEF OfferInv, Offered

\* The first of the FIFO is not in it again.
LEMMA TailHeld ==
  ASSUME QueueInv, OrderInv, fifo # <<>>, fifo' = Tail(fifo),
         lpc # "release", lpc' # "release"
  PROVE  Head(fifo) \in Held /\ Held' = Held \ {Head(fifo)}
<1>1. /\ Len(fifo) \in Nat /\ Len(fifo) >= 1 /\ Head(fifo) = fifo[1]
      /\ DOMAIN fifo = 1 .. Len(fifo) /\ DOMAIN fifo' = 1 .. Len(fifo) - 1
      /\ \A i \in 1 .. Len(fifo) - 1 : fifo'[i] = fifo[i + 1]
  BY DEF QueueInv, Shape
<1>2. /\ Held = {fifo[i] : i \in 1 .. Len(fifo)}
      /\ Held' = {fifo'[i] : i \in 1 .. Len(fifo) - 1}
  BY <1>1 DEF Held
<1>3. \A i \in 1 .. Len(fifo) : i # 1 => fifo[1] # fifo[i]
  <2> SUFFICES ASSUME NEW i \in 1 .. Len(fifo), i # 1
               PROVE  fifo[1].id < fifo[i].id /\ fifo[1].id \in Nat
    OBVIOUS
  <2>1. 1 \in Places /\ i \in Places /\ 1 < i
    BY <1>1 DEF Places
  <2>2. At(1) = fifo[1] /\ At(i) = fifo[i]
    BY <1>1 DEF At
  <2> QED
    BY <2>1, <2>2, PlaceFacts DEF QueueInv, OrderInv, Ascending
<1>4. Head(fifo) \in Held
  BY <1>1, <1>2
<1>5. ASSUME NEW s \in Held' PROVE s \in Held /\ s # Head(fifo)
  <2>1. PICK i \in 1 .. Len(fifo) - 1 : s = fifo'[i]
    BY <1>2
  <2>2. i + 1 \in 1 .. Len(fifo) /\ i + 1 # 1 /\ s = fifo[i + 1]
    BY <1>1, <2>1
  <2> QED
    BY <1>1, <1>2, <1>3, <2>2
<1>6. ASSUME NEW s \in Held, s # Head(fifo) PROVE s \in Held'
  <2>1. PICK i \in 1 .. Len(fifo) : s = fifo[i]
    BY <1>2
  <2>2. i - 1 \in 1 .. Len(fifo) - 1 /\ (i - 1) + 1 = i
    BY <1>1, <1>6, <2>1
  <2>3. s = fifo'[i - 1]
    BY <1>1, <2>1, <2>2
  <2> QED
    BY <1>2, <2>2, <2>3
<1> QED
  BY <1>4, <1>5, <1>6

\* What is taken is the first of what is buffered.
LEMMA FirstTaken ==
  ASSUME QueueInv, OrderInv, NEW i \in Places, \A j \in Places : i <= j,
         i # Len(fifo) + 1, NEW t \in Held
  PROVE  At(i).id <= t.id
<1>1. \E j \in Places : t = At(j)
  <2>1. CASE \E j \in DOMAIN fifo : t = fifo[j]
    BY <2>1 DEF Places, At, QueueInv, Shape
  <2>2. CASE lpc = "release" /\ t = got
    <3>1. 0 \in Places /\ At(0) = got
      BY <2>2 DEF Places, At, QueueInv, Shape
    <3> QED
      BY <2>2, <3>1
  <2> QED
    BY <2>1, <2>2 DEF Held
<1>2. PICK j \in Places : t = At(j)
  BY <1>1
<1>3. i \in Nat /\ j \in Nat /\ i <= j /\ At(i).id \in Nat /\ At(j).id \in Nat
  BY PlaceFacts DEF QueueInv
<1>4. CASE i = j
  BY <1>2, <1>3, <1>4
<1>5. CASE i < j
  <2>1. At(i).id < At(j).id
    BY <1>5 DEF OrderInv, Ascending
  <2> QED
    BY <1>2, <1>3, <2>1
<1> QED
  BY <1>3, <1>4, <1>5

TakeFrom(s) ==
  /\ s \in Buffered /\ \A t \in Buffered : s.id <= t.id
  /\ s.id > taken /\ taken' = s.id
  /\ Buffered' = Buffered \ {s}

LEMMA PopBuffer ==
  ASSUME LineInv, Pop
  PROVE  /\ OfferInv' /\ UNCHANGED Offered /\ got' \in Sdu
         /\ IF Head(fifo).sn = None
            THEN TakeFrom(got')
            ELSE UNCHANGED <<Buffered, taken>>
<1>1. /\ fifo # <<>> /\ fifo' = Tail(fifo) /\ got' = Head(fifo) /\ lpc # "release"
      /\ UNCHANGED <<slots, upc, cur, written>>
  BY DEF Pop, upVars
<1>2. OfferInv' /\ UNCHANGED Offered
  BY <1>1, OfferKept DEF Offered
<1>3. CASE Head(fifo).sn = None
  <2>1. lpc' # "release" /\ taken' = Head(fifo).id
    BY <1>3 DEF Pop
  <2>2. Head(fifo) \in Held /\ Held' = Held \ {Head(fifo)}
    BY <1>1, <2>1, TailHeld DEF LineInv
  <2>3. SetSlot(Head(fifo).sn, Free)
    BY <1>1, <1>3 DEF SetSlot
  <2>4. Buffered' = Buffered \ {Head(fifo)} /\ Head(fifo) \in Buffered
    <3>1. Buffered' = Buffered \ {Head(fifo)}
      BY <2>2, <2>3, LeavingBuffer DEF LineInv
    <3> QED
      BY <1>3, <2>2, <3>1 DEF Buffered, Valid
  <2>5. 1 \in Places /\ At(1) = Head(fifo) /\ 1 # Len(fifo) + 1 /\ \A i \in Places : 1 <= i
    BY <1>1 DEF Places, At, LineInv, QueueInv, Shape
  <2>6. \A t \in Held : Head(fifo).id <= t.id
    BY <2>5, FirstTaken DEF LineInv
  <2>7. Head(fifo).id > taken /\ Head(fifo) \in Sdu
    BY <2>2, HeldFacts DEF LineInv
  <2>8. TakeFrom(got')
    BY <1>1, <2>1, <2>4, <2>6, <2>7 DEF TakeFrom, Buffered
  <2> QED
    BY <1>1, <1>2, <1>3, <2>7, <2>8
<1>4. CASE Head(fifo).sn # None
  <2>1. lpc' = "release" /\ taken' = taken
    BY <1>4 DEF Pop
  <2>2. /\ Len(fifo) \in Nat /\ Len(fifo) >= 1 /\ Head(fifo) = fifo[1] /\ Head(fifo) \in Sdu
        /\ DOMAIN fifo = 1 .. Len(fifo) /\ DOMAIN fifo' = 1 .. Len(fifo) - 1
        /\ \A i \in 1 .. Len(fifo) - 1 : fifo'[i] = fifo[i + 1]
    BY <1>1 DEF LineInv, QueueInv, Shape
  <2>3. Held' = Held
    <3>1. /\ Held = {fifo[i] : i \in 1 .. Len(fifo)}
          /\ Held' = {fifo'[i] : i \in 1 .. Len(fifo) - 1} \cup {fifo[1]}
      BY <1>1, <2>1, <2>2 DEF Held
    <3>2. ASSUME NEW s \in Held' PROVE s \in Held
      <4>1. CASE s = fifo[1]
        BY <2>2, <3>1, <4>1
      <4>2. CASE s # fifo[1]
        <5>1. PICK i \in 1 .. Len(fifo) - 1 : s = fifo'[i]
          BY <3>1, <4>2
        <5>2. i + 1 \in 1 .. Len(fifo) /\ s = fifo[i + 1]
          BY <2>2, <5>1
        <5> QED
          BY <3>1, <5>2
      <4> QED
        BY <4>1, <4>2
    <3>3. ASSUME NEW s \in Held PROVE s \in Held'
      <4>1. PICK i \in 1 .. Len(fifo) : s = fifo[i]
        BY <3>1
      <4>2. i # 1 => i - 1 \in 1 .. Len(fifo) - 1 /\ (i - 1) + 1 = i
        BY <2>2
      <4>3. i # 1 => s = fifo'[i - 1]
        BY <2>2, <4>1, <4>2
      <4> QED
        BY <3>1, <4>1, <4>2, <4>3
    <3> QED
      BY <3>2, <3>3
  <2> QED
    BY <1>1, <1>2, <1>4, <2>1, <2>2, <2>3, SameBuffer
<1> QED
  BY <1>3, <1>4

LEMMA FrontDropBuffer ==
  ASSUME LineInv, FrontDrop
  PROVE  OfferInv' /\ UNCHANGED <<Buffered, Offered, taken>>
<1>1. /\ fifo # <<>> /\ fifo' = Tail(fifo) /\ lpc # "release" /\ lpc' # "release"
      /\ UNCHANGED <<upc, cur, written, taken>> /\ SetSlot(Head(fifo).sn, Free)
      /\ ~Valid(Head(fifo))
  BY DEF FrontDrop, FrontInvalid, StillValid, Valid, upVars, lowVars
<1>2. Head(fifo) \in Held /\ Held' = Held \ {Head(fifo)}
  BY <1>1, TailHeld DEF LineInv
<1>3. Buffered' = Buffered \ {Head(fifo)}
  BY <1>1, <1>2, LeavingBuffer DEF LineInv
<1>4. Head(fifo) \notin Buffered
  BY <1>1 DEF Buffered
<1>5. OfferInv'
  BY <1>1, <1>2, OfferKept
<1> QED
  BY <1>1, <1>3, <1>4, <1>5 DEF Offered

LEMMA ReleaseBuffer ==
  ASSUME LineInv, Release
  PROVE  /\ OfferInv' /\ UNCHANGED Offered /\ got \in Sdu
         /\ IF StillValid(got)
            THEN TakeFrom(got)
            ELSE UNCHANGED <<Buffered, taken>>
<1>1. /\ lpc = "release" /\ lpc' # "release" /\ SetSlot(got.sn, Free)
      /\ UNCHANGED <<fifo, got, upc, cur, written>>
      /\ taken' = IF StillValid(got) THEN got.id ELSE taken
  BY DEF Release, upVars
<1>2. /\ 0 \in Places /\ At(0) = got /\ 0 # Len(fifo) + 1 /\ \A i \in Places : 0 <= i
      /\ got.sn # None /\ got \in Sdu
  BY <1>1 DEF Places, At, LineInv, QueueInv, Shape
<1>3. got \in Held /\ Held' = Held \ {got}
  <2>1. \A i \in DOMAIN fifo : fifo[i] # got
    <3> SUFFICES ASSUME NEW i \in DOMAIN fifo PROVE got.id < fifo[i].id /\ got.id \in Nat
      OBVIOUS
    <3>1. i \in Places /\ At(i) = fifo[i] /\ 0 < i
      BY DEF Places, At, LineInv, QueueInv, Shape
    <3> QED
      BY <1>2, <3>1, PlaceFacts DEF LineInv, QueueInv, OrderInv, Ascending
  <2> QED
    BY <1>1, <2>1 DEF Held
<1>4. Buffered' = Buffered \ {got}
  BY <1>1, <1>3, LeavingBuffer DEF LineInv
<1>5. OfferInv' /\ UNCHANGED Offered
  <2>1. OfferInv'
    BY <1>1, <1>3, OfferKept
  <2> QED
    BY <1>1, <2>1 DEF Offered
<1>6. got \in Buffered <=> StillValid(got)
  BY <1>2, <1>3 DEF Buffered, Valid, StillValid
<1>7. \A t \in Held : got.id <= t.id
  BY <1>2, FirstTaken DEF LineInv
<1>8. got.id > taken
  BY <1>3, HeldFacts DEF LineInv
<1>9. StillValid(got) => TakeFrom(got)
  BY <1>1, <1>4, <1>6, <1>7, <1>8 DEF TakeFrom, Buffered
<1> QED
  BY <1>1, <1>2, <1>4, <1>5, <1>6, <1>9

\* Nothing else touches it.
LEMMA UntouchedBuffer ==
  ASSUME LineInv, UNCHANGED <<queueVars, written, taken>>,
         upc' = "push" <=> upc = "push", upc = "push" => cur' = cur,
         lpc' = "release" <=> lpc = "release", lpc = "release" => got' = got
  PROVE  OfferInv' /\ UNCHANGED <<Buffered, Offered, taken>>
<1>1. Held' = Held /\ UNCHANGED slots
  BY DEF Held, queueVars
<1>2. OfferInv'
  BY <1>1, OfferKept
<1> QED
  BY <1>1, <1>2, SameBuffer DEF Offered

-----------------------------------------------------------------------------
(* The refinement of SduBuffer.                                            *)

BufferStep == OfferInv' /\ [Buffer!Next]_(Buffer!vars)

LEMMA StepBuffer ==
  ASSUME LineInv, [Next]_vars
  PROVE  BufferStep
<1>1. ASSUME OfferInv', UNCHANGED <<Buffered, Offered, taken>> PROVE BufferStep
  BY <1>1 DEF BufferStep, Buffer!vars
<1>2. ASSUME OfferInv', UNCHANGED Offered, NEW s \in Sdu, TakeFrom(s) PROVE BufferStep
  <2>1. Buffer!Take(s)
    BY <1>2 DEF Buffer!Take, TakeFrom
  <2> QED
    BY <1>2, <2>1 DEF BufferStep, Buffer!Next
<1>3. ASSUME NEW s \in Sdu, Write(s) PROVE BufferStep
  <2>1. OfferInv' /\ UNCHANGED <<Buffered, Offered, taken>>
    BY <1>3, WriteBuffer
  <2> QED
    BY <1>1, <2>1
<1>4. ASSUME NEW sn \in SNs, Discard(sn) PROVE BufferStep
  <2>1. /\ OfferInv' /\ UNCHANGED <<Offered, taken>>
        /\ cur' \in Buffered /\ cur' \in Sdu /\ Buffered' = Buffered \ {cur'}
    BY <1>4, DiscardBuffer
  <2>2. Buffer!Discard(cur')
    BY <2>1 DEF Buffer!Discard
  <2> QED
    BY <2>1, <2>2 DEF BufferStep, Buffer!Next
<1>5. CASE Push
  <2>1. /\ OfferInv' /\ UNCHANGED taken
        /\ cur \in Sdu /\ cur.id > Offered /\ Offered' = cur.id
        /\ IF HasRoom THEN Buffered' = Buffered \cup {cur} ELSE Buffered' = Buffered
    BY <1>5, PushBuffer
  <2>2. Buffer!Accept(cur) \/ Buffer!Refuse(cur)
    BY <2>1 DEF Buffer!Accept, Buffer!Refuse
  <2> QED
    BY <2>1, <2>2 DEF BufferStep, Buffer!Next
<1>6. CASE Count \/ Uncount \/ Flag
  <2>1. OfferInv' /\ UNCHANGED <<Buffered, Offered, taken>>
    BY <1>6, UntouchedBuffer DEF Count, Uncount, Flag, queueVars, lowVars
  <2> QED
    BY <1>1, <2>1
<1>7. CASE Pop
  <2>1. /\ OfferInv' /\ UNCHANGED Offered /\ got' \in Sdu
        /\ TakeFrom(got') \/ UNCHANGED <<Buffered, taken>>
    BY <1>7, PopBuffer
  <2> QED
    BY <1>1, <1>2, <2>1
<1>8. CASE Release
  <2>1. /\ OfferInv' /\ UNCHANGED Offered /\ got \in Sdu
        /\ TakeFrom(got) \/ UNCHANGED <<Buffered, taken>>
    BY <1>8, ReleaseBuffer
  <2> QED
    BY <1>1, <1>2, <2>1
<1>9. CASE StartSlot \/ PopNothing \/ RunUpdate \/ Load \/ Report
  <2>1. OfferInv' /\ UNCHANGED <<Buffered, Offered, taken>>
    BY <1>9, UntouchedBuffer
       DEF StartSlot, PopNothing, RunUpdate, Load, Report, queueVars, upVars
  <2> QED
    BY <1>1, <2>1
<1>10. ASSUME NEW g \in Grants, Continue(g) \/ SendNew(g) PROVE BufferStep
  <2>1. OfferInv' /\ UNCHANGED <<Buffered, Offered, taken>>
    BY <1>10, UntouchedBuffer DEF Continue, SendNew, AfterPdu, queueVars, upVars
  <2> QED
    BY <1>1, <2>1
<1>11. CASE FrontDrop
  BY <1>1, <1>11, FrontDropBuffer
<1>12. CASE UNCHANGED vars
  <2>1. OfferInv' /\ UNCHANGED <<Buffered, Offered, taken>>
    BY <1>12, UntouchedBuffer DEF vars, queueVars, upVars, lowVars
  <2> QED
    BY <1>1, <2>1
<1> QED
  BY <1>3, <1>4, <1>5, <1>6, <1>7, <1>8, <1>9, <1>10, <1>11, <1>12
     DEF Next, UpperStep, PullStep, StateStep

LEMMA LineInductive == Spec => []LineInv
<1>1. Init => OfferInv
  BY DEF Init, OfferInv
<1>2. LineInv /\ QueueInv' /\ [Next]_vars => OrderInv' /\ OfferInv'
  BY StepInTurn, StepBuffer DEF InTurn, LineInv, BufferStep
<1>3. LineInv /\ QueueInv' /\ [Next]_vars => LineInv'
  BY <1>2 DEF LineInv
<1>4. Spec => []QueueInv
  BY InitQueue, StepKeeps, PTL DEF Spec
<1>5. Init => LineInv
  BY <1>1, InitQueue, InitOrder DEF LineInv
<1> QED
  BY <1>3, <1>4, <1>5, PTL DEF Spec

\* In every instance the lock-free queue is linearizable: with the effect of a write at
\* the push, of a discard at its mark and of a read at the release of the slot, it is an
\* SduBuffer, in which an SDU is accepted or refused once, taken in turn or discarded.
THEOREM Implements == Spec => KeepsOrder
<1>1. Init => Buffer!Init
  BY DEF Init, Buffer!Init, Buffered, Held, Offered
<1>2. LineInv /\ [Next]_vars => [Buffer!Next]_(Buffer!vars)
  BY StepBuffer DEF BufferStep
<1> QED
  BY <1>1, <1>2, LineInductive, PTL DEF Spec, KeepsOrder, Buffer!Spec

-----------------------------------------------------------------------------
(* Sums.                                                                   *)

\* Induction over a set of natural numbers, from the least one that is not in it.
LEMMA Induction ==
  ASSUME NEW S \in SUBSET Nat, 0 \in S, \A n \in S : n + 1 \in S
  PROVE  S = Nat
<1> SUFFICES ASSUME S # Nat PROVE FALSE
  OBVIOUS
<1> DEFINE R == OpToRel(<, Nat)
<1>1. IsWellFoundedOn(R, Nat)
  BY NatLessThanWellFounded, Zenon
<1>2. R = {ss \in Nat \X Nat : ss[1] < ss[2]}
  BY DEF OpToRel
<1> HIDE DEF R
<1>3. PICK n \in Nat \ S : \A m \in Nat \ S : ~(<<m, n>> \in R)
  BY <1>1, WFMin
<1>4. n # 0 /\ n - 1 \in Nat /\ (n - 1) + 1 = n
  BY <1>3
<1>5. <<n - 1, n>> \in R
  BY <1>2, <1>4
<1>6. n - 1 \in S
  BY <1>3, <1>4, <1>5
<1> QED
  BY <1>3, <1>4, <1>6

MaxId == Len(Lens)
Share(S, n) == When(\E s \in S : s.id = n, Lens[n])

\* The function in the definition of Bytes.
IsSum(f, S) == f = [n \in 0 .. MaxId |-> IF n = 0 THEN 0 ELSE f[n - 1] + Share(S, n)]
Partial(S) == CHOOSE f : IsSum(f, S)

LEMMA BytesPartial == \A S : Bytes(S) = Partial(S)[MaxId]
BY DEF Bytes, Partial, IsSum, MaxId, Share

LEMMA ShareFacts ==
  /\ MaxId \in Nat
  /\ \A S, n : n \in 1 .. MaxId => Share(S, n) \in Nat
<1>1. Lens \in Seq(Nat \ {0})
  BY SizesAssumption
<1>2. MaxId \in Nat /\ \A n \in 1 .. MaxId : Lens[n] \in Nat
  BY <1>1 DEF MaxId
<1> QED
  BY <1>2 DEF Share, When

LEMMA SumExists == ASSUME NEW S PROVE \E f \in [0 .. MaxId -> Nat] : IsSum(f, S)
<1> DEFINE Up(f, n) == f[0] = 0 /\ \A m \in 1 .. n : f[m] = f[m - 1] + Share(S, m)
           G == {n \in Nat : n <= MaxId => \E f \in [0 .. n -> Nat] : Up(f, n)}
<1>1. 0 \in G
  <2>1. [m \in 0 .. 0 |-> 0] \in [0 .. 0 -> Nat] /\ Up([m \in 0 .. 0 |-> 0], 0)
    OBVIOUS
  <2> QED
    BY <2>1
<1>2. ASSUME NEW n \in G PROVE n + 1 \in G
  <2> SUFFICES ASSUME n + 1 <= MaxId
               PROVE  \E f \in [0 .. n + 1 -> Nat] : Up(f, n + 1)
    OBVIOUS
  <2>1. n \in Nat /\ n <= MaxId
    BY ShareFacts
  <2>2. PICK f \in [0 .. n -> Nat] : Up(f, n)
    BY <2>1
  <2> DEFINE g == [m \in 0 .. n + 1 |-> IF m = n + 1 THEN f[n] + Share(S, n + 1) ELSE f[m]]
  <2>3. Share(S, n + 1) \in Nat
    <3>1. n + 1 \in 1 .. MaxId
      BY <2>1, ShareFacts
    <3> QED
      BY <3>1, ShareFacts
  <2>4. g \in [0 .. n + 1 -> Nat]
    BY <2>1, <2>3
  <2>5. g[0] = 0
    BY <2>1, <2>2
  <2>6. ASSUME NEW m \in 1 .. n + 1 PROVE g[m] = g[m - 1] + Share(S, m)
    <3>1. CASE m = n + 1
      BY <2>1, <3>1
    <3>2. CASE m # n + 1
      <4>1. m \in 1 .. n /\ m - 1 \in 0 .. n + 1 /\ m - 1 # n + 1 /\ m \in 0 .. n + 1
        BY <2>1, <3>2
      <4>2. g[m] = f[m] /\ g[m - 1] = f[m - 1]
        BY <3>2, <4>1
      <4> QED
        BY <2>2, <4>1, <4>2
    <3> QED
      BY <3>1, <3>2
  <2> HIDE DEF g
  <2> QED
    BY <2>4, <2>5, <2>6
<1>3. G \in SUBSET Nat
  OBVIOUS
<1> HIDE DEF G
<1>4. G = Nat
  BY <1>1, <1>2, <1>3, Induction
<1>5. PICK f \in [0 .. MaxId -> Nat] : Up(f, MaxId)
  <2>1. MaxId \in G /\ MaxId <= MaxId
    BY <1>4, ShareFacts
  <2> QED
    BY <2>1 DEF G
<1>6. \A n \in 0 .. MaxId : f[n] = IF n = 0 THEN 0 ELSE f[n - 1] + Share(S, n)
  BY <1>5, ShareFacts
<1>7. IsSum(f, S)
  BY <1>6 DEF IsSum
<1> QED
  BY <1>7

LEMMA PartialFacts ==
  ASSUME NEW S
  PROVE  /\ Partial(S)[0] = 0
         /\ \A n \in 1 .. MaxId : Partial(S)[n] = Partial(S)[n - 1] + Share(S, n)
         /\ \A n \in 0 .. MaxId : Partial(S)[n] \in Nat
<1>1. \E f : IsSum(f, S)
  BY SumExists
<1>2. IsSum(Partial(S), S)
  BY <1>1 DEF Partial
<1>3. PICK f : f = Partial(S)
  OBVIOUS
<1>4. f = [n \in 0 .. MaxId |-> IF n = 0 THEN 0 ELSE f[n - 1] + Share(S, n)]
  BY <1>2, <1>3 DEF IsSum
<1>5. f[0] = 0 /\ \A n \in 1 .. MaxId : f[n] = f[n - 1] + Share(S, n)
  BY <1>4, ShareFacts
<1> DEFINE G == {n \in Nat : n <= MaxId => f[n] \in Nat}
<1>6. 0 \in G
  BY <1>5
<1>7. \A n \in G : n + 1 \in G
  <2> SUFFICES ASSUME NEW n \in Nat, n \in G, n + 1 <= MaxId PROVE f[n + 1] \in Nat
    OBVIOUS
  <2>1. n + 1 \in 1 .. MaxId /\ (n + 1) - 1 = n /\ f[n] \in Nat
    BY ShareFacts
  <2> QED
    BY <1>5, <2>1, ShareFacts
<1>8. G = Nat
  <2>1. G \in SUBSET Nat
    OBVIOUS
  <2> HIDE DEF G
  <2> QED
    BY <1>6, <1>7, <2>1, Induction
<1> QED
  BY <1>3, <1>5, <1>8, ShareFacts

\* One SDU more is as many bytes more as it has.
LEMMA BytesAdd ==
  ASSUME NEW S, NEW s \in Sdu, \A t \in S : t.id # s.id
  PROVE  Bytes(S \cup {s}) = Bytes(S) + s.len
<1> DEFINE T == S \cup {s}
           p == Partial(S)
           q == Partial(T)
           G == {n \in Nat : n <= MaxId => q[n] = p[n] + (IF s.id <= n THEN s.len ELSE 0)}
<1>1. s.id \in 1 .. MaxId /\ s.len = Lens[s.id] /\ s.len \in Nat
  <2>1. s.id \in DOMAIN Lens /\ s.len = Lens[s.id]
    BY DEF Sdu, SduIds
  <2>2. Lens \in Seq(Nat \ {0})
    BY SizesAssumption
  <2> QED
    BY <2>1, <2>2, SduTypes DEF MaxId
<1>2. \A n \in 1 .. MaxId : Share(T, n) = IF n = s.id THEN s.len ELSE Share(S, n)
  BY <1>1 DEF Share, When
<1>3. Share(S, s.id) = 0
  BY DEF Share, When
<1>4. /\ p[0] = 0 /\ q[0] = 0
      /\ \A n \in 1 .. MaxId : p[n] = p[n - 1] + Share(S, n) /\ q[n] = q[n - 1] + Share(T, n)
      /\ \A n \in 0 .. MaxId : p[n] \in Nat /\ q[n] \in Nat
  BY PartialFacts
<1> HIDE DEF p, q, T
<1>5. 0 \in G
  BY <1>1, <1>4
<1>6. \A n \in G : n + 1 \in G
  <2> SUFFICES ASSUME NEW n \in Nat, n \in G, n + 1 <= MaxId
               PROVE  q[n + 1] = p[n + 1] + (IF s.id <= n + 1 THEN s.len ELSE 0)
    OBVIOUS
  <2>1. n + 1 \in 1 .. MaxId /\ (n + 1) - 1 = n /\ n \in 0 .. MaxId /\ n <= MaxId
    BY ShareFacts
  <2>2. q[n] = p[n] + (IF s.id <= n THEN s.len ELSE 0) /\ p[n] \in Nat /\ q[n] \in Nat
    BY <1>4, <2>1
  <2>3. /\ p[n + 1] = p[n] + Share(S, n + 1) /\ q[n + 1] = q[n] + Share(T, n + 1)
        /\ Share(S, n + 1) \in Nat /\ Share(T, n + 1) \in Nat
    BY <1>4, <2>1, ShareFacts
  <2>4. CASE s.id = n + 1
    BY <1>1, <1>2, <1>3, <2>1, <2>2, <2>3, <2>4
  <2>5. CASE s.id # n + 1
    <3>1. s.id <= n + 1 <=> s.id <= n
      BY <1>1, <2>5
    <3>2. Share(T, n + 1) = Share(S, n + 1)
      BY <1>2, <2>1, <2>5
    <3> QED
      BY <1>1, <2>2, <2>3, <3>1, <3>2
  <2> QED
    BY <2>4, <2>5
<1>7. MaxId \in G
  <2>1. G \in SUBSET Nat
    OBVIOUS
  <2> HIDE DEF G
  <2>2. G = Nat
    BY <1>5, <1>6, <2>1, Induction
  <2> QED
    BY <2>2, ShareFacts
<1>8. q[MaxId] = p[MaxId] + s.len
  BY <1>1, <1>7, ShareFacts
<1> QED
  BY <1>8, BytesPartial DEF p, q, T

LEMMA BytesType == ASSUME NEW S PROVE Bytes(S) \in Nat
BY BytesPartial, PartialFacts, ShareFacts

LEMMA BytesEmpty == Bytes({}) = 0
<1> DEFINE p == Partial({})
           G == {n \in Nat : n <= MaxId => p[n] = 0}
<1>1. p[0] = 0 /\ \A n \in 1 .. MaxId : p[n] = p[n - 1] + Share({}, n)
  BY PartialFacts
<1>2. \A n : Share({}, n) = 0
  BY DEF Share, When
<1> HIDE DEF p
<1>3. 0 \in G
  BY <1>1
<1>4. \A n \in G : n + 1 \in G
  <2> SUFFICES ASSUME NEW n \in Nat, n \in G, n + 1 <= MaxId PROVE p[n + 1] = 0
    OBVIOUS
  <2>1. n + 1 \in 1 .. MaxId /\ (n + 1) - 1 = n /\ p[n] = 0
    BY ShareFacts
  <2> QED
    BY <1>1, <1>2, <2>1
<1>5. MaxId \in G
  <2>1. G \in SUBSET Nat
    OBVIOUS
  <2> HIDE DEF G
  <2>2. G = Nat
    BY <1>3, <1>4, <2>1, Induction
  <2> QED
    BY <2>2, ShareFacts
<1> QED
  BY <1>5, BytesPartial, ShareFacts DEF p

-----------------------------------------------------------------------------
(* Arithmetic of the counters.                                             *)

\* Quotient and remainder are unique.
LEMMA Unique ==
  ASSUME NEW M \in Nat, M > 0, NEW q \in Int, NEW r \in Nat, r < M
  PROVE  (M * q + r) % M = r /\ (M * q + r) \div M = q
<1> DEFINE a == M * q + r
           p == a \div M
           s == a % M
<1>1. a \in Int /\ p \in Int /\ s \in Nat /\ s < M /\ a = M * p + s
  OBVIOUS
<1>2. M * (q - p) = s - r
  BY <1>1
<1> HIDE DEF a, p, s
<1>3. ~(q - p >= 1)
  <2> SUFFICES ASSUME q - p >= 1 PROVE FALSE
    OBVIOUS
  <2>1. M * (q - p) >= M
    BY <1>1
  <2> QED
    BY <1>1, <1>2, <2>1
<1>4. ~(p - q >= 1)
  <2> SUFFICES ASSUME p - q >= 1 PROVE FALSE
    OBVIOUS
  <2>1. M * (p - q) >= M
    BY <1>1
  <2>2. M * (p - q) = r - s
    BY <1>1, <1>2
  <2> QED
    BY <1>1, <2>1, <2>2
<1>5. p = q
  BY <1>1, <1>3, <1>4
<1>6. s = r
  BY <1>1, <1>2, <1>5
<1> QED
  BY <1>5, <1>6 DEF p, s, a

LEMMA Shift ==
  ASSUME NEW M \in Nat, M > 0, NEW a \in Int, NEW k \in Int
  PROVE  (M * k + a) % M = a % M /\ (M * k + a) \div M = k + a \div M
<1>1. PICK q \in Int, r \in Nat : r < M /\ a = M * q + r /\ q = a \div M /\ r = a % M
  OBVIOUS
<1>2. M * k + a = M * (k + q) + r
  BY <1>1
<1>3. (M * (k + q) + r) % M = r /\ (M * (k + q) + r) \div M = k + q
  BY <1>1, Unique
<1> QED
  BY <1>1, <1>2, <1>3

\* The two counters in one word add up like one number, with the carry or the borrow
\* from the bytes to the SDUs.
LEMMA Carry ==
  ASSUME NEW n \in Int, NEW b \in Int, NEW d \in Int, NEW x \in Int
  PROVE  /\ Wrap(Wrap(b) + x) = Wrap(b + x)
         /\ Wrap(Wrap(n + b \div CounterMod) + d + (Wrap(b) + x) \div CounterMod)
              = Wrap(n + d + (b + x) \div CounterMod)
<1>1. PICK M \in Nat : M = CounterMod /\ M > 0
  BY SizesAssumption
<1>2. PICK q \in Int, r \in Nat : b = M * q + r /\ q = b \div M /\ r = b % M
  BY <1>1
<1>3. PICK e \in Int : e = (r + x) \div M
  BY <1>1
<1>4. /\ (M * q + (r + x)) % M = (r + x) % M
      /\ (M * q + (r + x)) \div M = q + e
  BY <1>1, <1>3, Shift
<1>5. b + x = M * q + (r + x)
  <2>1. PICK t \in Int : t = M * q
    BY <1>1
  <2> QED
    BY <1>2, <2>1
<1>6. PICK g \in Int, h \in Nat : n + q = M * g + h /\ h = (n + q) % M
  BY <1>1
<1>7. (M * g + (h + d + e)) % M = (h + d + e) % M
  <2>1. h + d + e \in Int
    OBVIOUS
  <2> QED
    BY <1>1, <2>1, Shift
<1>8. n + d + (q + e) = M * g + (h + d + e)
  <2>1. PICK t \in Int : t = M * g
    BY <1>1
  <2>2. n + q = t + h
    BY <1>6, <2>1
  <2>3. n + d + (q + e) = t + (h + d + e)
    BY <2>2
  <2> QED
    BY <2>1, <2>3
<1>9. Wrap(b + x) = (r + x) % M /\ (b + x) \div M = q + e
  BY <1>1, <1>4, <1>5 DEF Wrap
<1>10. Wrap(n + d + (q + e)) = (h + d + e) % M
  BY <1>1, <1>7, <1>8 DEF Wrap
<1>11. Wrap(b) = r /\ Wrap(n + b \div CounterMod) = h
  BY <1>1, <1>2, <1>6 DEF Wrap
<1> QED
  BY <1>1, <1>3, <1>9, <1>10, <1>11 DEF Wrap

\* The pair of counters stands for n SDUs and b bytes, and is changed by d and x.
Stands(ns, nb, n, b) == nb = Wrap(b) /\ ns = Wrap(n + b \div CounterMod)
Changed(ns, nb, d, x, ns2, nb2) ==
  nb2 = Wrap(nb + x) /\ ns2 = Wrap(ns + d + (nb + x) \div CounterMod)

LEMMA CarryStands ==
  ASSUME NEW n \in Int, NEW b \in Int, NEW d \in Int, NEW x \in Int,
         NEW ns, NEW nb, NEW ns2, NEW nb2, NEW n2, NEW b2,
         Stands(ns, nb, n, b), Changed(ns, nb, d, x, ns2, nb2),
         n2 = n + d, b2 = b + x
  PROVE  Stands(ns2, nb2, n2, b2)
<1>1. nb = Wrap(b) /\ ns = Wrap(n + b \div CounterMod)
  BY DEF Stands
<1>2. nb2 = Wrap(Wrap(b) + x)
      /\ ns2 = Wrap(Wrap(n + b \div CounterMod) + d + (Wrap(b) + x) \div CounterMod)
  BY <1>1 DEF Changed
<1>3. /\ Wrap(Wrap(b) + x) = Wrap(b + x)
      /\ Wrap(Wrap(n + b \div CounterMod) + d + (Wrap(b) + x) \div CounterMod)
           = Wrap(n + d + (b + x) \div CounterMod)
  BY Carry
<1> QED
  BY <1>2, <1>3 DEF Stands

LEMMA WrapSmall ==
  ASSUME NEW n \in Nat, n < CounterMod
  PROVE  Wrap(n) = n /\ n \div CounterMod = 0
<1>1. PICK M \in Nat : M = CounterMod /\ M > 0
  BY SizesAssumption
<1>2. (M * 0 + n) % M = n /\ (M * 0 + n) \div M = 0
  BY <1>1, Unique
<1>3. M * 0 + n = n
  BY <1>1
<1> QED
  BY <1>1, <1>2, <1>3 DEF Wrap

-----------------------------------------------------------------------------
(* The counters.                                                           *)

\* The two sums in CountersAgree.
InSdus == Cardinality(Buffered) + When(lpc = "uncount", 1)
          + When(upc = "uncount", 1) - When(upc = "count", 1)
InBytes == Bytes(Buffered) + When(lpc = "uncount", got.len)
           + When(upc = "uncount", cur.len) - When(upc = "count", cur.len)

CountInv == nBytes = Wrap(InBytes) /\ nSdus = Wrap(InSdus + InBytes \div CounterMod)

LEMMA CountInvIs == CountInv <=> CountersAgree
BY DEF CountInv, CountersAgree, InSdus, InBytes

LEMMA BufferedFacts ==
  ASSUME LineInv
  PROVE  /\ IsFiniteSet(Buffered) /\ Cardinality(Buffered) \in Nat
         /\ Bytes(Buffered) \in Nat
         /\ Buffered \subseteq Held /\ Buffered \subseteq Sdu
<1> DEFINE R == {fifo[i] : i \in DOMAIN fifo}
<1>1. Len(fifo) \in Nat /\ DOMAIN fifo = 1 .. Len(fifo)
  BY DEF LineInv, QueueInv, Shape
<1>2. IsFiniteSet(1 .. Len(fifo))
  BY <1>1, FS_Interval
<1>3. fifo \in Surjection(1 .. Len(fifo), R)
  BY <1>1 DEF LineInv, QueueInv, Shape, Surjection
<1>4. IsFiniteSet(R)
  BY <1>2, <1>3, FS_Surjection
<1>5. IsFiniteSet(R \cup {got})
  BY <1>4, FS_AddElement
<1>6. Buffered \subseteq R \cup {got}
  BY DEF Buffered, Held
<1>7. IsFiniteSet(Buffered)
  BY <1>5, <1>6, FS_Subset
<1>8. Cardinality(Buffered) \in Nat
  BY <1>7, FS_CardinalityType
<1>9. Buffered \subseteq Held /\ Buffered \subseteq Sdu
  BY HeldFacts DEF Buffered, LineInv
<1> QED
  BY <1>7, <1>8, <1>9, BytesType

\* While the cell executor holds none that was popped, they are in the FIFO.
LEMMA BufferedFits ==
  ASSUME TypeInv, LineInv, lpc # "release"
  PROVE  /\ Bytes(Buffered) \in Nat /\ Cardinality(Buffered) \in Nat
         /\ Cardinality(Buffered) <= Capacity
<1> DEFINE R == {fifo[i] : i \in DOMAIN fifo}
<1>1. Len(fifo) \in Nat /\ DOMAIN fifo = 1 .. Len(fifo) /\ Len(fifo) <= Capacity
  BY DEF TypeInv, TypeOK
<1>2. IsFiniteSet(1 .. Len(fifo)) /\ Cardinality(1 .. Len(fifo)) = Len(fifo)
  <2>1. PICK n \in Nat : n = Len(fifo)
    BY <1>1
  <2>2. IsFiniteSet(1 .. n) /\ Cardinality(1 .. n) = IF 1 > n THEN 0 ELSE n - 1 + 1
    BY FS_Interval
  <2>3. Cardinality(1 .. n) = n
    BY <2>2
  <2> QED
    BY <2>1, <2>2, <2>3
<1>3. fifo \in Surjection(1 .. Len(fifo), R)
  BY <1>1 DEF TypeInv, TypeOK, Surjection
<1>4. IsFiniteSet(R) /\ Cardinality(R) <= Len(fifo)
  BY <1>2, <1>3, FS_Surjection
<1>5. Buffered \subseteq R
  BY DEF Buffered, Held
<1>6. Cardinality(Buffered) <= Cardinality(R)
  BY <1>4, <1>5, FS_Subset
<1>7. Cardinality(R) \in Nat /\ Capacity \in Nat
  BY <1>4, FS_CardinalityType, SizesAssumption
<1> QED
  BY <1>1, <1>4, <1>6, <1>7, BufferedFacts

LEMMA AddTally ==
  ASSUME LineInv, NEW s \in Sdu, \A t \in Buffered : t.id # s.id
  PROVE  /\ Bytes(Buffered \cup {s}) = Bytes(Buffered) + s.len
         /\ Cardinality(Buffered \cup {s}) = Cardinality(Buffered) + 1
<1>1. s \notin Buffered
  OBVIOUS
<1>2. Cardinality(Buffered \cup {s}) = Cardinality(Buffered) + 1
  BY <1>1, BufferedFacts, FS_AddElement
<1> QED
  BY <1>2, BytesAdd

LEMMA RemoveTally ==
  ASSUME LineInv, NEW s \in Buffered
  PROVE  /\ Bytes(Buffered \ {s}) = Bytes(Buffered) - s.len
         /\ Cardinality(Buffered \ {s}) = Cardinality(Buffered) - 1
<1>1. Cardinality(Buffered \ {s}) = Cardinality(Buffered) - 1
  BY BufferedFacts, FS_RemoveElement
<1>2. s \in Sdu /\ s.len \in Nat
  BY BufferedFacts, SduTypes
<1>3. \A t \in Buffered \ {s} : t.id # s.id
  BY BufferedFacts, HeldFacts DEF LineInv
<1>4. Bytes((Buffered \ {s}) \cup {s}) = Bytes(Buffered \ {s}) + s.len
  BY <1>2, <1>3, BytesAdd
<1>5. (Buffered \ {s}) \cup {s} = Buffered
  OBVIOUS
<1>6. PICK b \in Nat : b = Bytes(Buffered \ {s})
  BY BytesType
<1>7. Bytes(Buffered) = b + s.len
  BY <1>4, <1>5, <1>6
<1>8. b = Bytes(Buffered) - s.len
  BY <1>2, <1>7
<1> QED
  BY <1>1, <1>6, <1>8

LEMMA TallyTypes ==
  ASSUME TypeInv, LineInv
  PROVE  /\ InSdus \in Int /\ InBytes \in Int
         /\ upc \in {"count", "uncount"} => cur.len \in Nat
         /\ lpc = "uncount" => got.len \in Nat
         /\ nBytes \in Nat /\ nSdus \in Nat
<1>1. upc \in {"count", "uncount"} => cur.len \in Nat
  BY SduTypes DEF TypeInv, InHand
<1>2. lpc = "uncount" => got.len \in Nat
  BY SduTypes DEF TypeInv, InHand
<1>3. nBytes \in Nat /\ nSdus \in Nat
  BY SizesAssumption DEF TypeInv, TypeOK
<1>4. Cardinality(Buffered) \in Nat /\ Bytes(Buffered) \in Nat
  BY BufferedFacts
<1> QED
  BY <1>1, <1>2, <1>3, <1>4 DEF InSdus, InBytes, When

LEMMA TallyKept ==
  ASSUME CountInv, UNCHANGED <<counters, InSdus, InBytes>>
  PROVE  CountInv'
BY DEF CountInv, counters, Wrap

LEMMA TallyIn ==
  ASSUME TypeInv, LineInv, CountInv, NEW s, s.len \in Nat, CountIn(s),
         InSdus' = InSdus + 1, InBytes' = InBytes + s.len
  PROVE  CountInv'
<1>1. Stands(nSdus, nBytes, InSdus, InBytes)
  BY DEF CountInv, Stands
<1>2. Changed(nSdus, nBytes, 1, s.len, nSdus', nBytes')
  BY DEF CountIn, Changed
<1>3. Stands(nSdus', nBytes', InSdus', InBytes')
  BY <1>1, <1>2, TallyTypes, CarryStands
<1> QED
  BY <1>3 DEF CountInv, Stands, Wrap

LEMMA TallyOut ==
  ASSUME TypeInv, LineInv, CountInv, NEW s, s.len \in Nat, CountOut(s),
         InSdus' = InSdus - 1, InBytes' = InBytes - s.len
  PROVE  CountInv'
<1>1. Stands(nSdus, nBytes, InSdus, InBytes)
  BY DEF CountInv, Stands
<1>2. PICK d \in Int, x \in Int : d = -1 /\ x = -s.len
  OBVIOUS
<1>3. Changed(nSdus, nBytes, d, x, nSdus', nBytes')
  <2>1. nBytes - s.len = nBytes + x /\ nSdus - 1 = nSdus + d
    BY <1>2, TallyTypes
  <2> QED
    BY <2>1 DEF CountOut, Changed
<1>4. InSdus' = InSdus + d /\ InBytes' = InBytes + x
  BY <1>2, TallyTypes
<1>5. Stands(nSdus', nBytes', InSdus', InBytes')
  BY <1>1, <1>2, <1>3, <1>4, TallyTypes, CarryStands
<1> QED
  BY <1>5 DEF CountInv, Stands, Wrap

\* Nothing is put in, taken out or counted.
LEMMA TallyUntouched ==
  ASSUME CountInv, UNCHANGED <<counters, Buffered>>,
         lpc' = "uncount" <=> lpc = "uncount", lpc = "uncount" => got' = got,
         upc' = "count" <=> upc = "count", upc' = "uncount" <=> upc = "uncount",
         upc \in {"count", "uncount"} => cur' = cur
  PROVE  CountInv' /\ UNCHANGED <<InSdus, InBytes>>
<1>1. UNCHANGED <<InSdus, InBytes>>
  BY DEF InSdus, InBytes, When
<1> QED
  BY <1>1, TallyKept

\* What is put in or taken out is in hand until it is counted.
LEMMA PushTally ==
  ASSUME TypeInv, LineInv, CountInv, Push
  PROVE  CountInv' /\ UNCHANGED <<InSdus, InBytes>>
<1>1. /\ upc = "push" /\ UNCHANGED <<counters, lpc, got>> /\ cur \in Sdu
      /\ IF HasRoom
         THEN Buffered' = Buffered \cup {cur}
         ELSE Buffered' = Buffered
  BY PushBuffer DEF Push, lowVars
<1>2. CASE HasRoom
  <2>1. upc' = "count" /\ cur' = cur /\ cur.len \in Nat
    BY <1>1, <1>2, SduTypes DEF Push
  <2>2. \A t \in Buffered : t.id # cur.id
    BY <1>1, HeldFacts, BufferedFacts DEF LineInv
  <2>3. /\ Bytes(Buffered') = Bytes(Buffered) + cur.len
        /\ Cardinality(Buffered') = Cardinality(Buffered) + 1
    BY <1>1, <1>2, <2>2, AddTally
  <2>4. PICK b \in Nat, n \in Nat, c \in Nat, l \in {0, 1}, g \in Int :
          /\ b = Bytes(Buffered) /\ n = Cardinality(Buffered) /\ c = cur.len
          /\ l = When(lpc = "uncount", 1) /\ g = When(lpc = "uncount", got.len)
    BY <2>1, BufferedFacts, TallyTypes DEF When
  <2>5. InSdus = n + l + 0 - 0 /\ InBytes = b + g + 0 - 0
    BY <1>1, <2>4 DEF InSdus, InBytes, When
  <2>6. InSdus' = (n + 1) + l + 0 - 1 /\ InBytes' = (b + c) + g + 0 - c
    <3>1. /\ When(lpc' = "uncount", 1) = l /\ When(lpc' = "uncount", got'.len) = g
          /\ Bytes(Buffered)' = b + c /\ Cardinality(Buffered)' = n + 1
      BY <1>1, <2>3, <2>4 DEF Bytes
    <3> QED
      BY <2>1, <2>4, <3>1 DEF InSdus, InBytes, When
  <2>7. UNCHANGED <<InSdus, InBytes>>
    BY <2>5, <2>6
  <2> QED
    BY <1>1, <2>7, TallyKept
<1>3. CASE ~HasRoom
  BY <1>1, <1>3, TallyUntouched DEF Push
<1> QED
  BY <1>2, <1>3

LEMMA DiscardTally ==
  ASSUME TypeInv, LineInv, CountInv, NEW sn \in SNs, Discard(sn)
  PROVE  CountInv' /\ UNCHANGED <<InSdus, InBytes>>
<1>1. /\ upc = "idle" /\ upc' = "uncount" /\ UNCHANGED <<counters, lpc, got>>
      /\ cur' \in Buffered /\ cur' \in Sdu /\ Buffered' = Buffered \ {cur'}
  BY DiscardBuffer DEF Discard, lowVars
<1>2. /\ Bytes(Buffered') = Bytes(Buffered) - cur'.len
      /\ Cardinality(Buffered') = Cardinality(Buffered) - 1
  BY <1>1, RemoveTally
<1>3. PICK b \in Nat, n \in Nat, c \in Nat, l \in {0, 1}, g \in Int :
        /\ b = Bytes(Buffered) /\ n = Cardinality(Buffered) /\ c = cur'.len
        /\ l = When(lpc = "uncount", 1) /\ g = When(lpc = "uncount", got.len)
  BY <1>1, BufferedFacts, TallyTypes, SduTypes DEF When
<1>4. InSdus = n + l + 0 - 0 /\ InBytes = b + g + 0 - 0
  BY <1>1, <1>3 DEF InSdus, InBytes, When
<1>5. InSdus' = (n - 1) + l + 1 - 0 /\ InBytes' = (b - c) + g + c - 0
  <2>1. /\ When(lpc' = "uncount", 1) = l /\ When(lpc' = "uncount", got'.len) = g
        /\ Bytes(Buffered)' = b - c /\ Cardinality(Buffered)' = n - 1
    BY <1>1, <1>2, <1>3 DEF Bytes
  <2> QED
    BY <1>1, <1>3, <2>1 DEF InSdus, InBytes, When
<1>6. UNCHANGED <<InSdus, InBytes>>
  BY <1>4, <1>5
<1> QED
  BY <1>1, <1>6, TallyKept

\* Taking an SDU puts it into the hands of the cell executor.
LEMMA TakeTally ==
  ASSUME TypeInv, LineInv, CountInv, NEW s \in Sdu, TakeFrom(s),
         lpc # "uncount", lpc' = "uncount", got' = s, UNCHANGED <<counters, upc, cur>>
  PROVE  CountInv' /\ UNCHANGED <<InSdus, InBytes>>
<1>1. /\ Bytes(Buffered') = Bytes(Buffered) - s.len
      /\ Cardinality(Buffered') = Cardinality(Buffered) - 1
  BY RemoveTally DEF TakeFrom
<1>2. PICK b \in Nat, n \in Nat, c \in Nat, p \in Int, q \in Int, v \in Int, w \in Int :
        /\ b = Bytes(Buffered) /\ n = Cardinality(Buffered) /\ c = s.len
        /\ p = When(upc = "uncount", 1) /\ q = When(upc = "count", 1)
        /\ v = When(upc = "uncount", cur.len) /\ w = When(upc = "count", cur.len)
  BY BufferedFacts, TallyTypes, SduTypes DEF When
<1>3. InSdus = n + 0 + p - q /\ InBytes = b + 0 + v - w
  BY <1>2 DEF InSdus, InBytes, When
<1>4. InSdus' = (n - 1) + 1 + p - q /\ InBytes' = (b - c) + c + v - w
  <2>1. /\ When(upc' = "uncount", 1) = p /\ When(upc' = "count", 1) = q
        /\ When(upc' = "uncount", cur'.len) = v /\ When(upc' = "count", cur'.len) = w
        /\ Bytes(Buffered)' = b - c /\ Cardinality(Buffered)' = n - 1
    BY <1>1, <1>2 DEF Bytes
  <2> QED
    BY <1>2, <2>1 DEF InSdus, InBytes, When
<1>5. UNCHANGED <<InSdus, InBytes>>
  BY <1>3, <1>4
<1> QED
  BY <1>5, TallyKept

LEMMA PopTally ==
  ASSUME TypeInv, LineInv, CountInv, Pop
  PROVE  CountInv' /\ UNCHANGED <<InSdus, InBytes>>
<1>1. /\ lpc = "pull" /\ UNCHANGED <<counters, upc, cur>> /\ got' \in Sdu
      /\ IF Head(fifo).sn = None THEN TakeFrom(got') ELSE UNCHANGED <<Buffered, taken>>
  BY PopBuffer DEF Pop, upVars
<1>2. CASE Head(fifo).sn = None
  BY <1>1, <1>2, TakeTally DEF Pop
<1>3. CASE Head(fifo).sn # None
  BY <1>1, <1>3, TallyUntouched DEF Pop
<1> QED
  BY <1>2, <1>3

LEMMA ReleaseTally ==
  ASSUME TypeInv, LineInv, CountInv, Release
  PROVE  CountInv' /\ UNCHANGED <<InSdus, InBytes>>
<1>1. /\ lpc = "release" /\ UNCHANGED <<counters, upc, cur, got>> /\ got \in Sdu
      /\ IF StillValid(got) THEN TakeFrom(got) ELSE UNCHANGED <<Buffered, taken>>
  BY ReleaseBuffer DEF Release, upVars
<1>2. CASE StillValid(got)
  BY <1>1, <1>2, TakeTally DEF Release
<1>3. CASE ~StillValid(got)
  BY <1>1, <1>3, TallyUntouched DEF Release
<1> QED
  BY <1>2, <1>3

\* Whoever has it in hand counts it.
LEMMA CountTally ==
  ASSUME TypeInv, LineInv, CountInv, Count
  PROVE  CountInv' /\ InBytes' = InBytes + cur.len
<1>1. /\ upc = "count" /\ upc' = "flag" /\ UNCHANGED <<lpc, got, cur>> /\ CountIn(cur)
      /\ UNCHANGED Buffered /\ cur.len \in Nat
  BY UntouchedBuffer, TallyTypes DEF Count, queueVars, lowVars
<1>2. PICK b \in Nat, n \in Nat, l \in Int, g \in Int :
        /\ b = Bytes(Buffered) /\ n = Cardinality(Buffered)
        /\ l = When(lpc = "uncount", 1) /\ g = When(lpc = "uncount", got.len)
  BY BufferedFacts, TallyTypes DEF When
<1>3. InSdus = n + l + 0 - 1 /\ InBytes = b + g + 0 - cur.len
  BY <1>1, <1>2 DEF InSdus, InBytes, When
<1>4. InSdus' = n + l + 0 - 0 /\ InBytes' = b + g + 0 - 0
  BY <1>1, <1>2 DEF InSdus, InBytes, When
<1>5. InSdus' = InSdus + 1 /\ InBytes' = InBytes + cur.len
  BY <1>1, <1>3, <1>4
<1> QED
  BY <1>1, <1>5, TallyIn

LEMMA UncountTally ==
  ASSUME TypeInv, LineInv, CountInv, Uncount
  PROVE  CountInv' /\ InBytes' = InBytes - cur.len
<1>1. /\ upc = "uncount" /\ upc' = "flag" /\ UNCHANGED <<lpc, got, cur>> /\ CountOut(cur)
      /\ UNCHANGED Buffered /\ cur.len \in Nat
  BY UntouchedBuffer, TallyTypes DEF Uncount, queueVars, lowVars
<1>2. PICK b \in Nat, n \in Nat, l \in Int, g \in Int :
        /\ b = Bytes(Buffered) /\ n = Cardinality(Buffered)
        /\ l = When(lpc = "uncount", 1) /\ g = When(lpc = "uncount", got.len)
  BY BufferedFacts, TallyTypes DEF When
<1>3. InSdus = n + l + 1 - 0 /\ InBytes = b + g + cur.len - 0
  BY <1>1, <1>2 DEF InSdus, InBytes, When
<1>4. InSdus' = n + l + 0 - 0 /\ InBytes' = b + g + 0 - 0
  BY <1>1, <1>2 DEF InSdus, InBytes, When
<1>5. InSdus' = InSdus - 1 /\ InBytes' = InBytes - cur.len
  BY <1>1, <1>3, <1>4
<1> QED
  BY <1>1, <1>5, TallyOut

LEMMA SendTally ==
  ASSUME TypeInv, LineInv, CountInv, NEW grant \in Grants, SendNew(grant)
  PROVE  CountInv' /\ InBytes' = InBytes - got.len
<1>1. /\ lpc = "uncount" /\ lpc' # "uncount" /\ UNCHANGED <<upc, cur>> /\ CountOut(got)
      /\ UNCHANGED Buffered /\ got.len \in Nat
  BY UntouchedBuffer, TallyTypes DEF SendNew, AfterPdu, queueVars, upVars
<1>2. PICK b \in Nat, n \in Nat, p \in Int, q \in Int, v \in Int, w \in Int :
        /\ b = Bytes(Buffered) /\ n = Cardinality(Buffered)
        /\ p = When(upc = "uncount", 1) /\ q = When(upc = "count", 1)
        /\ v = When(upc = "uncount", cur.len) /\ w = When(upc = "count", cur.len)
  BY BufferedFacts, TallyTypes DEF When
<1>3. InSdus = n + 1 + p - q /\ InBytes = b + got.len + v - w
  BY <1>1, <1>2 DEF InSdus, InBytes, When
<1>4. InSdus' = n + 0 + p - q /\ InBytes' = b + 0 + v - w
  BY <1>1, <1>2 DEF InSdus, InBytes, When
<1>5. InSdus' = InSdus - 1 /\ InBytes' = InBytes - got.len
  BY <1>1, <1>3, <1>4
<1> QED
  BY <1>1, <1>5, TallyOut

LEMMA CountInit == Init => CountInv
<1> SUFFICES ASSUME Init PROVE CountInv
  OBVIOUS
<1>1. Buffered = {} /\ upc = "idle" /\ lpc = "idle" /\ nSdus = 0 /\ nBytes = 0
  BY DEF Init, Buffered, Held
<1>2. Cardinality(Buffered) = 0 /\ Bytes(Buffered) = 0
  BY <1>1, FS_EmptySet, BytesEmpty
<1>3. InSdus = 0 + 0 + 0 - 0 /\ InBytes = 0 + 0 + 0 - 0
  BY <1>1, <1>2 DEF InSdus, InBytes, When
<1>4. InSdus = 0 /\ InBytes = 0
  BY <1>3
<1>5. Wrap(0) = 0 /\ 0 \div CounterMod = 0
  BY WrapSmall, SizesAssumption
<1> QED
  BY <1>1, <1>4, <1>5 DEF CountInv

\* Every other step leaves what is in the queue and what is in hand.
Quiet ==
  \/ (\E s \in Sdu : Write(s)) \/ Flag
  \/ StartSlot \/ PopNothing \/ (\E g \in Grants : Continue(g))
  \/ RunUpdate \/ Load \/ FrontDrop \/ Report \/ UNCHANGED vars

LEMMA QuietTally ==
  ASSUME TypeInv, LineInv, CountInv, Quiet
  PROVE  CountInv' /\ UNCHANGED <<InSdus, InBytes, Buffered>>
<1>1. ASSUME NEW s \in Sdu, Write(s) PROVE UNCHANGED Buffered
  BY <1>1, WriteBuffer
<1>2. ASSUME FrontDrop PROVE UNCHANGED Buffered
  BY <1>2, FrontDropBuffer
<1>3. ASSUME Flag \/ StartSlot \/ PopNothing \/ RunUpdate \/ Load \/ Report
      PROVE  UNCHANGED Buffered
  BY <1>3, UntouchedBuffer
     DEF Flag, StartSlot, PopNothing, RunUpdate, Load, Report, queueVars, upVars, lowVars
<1>4. ASSUME NEW g \in Grants, Continue(g) PROVE UNCHANGED Buffered
  BY <1>4, UntouchedBuffer DEF Continue, AfterPdu, queueVars, upVars
<1>5. ASSUME UNCHANGED vars PROVE UNCHANGED Buffered
  BY <1>5, UntouchedBuffer DEF vars, queueVars, upVars, lowVars
<1>6. UNCHANGED Buffered
  BY <1>1, <1>2, <1>3, <1>4, <1>5 DEF Quiet
<1>7. ASSUME NEW s \in Sdu, Write(s) PROVE CountInv' /\ UNCHANGED <<InSdus, InBytes>>
  BY <1>6, <1>7, TallyUntouched DEF Write, lowVars
<1>8. CASE Flag \/ FrontDrop \/ UNCHANGED vars
  BY <1>6, <1>8, TallyUntouched DEF Flag, FrontDrop, vars, upVars, lowVars
<1>9. CASE StartSlot \/ PopNothing \/ RunUpdate \/ Load \/ Report
  BY <1>6, <1>9, TallyUntouched
     DEF StartSlot, PopNothing, RunUpdate, Load, Report, upVars
<1>10. ASSUME NEW g \in Grants, Continue(g)
       PROVE  CountInv' /\ UNCHANGED <<InSdus, InBytes>>
  BY <1>6, <1>10, TallyUntouched DEF Continue, AfterPdu, upVars
<1> QED
  BY <1>6, <1>7, <1>8, <1>9, <1>10 DEF Quiet

LEMMA CountStep ==
  ASSUME TypeInv, LineInv, CountInv, [Next]_vars
  PROVE  CountInv'
<1>1. CASE Quiet
  BY <1>1, QuietTally
<1>2. ASSUME NEW sn \in SNs, Discard(sn) PROVE CountInv'
  BY <1>2, DiscardTally
<1>3. ASSUME NEW g \in Grants, SendNew(g) PROVE CountInv'
  BY <1>3, SendTally
<1> QED
  BY <1>1, <1>2, <1>3, PushTally, CountTally, UncountTally, PopTally, ReleaseTally
     DEF Quiet, Next, UpperStep, PullStep, StateStep

LEMMA CountInductive == Spec => [](TypeInv /\ LineInv /\ CountInv)
<1>1. Spec => []TypeInv
  BY InitTypes, StepTypes, PTL DEF Spec
<1> QED
  BY <1>1, LineInductive, CountInit, CountStep, PTL DEF Spec

\* In every instance the packed counters are what is buffered, and what the two threads
\* have in hand, to the byte, whatever the order in which the one counts in and the other
\* out: state_sub may come before state_add, and the pair then wraps and comes back.
THEOREM CountersExact == Spec => []CountersAgree
BY CountInductive, CountInvIs, PTL

-----------------------------------------------------------------------------
(* The wake-ups.  The limit of the queue bounds what the counters stand for, *)
(* so that the buffer state does not wrap; a bearer of which the MAC knows   *)
(* nothing then has nothing to send.                                         *)

\* A buffer state with the largest SDU being sent, and with the queue full of
\* bytes and of SDUs, is less than 2^32: about 12.4 million with the sizes of
\* du_qos_config_helpers.h.
BufferStateFits ==
  2 * ByteLimit + Capacity * HeadFull + HeadNotFirst < CounterMod

Small(s) == s.len <= ByteLimit
SmallInv ==
  /\ \A i \in DOMAIN fifo : Small(fifo[i])
  /\ Small(got) /\ Small(sdu) /\ (upc = "push" => Small(cur))

\* What is counted, and what is about to be.
Filled == InBytes + When(upc \in {"push", "count"}, cur.len)
LimitInv == Filled <= ByteLimit

LEMMA FilledTypes ==
  ASSUME TypeInv, LineInv
  PROVE  /\ Filled \in Int /\ ByteLimit \in Nat
         /\ upc \in {"push", "count", "uncount"} => cur.len \in Nat
<1>1. upc \in {"push", "count", "uncount"} => cur.len \in Nat
  BY SduTypes DEF TypeInv, InHand
<1> QED
  BY <1>1, TallyTypes, SizesAssumption DEF Filled, When

\* While the UE executor has counted whatever it had in hand, the counter of the bytes
\* is exact, and has not wrapped.
LEMMA BytesExact ==
  ASSUME TypeInv, LineInv, CountInv, LimitInv, upc \in {"idle", "push"}
  PROVE  /\ nBytes = InBytes /\ InBytes \in Nat /\ InBytes <= ByteLimit
         /\ InBytes = Bytes(Buffered) + When(lpc = "uncount", got.len)
         /\ InSdus = Cardinality(Buffered) + When(lpc = "uncount", 1)
         /\ InBytes \div CounterMod = 0
<1>1. PICK b \in Nat, n \in Nat, l \in {0, 1}, g \in Nat, p \in Nat :
        /\ b = Bytes(Buffered) /\ n = Cardinality(Buffered)
        /\ l = When(lpc = "uncount", 1) /\ g = When(lpc = "uncount", got.len)
        /\ p = When(upc \in {"push", "count"}, cur.len)
  BY BufferedFacts, TallyTypes, FilledTypes DEF When
<1>2. InSdus = n + l + 0 - 0 /\ InBytes = b + g + 0 - 0
  BY <1>1 DEF InSdus, InBytes, When
<1>3. InSdus = n + l /\ InBytes = b + g /\ InBytes \in Nat
  BY <1>1, <1>2
<1>4. InBytes + p <= ByteLimit
  BY <1>1 DEF LimitInv, Filled
<1>5. InBytes <= ByteLimit /\ InBytes < CounterMod
  <2>1. PICK L \in Nat, M \in Nat : L = ByteLimit /\ M = CounterMod /\ L < M
    BY SizesAssumption, CounterAssumption
  <2>2. InBytes + p <= L
    BY <1>4, <2>1
  <2>3. InBytes <= L
    BY <1>1, <1>3, <2>1, <2>2
  <2> QED
    BY <1>3, <2>1, <2>3
<1>6. Wrap(InBytes) = InBytes /\ InBytes \div CounterMod = 0
  BY <1>3, <1>5, WrapSmall
<1> QED
  BY <1>1, <1>3, <1>5, <1>6 DEF CountInv

LEMMA LimitInit == Init => SmallInv /\ LimitInv
<1> SUFFICES ASSUME Init PROVE SmallInv /\ LimitInv
  OBVIOUS
<1>1. /\ upc = "idle" /\ lpc = "idle" /\ Buffered = {} /\ fifo = <<>>
      /\ got = NoSdu /\ sdu = NoSdu
  BY DEF Init, Buffered, Held
<1>2. SmallInv
  BY <1>1, SduTypes, SizesAssumption DEF SmallInv, Small
<1>3. InBytes = 0 + 0 + 0 - 0
  BY <1>1, BytesEmpty DEF InBytes, When
<1>4. Filled = 0
  BY <1>1, <1>3 DEF Filled, When
<1> QED
  BY <1>2, <1>4, SizesAssumption DEF LimitInv

LEMMA StepSmall ==
  ASSUME TypeInv, LineInv, CountInv, SmallInv, LimitInv, [Next]_vars
  PROVE  SmallInv'
<1>0. fifo \in Seq(Sdu) /\ ByteLimit \in Nat /\ Small(NoSdu)
  BY SizesAssumption, SduTypes DEF TypeInv, TypeOK, Small
<1>1. ASSUME NEW s \in Sdu, Write(s) PROVE SmallInv'
  <2>1. upc = "idle" /\ s.len + nBytes < ByteLimit /\ nBytes \in Nat /\ s.len \in Nat
    BY <1>1, TallyTypes, SduTypes DEF Write, WithinLimit
  <2>2. Small(s)
    BY <1>0, <2>1 DEF Small
  <2> QED
    BY <1>1, <2>2 DEF SmallInv, Small, Write, lowVars
<1>2. CASE Push
  <2>1. CASE HasRoom
    BY <1>0, <1>2, <2>1 DEF SmallInv, Small, Push, lowVars
  <2>2. CASE ~HasRoom
    BY <1>2, <2>2 DEF SmallInv, Small, Push, lowVars
  <2> QED
    BY <2>1, <2>2
<1>3. CASE Pop \/ FrontDrop
  <2>1. /\ fifo # <<>> /\ fifo' = Tail(fifo) /\ UNCHANGED <<upc, cur, sdu>>
        /\ got' \in {got, Head(fifo)}
    BY <1>3 DEF Pop, FrontDrop, FrontInvalid, upVars, lowVars
  <2>2. Head(fifo) = fifo[1] /\ 1 \in DOMAIN fifo
    BY <1>0, <2>1
  <2>3. \A i \in DOMAIN Tail(fifo) : i + 1 \in DOMAIN fifo /\ Tail(fifo)[i] = fifo[i + 1]
    BY <1>0, <2>1
  <2> QED
    BY <2>1, <2>2, <2>3 DEF SmallInv, Small
<1>4. CASE PopNothing
  BY <1>0, <1>4 DEF PopNothing, SmallInv, Small, queueVars, upVars
<1>5. ASSUME NEW g \in Grants, Continue(g) \/ SendNew(g) PROVE SmallInv'
  BY <1>0, <1>5 DEF Continue, SendNew, SendFrom, SmallInv, Small, queueVars, upVars
<1>6. ASSUME UNCHANGED <<fifo, got, sdu>>, upc' # "push" \/ UNCHANGED <<upc, cur>>
      PROVE  SmallInv'
  BY <1>6 DEF SmallInv, Small
<1>7. CASE (\E sn \in SNs : Discard(sn)) \/ Count \/ Uncount \/ Flag
  BY <1>6, <1>7 DEF Discard, Count, Uncount, Flag, lowVars, queueVars
<1>8. CASE StartSlot \/ Release \/ RunUpdate \/ Load \/ Report \/ UNCHANGED vars
  BY <1>6, <1>8
     DEF StartSlot, Release, RunUpdate, Load, Report, vars, queueVars, upVars, lowVars
<1> QED
  BY <1>1, <1>2, <1>3, <1>4, <1>5, <1>7, <1>8 DEF Next, UpperStep, PullStep, StateStep

\* Only Write adds to what the queue is filled with, and it checks the limit.
LEMMA StepLimit ==
  ASSUME TypeInv, LineInv, CountInv, LimitInv, [Next]_vars
  PROVE  LimitInv'
<1>0. Filled \in Int /\ InBytes \in Int /\ ByteLimit \in Nat
  BY FilledTypes, TallyTypes
<1>1. ASSUME UNCHANGED <<InBytes, upc, cur>> PROVE LimitInv'
  BY <1>1 DEF LimitInv, Filled, When
<1>2. ASSUME NEW s \in Sdu, Write(s) PROVE LimitInv'
  <2>1. UNCHANGED InBytes
    BY <1>2, QuietTally DEF Quiet
  <2>2. upc = "idle" /\ upc' = "push" /\ cur' = s /\ s.len + nBytes < ByteLimit
    BY <1>2 DEF Write, WithinLimit
  <2>3. nBytes = InBytes
    BY <2>2, BytesExact
  <2>4. Filled' = InBytes + s.len
    BY <2>1, <2>2 DEF Filled, When
  <2> QED
    BY <1>0, <2>2, <2>3, <2>4, SduTypes DEF LimitInv
<1>3. ASSUME NEW sn \in SNs, Discard(sn) PROVE LimitInv'
  <2>1. UNCHANGED InBytes /\ upc = "idle" /\ upc' = "uncount"
    BY <1>3, DiscardTally DEF Discard
  <2> QED
    BY <2>1 DEF LimitInv, Filled, When
<1>4. CASE Push
  <2>1. UNCHANGED InBytes /\ upc = "push" /\ cur.len \in Nat
    BY <1>4, PushTally, FilledTypes DEF Push
  <2>2. Filled = InBytes + cur.len
    BY <2>1 DEF Filled, When
  <2>3. (upc' = "count" /\ cur' = cur) \/ upc' = "idle"
    BY <1>4 DEF Push
  <2>4. Filled' \in {InBytes, InBytes + cur.len}
    BY <1>0, <2>1, <2>3 DEF Filled, When
  <2> QED
    BY <1>0, <2>1, <2>2, <2>4 DEF LimitInv
<1>5. CASE Count
  <2>1. InBytes' = InBytes + cur.len /\ upc = "count" /\ upc' = "flag" /\ cur.len \in Nat
    BY <1>5, CountTally, FilledTypes DEF Count
  <2>2. Filled' = InBytes + cur.len + 0 /\ Filled = InBytes + cur.len
    BY <2>1 DEF Filled, When
  <2> QED
    BY <1>0, <2>1, <2>2 DEF LimitInv
<1>6. CASE Uncount
  <2>1. InBytes' = InBytes - cur.len /\ upc = "uncount" /\ upc' = "flag" /\ cur.len \in Nat
    BY <1>6, UncountTally, FilledTypes DEF Uncount
  <2>2. Filled' = InBytes - cur.len + 0 /\ Filled = InBytes + 0
    BY <2>1 DEF Filled, When
  <2> QED
    BY <1>0, <2>1, <2>2 DEF LimitInv
<1>7. CASE Flag
  <2>1. UNCHANGED InBytes /\ upc = "flag" /\ upc' = "idle"
    BY <1>7, QuietTally DEF Quiet, Flag
  <2> QED
    BY <2>1 DEF LimitInv, Filled, When
<1>8. CASE Pop \/ Release
  BY <1>1, <1>8, PopTally, ReleaseTally DEF Pop, Release, upVars
<1>9. ASSUME NEW g \in Grants, SendNew(g) PROVE LimitInv'
  <2>1. /\ InBytes' = InBytes - got.len /\ UNCHANGED <<upc, cur>>
        /\ lpc = "uncount" /\ got.len \in Nat
    BY <1>9, SendTally, TallyTypes DEF SendNew, upVars
  <2>2. PICK p \in Int : p = When(upc \in {"push", "count"}, cur.len)
    BY FilledTypes DEF When
  <2>3. Filled = InBytes + p /\ Filled' = InBytes - got.len + p
    BY <2>1, <2>2 DEF Filled, When
  <2> QED
    BY <1>0, <2>1, <2>2, <2>3 DEF LimitInv
<1>10. CASE \/ StartSlot \/ PopNothing \/ (\E g \in Grants : Continue(g))
            \/ RunUpdate \/ Load \/ FrontDrop \/ Report \/ UNCHANGED vars
  <2>1. UNCHANGED InBytes
    BY <1>10, QuietTally DEF Quiet
  <2> QED
    BY <1>1, <1>10, <2>1
       DEF StartSlot, PopNothing, Continue, RunUpdate, Load, FrontDrop, Report, vars, upVars
<1> QED
  BY <1>2, <1>3, <1>4, <1>5, <1>6, <1>7, <1>8, <1>9, <1>10
     DEF Next, UpperStep, PullStep, StateStep

-----------------------------------------------------------------------------
\* The SDU being sent has bytes left.
SentInv == IF sdu = NoSdu THEN next_so = 0 ELSE next_so < sdu.len

Nothing == Buffered = {} /\ sdu = NoSdu
Settled == upc \in {"idle", "push"} /\ ~queued

\* While the UE executor has nothing to announce, the cell executor is on the way, or
\* what it is about to tell the MAC, or told it last, is zero when nothing is left; a
\* report that is left out follows one of a large buffer, which the MAC still knows.
WakeInv ==
  /\ pending => queued
  /\ ~suspend /\ prev > MaxDlPdu => mac > 0
  /\ Settled /\ lpc = "front" => (bs = 0 <=> Nothing)
  /\ Settled /\ lpc = "idle" => (mac = 0 <=> Nothing)

KnowInv == TypeInv /\ LineInv /\ CountInv /\ SmallInv /\ LimitInv /\ SentInv

LEMMA StepSent ==
  ASSUME TypeInv, SentInv, [Next]_vars
  PROVE  SentInv'
<1>1. ASSUME UNCHANGED <<sdu, next_so>> PROVE SentInv'
  BY <1>1 DEF SentInv
<1>2. ASSUME NEW s \in Sdu, NEW so \in Nat, NEW g \in Grants, so < s.len,
             SendFrom(s, so, g)
      PROVE  SentInv'
  <2>1. s # NoSdu /\ s.len \in Nat /\ g \in Nat
    BY SduTypes, SizesAssumption
  <2>2. CASE s.len - so <= g
    BY <1>2, <2>2 DEF SendFrom, SentInv
  <2>3. CASE ~(s.len - so <= g)
    <3>1. sdu' = s /\ next_so' = so + g
      BY <1>2, <2>3 DEF SendFrom
    <3>2. so + g < s.len
      BY <1>2, <2>1, <2>3
    <3> QED
      BY <2>1, <3>1, <3>2 DEF SentInv
  <2> QED
    BY <2>2, <2>3
<1>3. ASSUME NEW g \in Grants, Continue(g) PROVE SentInv'
  <2>1. sdu \in Sdu /\ next_so \in Nat /\ next_so < sdu.len
    BY <1>3 DEF Continue, TypeInv, TypeOK, SentInv
  <2> QED
    BY <1>2, <1>3, <2>1 DEF Continue
<1>4. ASSUME NEW g \in Grants, SendNew(g) PROVE SentInv'
  <2>1. got \in Sdu /\ 0 < got.len /\ 0 \in Nat
    BY <1>4, SduTypes DEF SendNew, TypeInv, InHand
  <2> QED
    BY <1>2, <1>4, <2>1 DEF SendNew
<1>5. CASE PopNothing
  <2>1. sdu = NoSdu /\ sdu' = got /\ next_so' = next_so /\ got \in Sdu \cup {NoSdu}
    BY <1>5 DEF PopNothing, TypeInv, TypeOK
  <2> QED
    BY <2>1, SduTypes DEF SentInv
<1>6. CASE (\E s \in Sdu : Write(s)) \/ (\E sn \in SNs : Discard(sn)) \/ UpperStep
  BY <1>1, <1>6 DEF Write, Discard, UpperStep, Push, Count, Uncount, Flag, lowVars
<1>7. CASE StartSlot \/ Pop \/ Release \/ RunUpdate \/ Load \/ FrontDrop \/ Report
           \/ UNCHANGED vars
  BY <1>1, <1>7
     DEF StartSlot, Pop, Release, RunUpdate, Load, FrontDrop, Report, vars, lowVars
<1> QED
  BY <1>3, <1>4, <1>5, <1>6, <1>7 DEF Next, PullStep, StateStep

LEMMA KnowInductive == Spec => []KnowInv
<1>1. Init => SmallInv /\ LimitInv /\ SentInv
  BY LimitInit DEF Init, SentInv
<1>2. /\ TypeInv /\ LineInv /\ CountInv /\ [Next]_vars /\ SmallInv /\ LimitInv /\ SentInv
      => SmallInv' /\ LimitInv' /\ SentInv'
  BY StepSmall, StepLimit, StepSent
<1> QED
  BY <1>1, <1>2, CountInductive, PTL DEF Spec, KnowInv

\* A buffer state that is read while the UE executor has counted all it put in: it does
\* not wrap, and is zero when there is nothing, and only then.
LEMMA LoadExact ==
  ASSUME KnowInv, BufferStateFits, Load, Settled
  PROVE  bs' = 0 <=> Nothing
<1>1. lpc = "load" /\ upc \in {"idle", "push"}
  BY DEF Load, Settled
<1>2. /\ nBytes = InBytes /\ InBytes \in Nat /\ InBytes <= ByteLimit
      /\ InBytes = Bytes(Buffered) + 0 /\ InSdus = Cardinality(Buffered) + 0
      /\ InBytes \div CounterMod = 0
  BY <1>1, BytesExact DEF KnowInv, When
<1>3. /\ Bytes(Buffered) \in Nat /\ Cardinality(Buffered) \in Nat
      /\ Cardinality(Buffered) <= Capacity
  BY <1>1, BufferedFits DEF KnowInv
<1>4. nSdus = Cardinality(Buffered)
  <2>1. InSdus + InBytes \div CounterMod = Cardinality(Buffered)
    BY <1>2, <1>3
  <2>2. Cardinality(Buffered) < CounterMod
    <3>1. PICK n \in Nat : n = Cardinality(Buffered)
      BY <1>3
    <3>2. n <= Capacity
      BY <1>3, <3>1
    <3>3. n < CounterMod
      BY <3>2, SizesAssumption, CounterAssumption
    <3> QED
      BY <3>1, <3>3
  <2>3. Wrap(Cardinality(Buffered)) = Cardinality(Buffered)
    BY <1>3, <2>2, WrapSmall
  <2> QED
    BY <2>1, <2>3 DEF KnowInv, CountInv
<1>5. PICK b \in Nat, n \in Nat, h \in Nat, L \in Nat, C \in Nat, f \in Nat :
        /\ b = Bytes(Buffered) /\ n = Cardinality(Buffered)
        /\ h = HeadFull /\ L = ByteLimit /\ C = Capacity /\ f = HeadNotFirst
  BY <1>3, SizesAssumption
<1>6. nBytes = b /\ b <= L /\ nSdus = n /\ n <= C
  BY <1>2, <1>3, <1>4, <1>5
<1>7. PICK x \in Nat :
        /\ x = IF sdu = NoSdu THEN 0 ELSE sdu.len - next_so + HeadNotFirst
        /\ x <= L + f /\ (x = 0 <=> sdu = NoSdu)
  <2>1. CASE sdu = NoSdu
    BY <1>5, <2>1
  <2>2. CASE sdu # NoSdu
    <3>1. /\ sdu.len \in Nat /\ next_so \in Nat /\ next_so < sdu.len
          /\ sdu.len <= L
      BY <1>5, <2>2, SduTypes DEF KnowInv, TypeInv, TypeOK, SentInv, SmallInv, Small
    <3>2. PICK x \in Nat : x = sdu.len - next_so + f
      BY <3>1
    <3>3. x <= L + f /\ x # 0
      BY <3>1, <3>2
    <3> QED
      BY <1>5, <2>2, <3>2, <3>3
  <2> QED
    BY <2>1, <2>2
<1>8. PICK y \in Nat : y = n * h /\ y <= C * h
  BY <1>5, <1>6
<1>9. b + y + x < CounterMod /\ b + y + x \in Nat
  <2>1. PICK z \in Nat, M \in Nat : z = C * h /\ M = CounterMod /\ 2 * L + z + f < M
    BY <1>5, SizesAssumption DEF BufferStateFits
  <2> QED
    BY <1>6, <1>7, <1>8, <2>1
<1>10. bs' = b + y + x
  <2>1. bs' = Wrap(b + y + x)
    BY <1>5, <1>6, <1>7, <1>8 DEF Load, Wrap
  <2> QED
    BY <1>9, <2>1, WrapSmall
<1>11. Buffered = {} => b = 0 /\ y = 0
  <2> SUFFICES ASSUME Buffered = {} PROVE b = 0 /\ n = 0
    BY <1>5, <1>8
  <2> QED
    BY <1>5, BytesEmpty, FS_EmptySet
<1>12. Buffered # {} => b > 0
  <2> SUFFICES ASSUME NEW s \in Buffered PROVE b > 0
    OBVIOUS
  <2>1. s.len \in Nat \ {0}
    BY BufferedFacts, SduTypes DEF KnowInv
  <2>2. PICK c \in Nat : c = Bytes(Buffered \ {s})
    BY BytesType
  <2>3. c = b - s.len
    BY <1>5, <2>2, RemoveTally DEF KnowInv
  <2> QED
    BY <2>1, <2>2, <2>3
<1>13. b \in Nat /\ y \in Nat /\ x \in Nat
  BY <1>5, <1>7, <1>8
<1>14. b + y + x = 0 <=> b = 0 /\ y = 0 /\ x = 0
  BY <1>13
<1>15. b > 0 => b # 0
  BY <1>13
<1>16. bs' = 0 <=> Buffered = {} /\ x = 0
  BY <1>10, <1>11, <1>12, <1>14, <1>15
<1>17. x = 0 <=> sdu = NoSdu
  BY <1>7
<1> QED
  BY <1>16, <1>17 DEF Nothing

LEMMA StepWake ==
  ASSUME ~DeferMayFail, BufferStateFits, KnowInv, WakeInv, [Next]_vars
  PROVE  WakeInv'
<1>0. /\ pending \in BOOLEAN /\ queued \in BOOLEAN /\ MaxDlPdu \in Nat
      /\ bs \in Nat /\ prev \in Nat /\ mac \in Nat
      /\ TypeInv /\ LineInv /\ CountInv
  BY SizesAssumption DEF KnowInv, TypeInv, TypeOK
<1>1. ASSUME UNCHANGED <<suspend, prev, mac, pending, queued>>, ~Settled'
      PROVE  WakeInv'
  BY <1>1 DEF WakeInv
<1>2. ASSUME UNCHANGED <<suspend, prev, mac, pending, queued>>,
             lpc' \notin {"front", "idle"}
      PROVE  WakeInv'
  BY <1>2 DEF WakeInv
<1>3. ASSUME UNCHANGED <<suspend, prev, mac, pending, queued, Buffered, sdu, lpc, bs>>,
             Settled' => Settled
      PROVE  WakeInv'
  BY <1>3 DEF WakeInv, Nothing
<1>4. ASSUME NEW s \in Sdu, Write(s) PROVE WakeInv'
  BY <1>0, <1>3, <1>4, WriteBuffer DEF Write, Settled, flagVars, lowVars
<1>5. ASSUME NEW sn \in SNs, Discard(sn) PROVE WakeInv'
  BY <1>1, <1>5 DEF Discard, Settled, flagVars, lowVars
<1>6. CASE Push
  <2>1. CASE HasRoom
    BY <1>1, <1>6, <2>1 DEF Push, Settled, flagVars, lowVars
  <2>2. CASE ~HasRoom
    BY <1>0, <1>3, <1>6, <2>2, PushBuffer DEF Push, Settled, flagVars, lowVars
  <2> QED
    BY <2>1, <2>2
<1>7. CASE Count \/ Uncount
  BY <1>1, <1>7 DEF Count, Uncount, Settled, flagVars, lowVars
<1>8. CASE Flag
  <2>1. queued' /\ UNCHANGED <<suspend, prev, mac>>
    BY <1>0, <1>8 DEF Flag, WakeInv, lowVars
  <2> QED
    BY <2>1 DEF WakeInv, Settled
<1>9. CASE StartSlot \/ Pop \/ PopNothing \/ Release
  BY <1>2, <1>9 DEF StartSlot, Pop, PopNothing, Release, flagVars
<1>10. ASSUME NEW g \in Grants, Continue(g) \/ SendNew(g) PROVE WakeInv'
  BY <1>2, <1>10 DEF Continue, SendNew, AfterPdu, flagVars
<1>11. CASE RunUpdate
  BY <1>11 DEF RunUpdate, ClearFlag, WakeInv
<1>12. CASE Load
  <2>1. UNCHANGED Buffered
    BY <1>0, <1>12, QuietTally DEF Quiet
  <2>2. Settled => (bs' = 0 <=> Nothing)
    BY <1>12, LoadExact
  <2>3. /\ lpc' = "front" /\ UNCHANGED <<suspend, prev, mac, pending, queued, upc, sdu>>
    BY <1>12 DEF Load, upVars, flagVars
  <2> QED
    BY <2>1, <2>2, <2>3 DEF WakeInv, Settled, Nothing
<1>13. CASE FrontDrop
  BY <1>0, <1>3, <1>13, FrontDropBuffer DEF FrontDrop, Settled, flagVars, lowVars, upVars
<1>14. CASE Report
  <2>1. UNCHANGED Buffered
    BY <1>0, <1>14, QuietTally DEF Quiet
  <2>2. lpc = "front" /\ lpc' = "idle" /\ UNCHANGED <<sdu, upc, pending, queued>>
    BY <1>14 DEF Report, upVars, flagVars
  <2>3. Settled => (bs = 0 <=> Nothing)
    BY <2>2 DEF WakeInv
  <2>4. ASSUME mac' = bs, (~suspend' /\ prev' > MaxDlPdu => mac' > 0) PROVE WakeInv'
    BY <2>1, <2>2, <2>3, <2>4 DEF WakeInv, Settled, Nothing
  <2>5. CASE mac' = bs /\ (bs <= MaxDlPdu => suspend')
    BY <1>0, <2>4, <2>5
  <2>6. CASE mac' = bs /\ prev' = bs
    BY <1>0, <2>4, <2>6
  <2>7. CASE ~Notifies /\ UNCHANGED mac
    <3>1. bs > MaxDlPdu /\ prev > MaxDlPdu /\ ~suspend
      BY <1>0, <2>7 DEF Notifies
    <3>2. mac > 0 /\ mac' > 0 /\ bs # 0
      BY <1>0, <2>7, <3>1 DEF WakeInv
    <3> QED
      BY <2>1, <2>2, <2>3, <3>2 DEF WakeInv, Settled, Nothing
  <2>8. suspend' = (suspend \/ bs <= MaxDlPdu) => (bs <= MaxDlPdu => suspend')
    BY Zenon
  <2> QED
    BY <1>14, <2>5, <2>6, <2>7, <2>8 DEF Report
<1>15. CASE UNCHANGED vars
  BY <1>0, <1>3, <1>15, QuietTally DEF Quiet, vars, Settled, flagVars, lowVars, upVars
<1> QED
  BY <1>4, <1>5, <1>6, <1>7, <1>8, <1>9, <1>10, <1>11, <1>12, <1>13, <1>14, <1>15
     DEF Next, UpperStep, PullStep, StateStep

\* In every instance in which the executor takes the task and a buffer state fits its
\* word, no wake-up is lost: pending_buffer_state is cleared before the counters are
\* read, and what is left out because much is pending was told before.
THEOREM WakeUps ==
  ASSUME ~DeferMayFail, BufferStateFits
  PROVE  Spec => []MacKnows
<1>1. Init => WakeInv
  BY DEF Init, WakeInv, Settled, Nothing, Buffered, Held
<1>2. KnowInv /\ WakeInv /\ [Next]_vars => WakeInv'
  BY StepWake
<1>3. WakeInv => MacKnows
  BY DEF WakeInv, MacKnows, AtRest, Settled, Nothing
<1> QED
  BY <1>1, <1>2, <1>3, KnowInductive, PTL DEF Spec
=============================================================================
