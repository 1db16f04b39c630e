---------------------------- MODULE RlcAm_proofs ----------------------------
(***************************************************************************)
(* Proofs about an RLC AM bearer.  The inductive invariant speaks of SDUs, *)
(* which are counted from the start of the bearer and never wrap, and ties *)
(* each SN of the two entities, and of what is on its way, to one of them. *)
(***************************************************************************)
EXTENDS RlcAm, RlcAmTx_proofs, RlcAmRx_proofs, SequenceTheorems

Segmenting == sn_under_segmentation # NoSn

\* The bytes of SDU i, of those taken, that PDUs were built of.
Sent(i) ==
  IF Segmenting /\ i = taken - 1 THEN tx_window[sn_under_segmentation].next_so
  ELSE Length(i)

\* The SDUs whose SNs are RX_Next_Highest, RX_Highest_Status and
\* RX_Next_Status_Trigger; RX_Next is that of SDU passed.
High    == passed + Base(rx_next_highest, rx_next)
Status  == passed + Base(rx_highest_status, rx_next)
Trigger == passed + Base(rx_next_status_trigger, rx_next)

-----------------------------------------------------------------------------
(* The transmitting entity.                                                *)

TxCounts ==
  /\ taken \in Nat /\ acked \in Nat /\ taken <= Len(Lens)
  /\ acked <= taken /\ taken <= acked + Window

\* While none but discarded SDUs are in the queue, no poll is promised.
QueueOk ==
  /\ sdu_queue \in Seq(BOOLEAN)
  /\ Len(sdu_queue) <= QueueSize /\ taken + Len(sdu_queue) <= Len(Lens)
  /\ OnlyDiscarded(sdu_queue) => silent

TxWindow ==
  /\ tx_next_ack = SnOf(acked)
  /\ DOMAIN tx_window = SnRange(acked, taken)
  /\ \A i \in acked .. taken - 1 : SduOk(tx_window[SnOf(i)], i)

TxNext ==
  IF Segmenting
    THEN /\ acked < taken /\ tx_next = SnOf(taken - 1)
         /\ sn_under_segmentation = tx_next
         /\ Sent(taken - 1) > 0 /\ Sent(taken - 1) < Length(taken - 1)
    ELSE tx_next = SnOf(taken)

Retransmission == [sn : Sn, so : Nat, length : Nat \ {0}]

\* A retransmission of bytes of SDU i that were sent before.
RetxOf(r, i) == r.sn = SnOf(i) /\ r.so + r.length <= Sent(i)

Retransmissions ==
  /\ retx_queue \in Seq(Retransmission)
  /\ \A k \in 1 .. Len(retx_queue) : \E i \in acked .. taken - 1 : RetxOf(retx_queue[k], i)

Counts ==
  /\ \A i \in acked .. taken - 1 : tx_window[SnOf(i)].retx_count >= MaxRetx => reported
  /\ max_retx_reached => reported

\* With nothing left to send, the last SDU taken had a poll.
LastPolled ==
  ~Segmenting /\ sdu_queue = <<>> /\ ~silent /\ taken > 0 => poll_sn = SnOf(taken - 1)

TxTypes ==
  /\ poll_sn \in Sn /\ retx_sn \in Sn \cup {NoSn}
  /\ pdu_without_poll \in 0 .. PollPdu /\ byte_without_poll \in 0 .. PollByte
  /\ {max_retx_reached, poll_timer, reported, failed, silent} \subseteq BOOLEAN

TxInv ==
  /\ TxCounts /\ QueueOk /\ TxWindow /\ TxNext /\ Retransmissions /\ Counts
  /\ PollsOrSilent /\ LastPolled /\ TxTypes /\ ~failed

-----------------------------------------------------------------------------
(* The receiving entity.                                                   *)

RxCounts ==
  /\ passed \in Nat /\ acked <= passed
  /\ passed <= Status /\ Status <= High /\ High <= taken
  /\ Segmenting => passed < taken
  /\ rx_next = SnOf(passed) /\ rx_next_highest \in Sn /\ rx_highest_status \in Sn

RxWindow ==
  /\ rx_window = [sn \in DOMAIN rx_window |-> rx_window[sn]]
  /\ WindowOk(rx_window, passed, High)
  /\ High > passed => SnOf(High - 1) \in DOMAIN rx_window
  /\ \A i \in passed .. High - 1 : SnOf(i) \in DOMAIN rx_window =>
       rx_window[SnOf(i)].got \subseteq {i} \X (0 .. Sent(i) - 1)

Complete ==
  {i \in 0 .. High - 1 : i < passed \/ FullyReceived(rx_window, SnOf(i))}

Delivered == DOMAIN delivered \cup lost = {Whole(i) : i \in Complete}

Stands ==
  /\ ~FullyReceived(rx_window, rx_next)
  /\ ~FullyReceived(rx_window, rx_highest_status)

Timer ==
  reassembly_timer =>
    passed < Trigger /\ Trigger <= High /\ SnOf(Trigger - 1) \in DOMAIN rx_window

RxTypes ==
  /\ rx_next_status_trigger \in Sn
  /\ {reassembly_timer, do_status, status_prohibit} \subseteq BOOLEAN

RxInv ==
  /\ RxCounts /\ RxWindow /\ Delivered /\ Stands /\ Timer
  /\ GapIsTimed /\ ReportIsCurrent /\ RxTypes

-----------------------------------------------------------------------------
(* The channels.                                                           *)

\* A PDU has bytes that were sent, and its SN still means its SDU.
PduOk(m) ==
  /\ m \in Pdu /\ m.id < taken /\ m.sn = SnOf(m.id)
  /\ m.from <= m.to /\ m.to < Sent(m.id)
  /\ Fresh(passed - 1 - m.id)

DataInv == \A m \in data : PduOk(m)

\* A NACK of SDU i asks for bytes that were sent, or for all from some byte on.
NackOk(nack, i) ==
  /\ nack \in Nack /\ nack.sn = SnOf(i)
  /\ nack.to # EndOfSdu => nack.from <= nack.to /\ nack.to < Sent(i)
  /\ nack.to = EndOfSdu /\ nack.from = 0 => Sent(i) = Length(i)
  /\ nack.to = EndOfSdu => nack.from < Length(i)

\* A report acknowledges the SDUs before some b, which RX_Next was at when it
\* was made, and has a NACK of b if it goes on.
ReportOk(s) ==
  /\ s.at \in Nat /\ s.at <= taken /\ Fresh(acked - s.at)
  /\ \E b \in 0 .. passed :
       /\ Spans(s, b, s.at)
       /\ \A nack \in s.nacks : \E i \in b .. s.at - 1 : NackOk(nack, i)

StatusInv == \A s \in status : ReportOk(s)

IInv == TxInv /\ RxInv /\ DataInv /\ StatusInv

-----------------------------------------------------------------------------
(* What the parts say together.                                            *)

LEMMA SentFacts ==
  ASSUME TxCounts, TxWindow, TxNext
  PROVE  \A i \in 0 .. taken - 1 :
           /\ i \in SduIds /\ Length(i) \in Nat /\ Length(i) > 0
           /\ Sent(i) \in Nat /\ Sent(i) > 0 /\ Sent(i) <= Length(i)
           /\ ~Segmenting \/ i # taken - 1 => Sent(i) = Length(i)
<1> TAKE i \in 0 .. taken - 1
<1>1. i \in SduIds /\ Length(i) \in Nat /\ Length(i) > 0
  BY ConstantFacts DEF TxCounts, SduIds
<1>2. CASE ~Segmenting \/ i # taken - 1
  BY <1>1, <1>2 DEF Sent
<1>3. CASE Segmenting /\ i = taken - 1
  <2>1. i \in acked .. taken - 1 /\ sn_under_segmentation = SnOf(i)
    BY <1>3 DEF TxNext, TxCounts
  <2>2. Sent(i) = tx_window[SnOf(i)].next_so
    BY <1>3, <2>1 DEF Sent
  <2>3. Sent(i) \in Nat
    BY <2>1, <2>2 DEF TxWindow, SduOk, Entry
  <2> QED
    BY <1>1, <1>3, <2>3 DEF TxNext
<1> QED
  BY <1>2, <1>3

\* Where the receiver is, in SDUs.
LEMMA RxFacts ==
  ASSUME TxCounts, RxCounts, RxTypes
  PROVE  /\ High \in Nat /\ Status \in Nat /\ High <= passed + Window
         /\ Status <= passed + Window /\ passed <= High
         /\ passed <= Status /\ Status <= High /\ passed <= taken /\ High <= taken
         /\ rx_next_highest = SnOf(High) /\ rx_highest_status = SnOf(Status)
         /\ Trigger \in Nat /\ rx_next_status_trigger = SnOf(Trigger)
<1>1. /\ Base(rx_next_highest, rx_next) \in 0 .. SnMod - 1
      /\ Base(rx_highest_status, rx_next) \in 0 .. SnMod - 1
      /\ Base(rx_next_status_trigger, rx_next) \in 0 .. SnMod - 1
      /\ rx_next_highest = SnOf(High) /\ rx_highest_status = SnOf(Status)
      /\ rx_next_status_trigger = SnOf(Trigger)
  BY SnAhead DEF RxCounts, RxTypes, High, Status, Trigger
<1>2. High \in Nat /\ Status \in Nat /\ Trigger \in Nat
  BY <1>1, ConstantFacts DEF RxCounts, High, Status, Trigger
<1> QED
  BY <1>1, <1>2, ConstantFacts DEF RxCounts, TxCounts

LEMMA WindowFullFacts ==
  ASSUME NEW w, NEW a \in Nat, NEW t \in Nat, a <= t, t <= a + Window,
         DOMAIN w = SnRange(a, t)
  PROVE  WindowFull(w) <=> t - a >= Window
<1>1. Cardinality(DOMAIN w) = t - a
  BY RangeSize, ConstantFacts
<1> QED
  BY <1>1, ConstantFacts DEF WindowFull

LEMMA InvTypeOK ==
  ASSUME IInv
  PROVE  TypeOK
<1>1. TxInv /\ RxInv /\ DataInv /\ StatusInv
  BY DEF IInv
<1>2. /\ taken \in 0 .. Len(Lens)
      /\ acked \in 0 .. Len(Lens) /\ passed \in 0 .. Len(Lens)
  BY <1>1, RxFacts, ConstantFacts, TxAssumption DEF TxInv, RxInv, TxCounts, RxCounts
<1>3. tx_next \in Sn /\ tx_next_ack \in Sn /\ sn_under_segmentation \in Sn \cup {NoSn}
  <2>1. taken \in Nat /\ acked \in Nat
    BY <1>2
  <2>2. SnOf(taken) \in Sn /\ SnOf(acked) \in Sn
    BY <2>1, SnType
  <2>3. CASE Segmenting
    <3>1. taken - 1 \in Nat
      BY <1>1, <2>1, <2>3 DEF TxInv, TxNext
    <3> QED
      BY <1>1, <2>2, <2>3, <3>1, SnType DEF TxInv, TxNext, TxWindow
  <2>4. CASE ~Segmenting
    BY <1>1, <2>2, <2>4 DEF TxInv, TxNext, TxWindow, Segmenting
  <2> QED
    BY <2>3, <2>4
<1>4. rx_next \in Sn /\ rx_next_highest \in Sn /\ rx_highest_status \in Sn
  BY <1>1, SnType DEF RxInv, RxCounts
<1>5. /\ report.ack_sn \in Sn
      /\ \A nack \in report.nacks : nack \in Nack
  <2>1. passed \in Nat /\ Status \in Nat /\ passed <= Status /\ Status <= High
        /\ High \in Nat /\ Status <= passed + Window /\ High <= Len(Lens)
        /\ rx_next = SnOf(passed) /\ rx_highest_status = SnOf(Status)
    BY <1>1, <1>2, RxFacts DEF TxInv, RxInv, RxCounts
  <2>2. PICK at \in passed .. Status :
          /\ Report(rx_window, rx_next, rx_highest_status).ack_sn = SnOf(at)
          /\ \A nack : nack \in Report(rx_window, rx_next, rx_highest_status).nacks <=>
               \E i \in passed .. at - 1 : /\ ~FullyReceived(rx_window, SnOf(i))
                                           /\ nack \in NacksOf(rx_window, SnOf(i))
    <3>1. passed \in Nat /\ Status \in Nat /\ passed <= Status /\ Status <= passed + Window
      BY <2>1
    <3> QED
      BY <2>1, <3>1, ReportFacts
  <2>3. \A i \in passed .. at - 1 : i \in passed .. High - 1 /\ i \in SduIds
    BY <2>1 DEF SduIds
  <2>4. at \in Nat
    BY <2>1
  <2>5. ASSUME NEW nack \in report.nacks PROVE nack \in Nack
    <3>1. PICK i \in passed .. at - 1 : /\ ~FullyReceived(rx_window, SnOf(i))
                                        /\ nack \in NacksOf(rx_window, SnOf(i))
      BY <1>1, <2>2, <2>5 DEF RxInv, ReportIsCurrent
    <3>2. WindowOk(rx_window, passed, High)
      BY <1>1 DEF RxInv, RxWindow
    <3>3. NackTrue(rx_window, nack, i)
      BY <2>1, <2>3, <3>1, <3>2, NackFacts
    <3> QED
      BY <3>3 DEF NackTrue
  <2> QED
    BY <1>1, <2>2, <2>4, <2>5, SnType DEF RxInv, ReportIsCurrent
<1>6. DOMAIN tx_window \subseteq Sn /\ DOMAIN rx_window \subseteq Sn
  <2>1. taken \in Nat /\ acked \in Nat /\ passed \in Nat /\ High \in Nat
    BY <1>1, <1>2, RxFacts DEF TxInv, RxInv
  <2> QED
    BY <1>1, <2>1, RangeType DEF TxInv, RxInv, TxWindow, RxWindow, WindowOk
<1>7. \A s \in status : s.nacks \subseteq Nack
  BY <1>1 DEF StatusInv, ReportOk, NackOk
<1>8. data \subseteq Pdu
  BY <1>1 DEF DataInv, PduOk
<1>9. sdu_queue \in Seq(BOOLEAN) /\ Len(sdu_queue) <= QueueSize
  BY <1>1 DEF TxInv, QueueOk
<1>10. lost \subseteq {Whole(i) : i \in SduIds}
  <2>1. High \in Nat /\ High <= Len(Lens)
    BY <1>1, <1>2, RxFacts DEF TxInv, RxInv, RxCounts
  <2>2. \A i \in Complete : i \in SduIds
    BY <2>1, ConstantFacts DEF Complete, SduIds
  <2> QED
    BY <1>1, <2>2 DEF RxInv, Delivered
<1> QED
  BY <1>1, <1>2, <1>3, <1>4, <1>5, <1>6, <1>7, <1>8, <1>9, <1>10
     DEF TypeOK, TxInv, RxInv, TxTypes, RxTypes

LEMMA InitInv ==
  ASSUME Init
  PROVE  IInv
<1>1. SnOf(0) = Start /\ Base(Start, Start) = 0 /\ Start \in Sn
  BY ConstantFacts DEF SnOf, Base, Sn
<1>2. \A w : ~FullyReceived(<<>>, w)
  BY DEF FullyReceived
<1>3. DOMAIN <<>> = {} /\ <<>> = [sn \in {} |-> <<>>[sn]]
  OBVIOUS
<1>4. SnRange(0, 0) = {}
  BY DEF SnRange
<1>5. High = 0 /\ Status = 0 /\ ~Segmenting
  BY <1>1 DEF Init, TxInit, RxInit, High, Status, Segmenting
<1>6. TxCounts /\ QueueOk /\ TxWindow /\ TxNext /\ Counts /\ LastPolled /\ PollsOrSilent
  <2>1. TxCounts
    BY TxAssumption, ConstantFacts DEF Init, TxInit, TxCounts
  <2>2. TxWindow
    BY <1>1, <1>3, <1>4 DEF Init, TxInit, TxWindow
  <2>3. TxNext
    BY <1>1, <1>5 DEF Init, TxInit, TxNext
  <2>4. QueueOk
    BY TxAssumption, ConstantFacts DEF Init, TxInit, QueueOk, OnlyDiscarded
  <2> QED
    BY <2>1, <2>2, <2>3, <2>4, ConstantFacts
       DEF Init, TxInit, Counts, LastPolled, PollsOrSilent
<1>7. Retransmissions
  BY DEF Init, TxInit, Retransmissions
<1>8. TxTypes /\ ~failed
  <2>1. poll_sn \in Sn
    BY ConstantFacts DEF Init, TxInit, Sn
  <2>2. pdu_without_poll \in 0 .. PollPdu /\ byte_without_poll \in 0 .. PollByte
    BY TxAssumption DEF Init, TxInit
  <2>3. {max_retx_reached, poll_timer, reported, failed, silent} \subseteq BOOLEAN
    BY Zenon DEF Init, TxInit
  <2> QED
    BY <2>1, <2>2, <2>3 DEF Init, TxInit, TxTypes
<1>9. RxCounts /\ Timer /\ RxTypes
  <2>1. RxCounts
    BY <1>1, <1>5 DEF Init, TxInit, RxInit, RxCounts
  <2>2. {reassembly_timer, do_status, status_prohibit} \subseteq BOOLEAN
    BY Zenon DEF Init, RxInit
  <2>3. 0 \in Sn
    BY ConstantFacts DEF Sn
  <2> QED
    BY <2>1, <2>2, <2>3 DEF Init, RxInit, Timer, RxTypes
<1>10. RxWindow /\ Stands
  BY <1>2, <1>3, <1>4, <1>5 DEF Init, RxInit, RxWindow, WindowOk, Stands
<1>11. Delivered
  <2>1. Complete = {}
    BY <1>5 DEF Complete
  <2>2. DOMAIN EmptyBag = {}
    BY DEF EmptyBag, SetToBag
  <2> QED
    BY <2>1, <2>2 DEF Init, RxInit, Delivered
<1>12. GapIsTimed
  BY <1>1 DEF Init, RxInit, GapIsTimed
<1>13. ReportIsCurrent
  <2>1. ~(Base(Start, Start) > MaxSnPerStatus)
    BY <1>1, RxAssumption, ConstantFacts
  <2>2. 0 .. Base(Start, Start) - 1 = {}
    BY <1>1
  <2>3. Report(<<>>, Start, Start) = [ack_sn |-> Start, nacks |-> {}]
    BY <2>1, <2>2 DEF Report
  <2> QED
    BY <2>3 DEF Init, RxInit, ReportIsCurrent
<1>14. DataInv /\ StatusInv
  BY DEF Init, DataInv, StatusInv
<1> QED
  BY <1>6, <1>7, <1>8, <1>9, <1>10, <1>11, <1>12, <1>13, <1>14 DEF IInv, TxInv, RxInv

-----------------------------------------------------------------------------
(* Steps of the transmitting entity leave the receiving one as it is: what *)
(* was sent stays sent.                                                    *)

Grows ==
  /\ taken \in Nat /\ taken' \in Nat /\ taken <= taken'
  /\ \A i \in 0 .. taken - 1 :
       /\ i \in SduIds /\ Length(i) \in Nat
       /\ Sent(i) \in Nat /\ Sent(i)' \in Nat
       /\ Sent(i) <= Sent(i)' /\ Sent(i)' <= Length(i)

LEMMA NackKept ==
  ASSUME Grows, NEW i \in 0 .. taken - 1, NEW nack, NackOk(nack, i)
  PROVE  NackOk(nack, i)'
<1>1. nack.from \in Nat /\ (nack.to \in Nat \/ nack.to = EndOfSdu)
  BY DEF NackOk, Nack
<1> QED
  BY <1>1 DEF NackOk, Grows

LEMMA StatusKept ==
  ASSUME StatusInv, Grows, passed' = passed, passed \in Nat, status' \subseteq status,
         \A s \in status' : Fresh(acked' - s.at)
  PROVE  StatusInv'
<1> SUFFICES ASSUME NEW s \in status' PROVE ReportOk(s)'
  BY DEF StatusInv
<1>1. ReportOk(s)
  BY DEF StatusInv
<1>2. PICK b \in 0 .. passed :
        /\ Spans(s, b, s.at)
        /\ \A nack \in s.nacks : \E i \in b .. s.at - 1 : NackOk(nack, i)
  BY <1>1 DEF ReportOk
<1>3. \A nack \in s.nacks : \E i \in b .. s.at - 1 : NackOk(nack, i)'
  <2> TAKE nack \in s.nacks
  <2>1. PICK i \in b .. s.at - 1 : NackOk(nack, i)
    BY <1>2
  <2>2. i \in 0 .. taken - 1
    BY <1>1 DEF ReportOk, Grows
  <2> QED
    BY <2>1, <2>2, NackKept
<1>4. s.at \in Nat /\ s.at <= taken' /\ Fresh(acked' - s.at)
  BY <1>1 DEF ReportOk, Grows
<1> QED
  BY <1>2, <1>3, <1>4 DEF ReportOk

LEMMA RxKept ==
  ASSUME IInv, Grows, UNCHANGED rxVars, acked' \in Nat, acked' <= passed,
         Segmenting' => passed < taken'
  PROVE  RxInv'
<1>1. TxInv /\ RxInv
  BY DEF IInv
<1>2. /\ High' = High /\ Status' = Status /\ Trigger' = Trigger /\ Complete' = Complete
  BY DEF rxVars, High, Status, Trigger, Complete
<1>3. RxCounts'
  <2>1. High \in Nat /\ High <= taken /\ taken \in Nat /\ taken' \in Nat /\ taken <= taken'
    BY <1>1, RxFacts DEF Grows, TxInv, RxInv, RxCounts
  <2>2. High <= taken'
    BY <2>1
  <2> QED
    BY <1>1, <1>2, <2>2 DEF RxInv, RxCounts, rxVars
<1>4. RxWindow'
  <2>1. \A i \in passed .. High - 1 : SnOf(i) \in DOMAIN rx_window =>
          rx_window[SnOf(i)].got \subseteq {i} \X (0 .. Sent(i)' - 1)
    <3> SUFFICES ASSUME NEW i \in passed .. High - 1, SnOf(i) \in DOMAIN rx_window
                 PROVE  rx_window[SnOf(i)].got \subseteq {i} \X (0 .. Sent(i)' - 1)
      OBVIOUS
    <3>1. rx_window[SnOf(i)].got \subseteq {i} \X (0 .. Sent(i) - 1)
      BY <1>1 DEF RxInv, RxWindow
    <3>2. i \in 0 .. taken - 1
      BY <1>1, RxFacts DEF TxInv, RxInv, RxCounts, TxCounts
    <3>3. 0 .. Sent(i) - 1 \subseteq 0 .. Sent(i)' - 1
      BY <3>2 DEF Grows
    <3> QED
      BY <3>1, <3>3
  <2> QED
    BY <1>1, <1>2, <2>1 DEF RxInv, RxWindow, rxVars
<1>5. Delivered' /\ Stands' /\ Timer' /\ GapIsTimed' /\ ReportIsCurrent' /\ RxTypes'
  BY <1>1, <1>2
     DEF RxInv, Delivered, Stands, Timer, GapIsTimed, ReportIsCurrent, RxTypes, rxVars
<1> QED
  BY <1>3, <1>4, <1>5 DEF RxInv

\* A PDU that is sent may be on its way, or lost.
LEMMA DataSent ==
  ASSUME DataInv, Grows, UNCHANGED passed, NEW m, PduOk(m)', data' \subseteq data \cup {m}
  PROVE  DataInv'
<1> SUFFICES ASSUME NEW n \in data PROVE PduOk(n)'
  BY DEF DataInv
<1>1. PduOk(n)
  BY DEF DataInv
<1>2. n.id \in 0 .. taken - 1 /\ n.to \in Nat /\ n.from \in Nat
  BY <1>1 DEF PduOk, Pdu, Grows, SduIds
<1> QED
  BY <1>1, <1>2 DEF PduOk, Grows

LEMMA DataKept ==
  ASSUME DataInv, Grows, UNCHANGED passed, data' \subseteq data
  PROVE  DataInv'
<1> SUFFICES ASSUME NEW n \in data PROVE PduOk(n)'
  BY DEF DataInv
<1>1. PduOk(n)
  BY DEF DataInv
<1>2. n.id \in 0 .. taken - 1 /\ n.to \in Nat /\ n.from \in Nat
  BY <1>1 DEF PduOk, Pdu, Grows, SduIds
<1> QED
  BY <1>1, <1>2 DEF PduOk, Grows

\* What was sent stays as it is when nothing new is sent.
LEMMA SentStill ==
  ASSUME TxInv, UNCHANGED <<taken, sn_under_segmentation>>,
         Segmenting => tx_window'[sn_under_segmentation].next_so
                         = tx_window[sn_under_segmentation].next_so
  PROVE  Grows /\ Segmenting' = Segmenting /\ \A i \in 0 .. taken - 1 : Sent(i)' = Sent(i)
<1>1. Segmenting' = Segmenting
  BY DEF Segmenting
<1>2. \A i \in 0 .. taken - 1 : Sent(i)' = Sent(i)
  BY <1>1 DEF Sent
<1>3. TxCounts /\ TxWindow /\ TxNext
  BY DEF TxInv
<1>4. taken \in Nat
  BY <1>3 DEF TxCounts
<1> QED
  BY <1>1, <1>2, <1>3, <1>4, SentFacts DEF Grows

LEMMA RetxKept ==
  ASSUME TxCounts, Retransmissions, Grows, UNCHANGED <<retx_queue, acked>>
  PROVE  Retransmissions'
<1>1. \A k \in 1 .. Len(retx_queue) : \E i \in acked .. taken' - 1 : RetxOf(retx_queue[k], i)'
  <2> TAKE k \in 1 .. Len(retx_queue)
  <2>1. PICK i \in acked .. taken - 1 : RetxOf(retx_queue[k], i)
    BY DEF Retransmissions
  <2>2. taken \in Nat /\ taken' \in Nat /\ taken <= taken' /\ acked \in Nat
    BY DEF TxCounts, Grows
  <2>3. /\ i \in 0 .. taken - 1
        /\ i \in acked .. taken' - 1
    <3>1. i \in 0 .. taken - 1 /\ \A t \in Nat : taken <= t => i \in acked .. t - 1
      BY DEF TxCounts
    <3> QED
      BY <2>2, <3>1
  <2>4. retx_queue[k] \in Retransmission
    BY DEF Retransmissions
  <2>5. retx_queue[k].so \in Nat /\ retx_queue[k].length \in Nat
    BY <2>4 DEF Retransmission
  <2>6. Sent(i) \in Nat /\ Sent(i)' \in Nat /\ Sent(i) <= Sent(i)'
    BY <2>3 DEF Grows
  <2> QED
    BY <2>1, <2>3, <2>5, <2>6 DEF RetxOf
<1> QED
  BY <1>1 DEF Retransmissions

\* The SDU that is segmented has an entry in the window.
LEMMA SegmentFacts ==
  ASSUME TxInv, Segmenting
  PROVE  /\ taken - 1 \in acked .. taken - 1 /\ taken - 1 \in 0 .. taken - 1
         /\ taken - 1 \in SduIds /\ taken - 1 \in Nat
         /\ tx_next = SnOf(taken - 1) /\ sn_under_segmentation = SnOf(taken - 1)
         /\ SnOf(taken - 1) \in DOMAIN tx_window
         /\ SduOk(tx_window[SnOf(taken - 1)], taken - 1)
         /\ Sent(taken - 1) = tx_window[SnOf(taken - 1)].next_so
         /\ Sent(taken - 1) \in Nat
         /\ Sent(taken - 1) > 0 /\ Sent(taken - 1) < Length(taken - 1)
<1>1. taken - 1 \in acked .. taken - 1 /\ taken - 1 \in 0 .. taken - 1 /\ taken - 1 \in Nat
  BY DEF TxInv, TxCounts, TxNext
<1>2. tx_next = SnOf(taken - 1) /\ sn_under_segmentation = SnOf(taken - 1)
  BY DEF TxInv, TxNext
<1>3. SnOf(taken - 1) \in DOMAIN tx_window /\ SduOk(tx_window[SnOf(taken - 1)], taken - 1)
  BY <1>1 DEF TxInv, TxWindow, SnRange
<1>4. Sent(taken - 1) = tx_window[SnOf(taken - 1)].next_so
  BY <1>2 DEF Sent
<1>5. /\ taken - 1 \in SduIds /\ Sent(taken - 1) \in Nat
      /\ Sent(taken - 1) > 0 /\ Sent(taken - 1) < Length(taken - 1)
  BY <1>1, SentFacts DEF TxInv, TxNext
<1> QED
  BY <1>1, <1>2, <1>3, <1>4, <1>5

-----------------------------------------------------------------------------
(* The queue of SDUs: discarded ones are taken out from its front on.      *)

LEMMA PurgedFacts ==
  ASSUME NEW q \in Seq(BOOLEAN)
  PROVE  /\ Purged(q) \in Seq(BOOLEAN) /\ Len(Purged(q)) <= Len(q)
         /\ Purged(q) = <<>> <=> \A i \in DOMAIN q : ~q[i]
         /\ Purged(Purged(q)) = Purged(q)
         /\ Purged(<<>>) = <<>>
<1> DEFINE valid == {i \in DOMAIN q : q[i]}
<1>1. Purged(q) = IF valid = {} THEN <<>> ELSE SubSeq(q, Min(valid), Len(q))
  BY DEF Purged
<1>2. Purged(<<>>) = <<>>
  BY DEF Purged
<1>3. CASE valid = {}
  BY <1>1, <1>2, <1>3
<1>4. CASE valid # {}
  <2> DEFINE m == Min(valid)
  <2>1. valid \subseteq DOMAIN q /\ DOMAIN q = 1 .. Len(q) /\ Len(q) \in Nat
    OBVIOUS
  <2>2. valid \in SUBSET Nat
    BY <2>1
  <2>3. m \in valid
    BY <1>4, <2>2, LeastMin
  <2>4. m \in 1 .. Len(q) /\ q[m]
    BY <2>3
  <2> DEFINE r == SubSeq(q, m, Len(q))
  <2>5. Purged(q) = r
    BY <1>1, <1>4
  <2> HIDE DEF m
  <2>6. /\ r \in Seq(BOOLEAN) /\ Len(r) = Len(q) - m + 1
        /\ r[1] = q[m]
    BY <2>1, <2>4
  <2> HIDE DEF r, valid
  <2>7. r # <<>> /\ Len(r) <= Len(q) /\ Len(r) \in Nat /\ Len(r) >= 1 /\ r[1]
    BY <2>1, <2>4, <2>6
  <2>8. Purged(r) = r
    <3> DEFINE first == {i \in DOMAIN r : r[i]}
    <3>1. 1 \in first /\ first \in SUBSET Nat /\ \A i \in first : i >= 1
      BY <2>6, <2>7
    <3>2. Min(first) \in first /\ Min(first) <= 1
      BY <3>1, LeastMin
    <3>3. Min(first) = 1
      BY <3>1, <3>2
    <3>4. Purged(r) = SubSeq(r, 1, Len(r))
      BY <3>1, <3>3 DEF Purged
    <3>5. SubSeq(r, 1, Len(r)) = r
      BY <2>6
    <3> QED
      BY <3>4, <3>5
  <2>9. ~(\A i \in DOMAIN q : ~q[i])
    BY <2>1, <2>4
  <2> QED
    BY <1>2, <2>5, <2>6, <2>7, <2>8, <2>9
<1> QED
  BY <1>3, <1>4

\* Without discarded SDUs alone in the queue, all that can be sent is seen.
LEMMA PurgedExhausts ==
  ASSUME NEW q, NEW r, NEW u, NEW w, ~OnlyDiscarded(q), Exhausted(Purged(q), r, u, w)
  PROVE  Exhausted(q, r, u, w)
BY DEF OnlyDiscarded, Exhausted

LEMMA QueueDropped ==
  ASSUME QueueOk, sdu_queue' = sdu_queue \/ sdu_queue' = Purged(sdu_queue),
         taken' = taken, taken \in Nat, silent => silent'
  PROVE  QueueOk' /\ Purged(sdu_queue') = Purged(sdu_queue)
<1>1. sdu_queue \in Seq(BOOLEAN)
  BY DEF QueueOk
<1>2. CASE sdu_queue' = sdu_queue
  BY <1>2 DEF QueueOk
<1>3. CASE sdu_queue' = Purged(sdu_queue)
  <2>1. /\ sdu_queue' \in Seq(BOOLEAN) /\ Len(sdu_queue') <= Len(sdu_queue)
        /\ Purged(sdu_queue') = sdu_queue'
    BY <1>1, <1>3, PurgedFacts
  <2>2. Len(sdu_queue') \in Nat /\ Len(sdu_queue) \in Nat /\ QueueSize \in Nat /\ Len(Lens) \in Nat
    BY <1>1, <2>1, TxAssumption, ConstantFacts
  <2>3. Len(sdu_queue') <= QueueSize /\ taken' + Len(sdu_queue') <= Len(Lens)
    BY <2>1, <2>2 DEF QueueOk
  <2>4. ~OnlyDiscarded(sdu_queue')
    BY <2>1 DEF OnlyDiscarded
  <2> QED
    BY <1>3, <2>1, <2>3, <2>4 DEF QueueOk
<1> QED
  BY <1>2, <1>3

\* A queue that is empty once discarded SDUs left it was empty before, or no
\* poll is promised.
LEMMA QueueGone ==
  ASSUME QueueOk, ~silent, Purged(sdu_queue') = Purged(sdu_queue), sdu_queue' = <<>>
  PROVE  sdu_queue = <<>>
<1>1. Purged(sdu_queue) = <<>>
  BY PurgedFacts DEF Purged
<1> QED
  BY <1>1 DEF QueueOk, OnlyDiscarded

LEMMA QueueTaken ==
  ASSUME QueueOk, taken \in Nat, Purged(sdu_queue) # <<>>
  PROVE  /\ Tail(Purged(sdu_queue)) \in Seq(BOOLEAN)
         /\ Len(Tail(Purged(sdu_queue))) <= QueueSize
         /\ taken + 1 + Len(Tail(Purged(sdu_queue))) <= Len(Lens)
         /\ taken + 1 <= Len(Lens)
<1> DEFINE q == Purged(sdu_queue)
<1>1. q \in Seq(BOOLEAN) /\ Len(q) <= Len(sdu_queue) /\ q # <<>>
  BY PurgedFacts DEF QueueOk
<1>2. Len(sdu_queue) \in Nat /\ QueueSize \in Nat /\ Len(Lens) \in Nat
  BY TxAssumption, ConstantFacts DEF QueueOk
<1> HIDE DEF q
<1>3. Tail(q) \in Seq(BOOLEAN) /\ Len(Tail(q)) = Len(q) - 1 /\ Len(q) \in Nat /\ Len(q) >= 1
  BY <1>1
<1>4. /\ Len(Tail(q)) <= QueueSize /\ taken + 1 + Len(Tail(q)) <= Len(Lens)
      /\ taken + 1 <= Len(Lens)
  BY <1>1, <1>2, <1>3 DEF QueueOk
<1> QED
  BY <1>3, <1>4 DEF q

-----------------------------------------------------------------------------
(* The UE executor of the transmitting side, and the SDUs it discarded.    *)

LEMMA QueueStep ==
  ASSUME IInv, Write \/ Discard \/ Drop
  PROVE  IInv'
<1>1. TxInv /\ DataInv /\ RxInv /\ StatusInv
  BY DEF IInv
<1>2. /\ UNCHANGED <<pollVars, segVars, retxVars, ackVars, upVars, tx_window,
                     max_retx_reached, data>>
      /\ UNCHANGED rxVars /\ UNCHANGED status
  BY DEF Write, Discard, Drop, HandleSdu, DiscardSdu, DropDiscarded
<1>15. QueueOk /\ taken \in Nat /\ taken' = taken /\ sdu_queue \in Seq(BOOLEAN)
       /\ silent \in BOOLEAN /\ QueueSize \in Nat /\ Len(Lens) \in Nat
       /\ Len(sdu_queue) \in Nat
  BY <1>1, <1>2, TxAssumption, ConstantFacts DEF TxInv, QueueOk, TxCounts, TxTypes, segVars
<1>14. /\ sdu_queue' \in Seq(BOOLEAN)
       /\ Len(sdu_queue') <= QueueSize /\ taken + Len(sdu_queue') <= Len(Lens)
       /\ OnlyDiscarded(sdu_queue') => silent'
       /\ sdu_queue' = <<>> => silent'
       /\ silent => silent'
       /\ silent' \in BOOLEAN
  <2>1. CASE Write
    <3>1. /\ sdu_queue' = Append(sdu_queue, TRUE) /\ silent' = silent
          /\ Len(sdu_queue) < QueueSize /\ taken + Len(sdu_queue) < Len(Lens)
      BY <2>1 DEF Write, HandleSdu
    <3>2. /\ sdu_queue' \in Seq(BOOLEAN) /\ Len(sdu_queue') = Len(sdu_queue) + 1
          /\ sdu_queue'[Len(sdu_queue) + 1] = TRUE /\ sdu_queue' # <<>>
      BY <1>15, <3>1, AppendProperties, Zenon
    <3>3. Len(sdu_queue) + 1 \in DOMAIN sdu_queue' /\ sdu_queue'[Len(sdu_queue) + 1]
      BY <1>15, <3>2
    <3>4. Purged(sdu_queue') # <<>>
      BY <3>2, <3>3, PurgedFacts
    <3>5. Len(sdu_queue') <= QueueSize /\ taken + Len(sdu_queue') <= Len(Lens)
      BY <1>15, <3>1, <3>2
    <3> QED
      BY <1>15, <3>1, <3>2, <3>4, <3>5, Zenon DEF OnlyDiscarded
  <2>2. CASE Discard
    <3>1. PICK i \in DOMAIN sdu_queue : sdu_queue' = [sdu_queue EXCEPT ![i] = FALSE]
      BY <2>2 DEF Discard, DiscardSdu
    <3>2. silent' = (silent \/ OnlyDiscarded(sdu_queue'))
      BY <2>2 DEF Discard, DiscardSdu
    <3>3. sdu_queue' \in Seq(BOOLEAN) /\ Len(sdu_queue') = Len(sdu_queue)
      BY <1>15, <3>1
    <3>4. sdu_queue' # <<>>
      BY <1>15, <3>1, <3>3
    <3>5. OnlyDiscarded(sdu_queue') \in BOOLEAN
      BY DEF OnlyDiscarded
    <3>6. /\ OnlyDiscarded(sdu_queue') => silent'
          /\ silent => silent'
          /\ silent' \in BOOLEAN
      BY <1>15, <3>2, <3>5, Zenon
    <3>7. Len(sdu_queue') <= QueueSize /\ taken + Len(sdu_queue') <= Len(Lens)
      BY <1>15, <3>3 DEF QueueOk
    <3>8. sdu_queue' \in Seq(BOOLEAN) /\ (sdu_queue' = <<>> => silent')
      BY <3>3, <3>4
    <3> QED
      BY <3>6, <3>7, <3>8, Zenon
  <2>3. CASE Drop
    <3>1. /\ sdu_queue' = Purged(sdu_queue) /\ Purged(sdu_queue) # sdu_queue
          /\ silent' = silent
      BY <2>3 DEF Drop, DropDiscarded, UpdateMacBufferState
    <3>2. QueueOk'
      BY <1>15, <3>1, QueueDropped
    <3>3. sdu_queue' = <<>> => silent
      BY <1>15, <3>1 DEF QueueOk, OnlyDiscarded
    <3> QED
      BY <1>15, <3>1, <3>2, <3>3 DEF QueueOk
  <2> QED
    BY <2>1, <2>2, <2>3
<1>3. Grows /\ Segmenting' = Segmenting /\ \A i \in 0 .. taken - 1 : Sent(i)' = Sent(i)
  BY <1>1, <1>2, SentStill DEF segVars
<1>4. TxCounts' /\ QueueOk'
  <2>1. TxCounts'
    BY <1>1, <1>2 DEF TxInv, TxCounts, ackVars, segVars
  <2>2. QueueOk'
    BY <1>1, <1>2, <1>14 DEF TxInv, QueueOk, segVars
  <2> QED
    BY <2>1, <2>2
<1>5. TxWindow' /\ Counts'
  BY <1>1, <1>2 DEF TxInv, TxWindow, Counts, ackVars, upVars, segVars
<1>6. TxNext'
  <2>1. CASE Segmenting
    BY <1>1, <1>2, <1>3, <2>1, SegmentFacts DEF TxInv, TxNext, ackVars, segVars
  <2>2. CASE ~Segmenting
    BY <1>1, <1>2, <1>3, <2>2 DEF TxInv, TxNext, segVars
  <2> QED
    BY <2>1, <2>2
<1>7. Retransmissions'
  BY <1>1, <1>2, <1>3, RetxKept DEF TxInv, retxVars, ackVars, segVars
<1>8. PollsOrSilent' /\ LastPolled'
  <2>1. LastPolled'
    BY <1>14 DEF LastPolled
  <2>2. PollsOrSilent'
    <3> SUFFICES ASSUME acked' < taken', ~max_retx_reached', retx_queue' = <<>>, ~silent',
                        Exhausted(Purged(sdu_queue'), retx_queue', sn_under_segmentation', tx_window')
                 PROVE  poll_timer'
      BY DEF PollsOrSilent
    <3>1. Purged(sdu_queue') # <<>> /\ ~silent
      BY <1>14 DEF OnlyDiscarded
    <3>2. UNCHANGED <<acked, taken, max_retx_reached, retx_queue, sn_under_segmentation,
                      tx_window, poll_timer>>
      BY <1>2 DEF pollVars, segVars, retxVars, ackVars
    <3>3. Exhausted(Purged(sdu_queue), retx_queue, sn_under_segmentation, tx_window)
      BY <3>1, <3>2 DEF Exhausted
    <3> QED
      BY <1>1, <3>1, <3>2, <3>3 DEF TxInv, PollsOrSilent
  <2> QED
    BY <2>1, <2>2
<1>9. TxTypes' /\ ~failed'
  BY <1>1, <1>2, <1>14 DEF TxInv, TxTypes, pollVars, retxVars, upVars
<1>10. TxInv'
  BY <1>4, <1>5, <1>6, <1>7, <1>8, <1>9 DEF TxInv
<1>11. RxInv'
  <2>1. acked' \in Nat /\ acked' <= passed /\ (Segmenting' => passed < taken')
    BY <1>1, <1>2, <1>3 DEF TxInv, RxInv, TxCounts, RxCounts, ackVars, segVars
  <2> QED
    BY <1>2, <1>3, <2>1, RxKept
<1>12. passed \in Nat /\ passed' = passed /\ acked' = acked
  BY <1>1, <1>2 DEF RxInv, RxCounts, rxVars, ackVars
<1>13. DataInv' /\ StatusInv'
  <2>1. \A s \in status' : Fresh(acked' - s.at)
    BY <1>1, <1>2, <1>12 DEF StatusInv, ReportOk
  <2> QED
    BY <1>1, <1>2, <1>3, <1>12, <2>1, DataKept, StatusKept
<1> QED
  BY <1>10, <1>11, <1>13 DEF IInv

-----------------------------------------------------------------------------
(* What any PDU does to the polls.                                         *)

LEMMA SendFacts ==
  ASSUME TxTypes, NEW id, NEW from, NEW to, NEW sn \in Sn, NEW isNew \in BOOLEAN,
         NEW counted \in Nat, Send(id, from, to, sn, isNew, counted)
  PROVE  \E p \in BOOLEAN :
           /\ data' \subseteq data \cup {[sn |-> sn, id |-> id, from |-> from, to |-> to, p |-> p]}
           /\ Exhausted(sdu_queue', retx_queue', sn_under_segmentation', tx_window') => p
           /\ p => poll_timer'
           /\ poll_sn' = IF p /\ isNew THEN sn ELSE poll_sn
           /\ silent /\ ~silent' => poll_sn' = Newest
           /\ OnlyDiscarded(sdu_queue') => silent'
           /\ poll_sn' \in Sn /\ {poll_timer, silent}' \subseteq BOOLEAN
           /\ pdu_without_poll' \in 0 .. PollPdu /\ byte_without_poll' \in 0 .. PollByte
<1> DEFINE p == Polls(isNew, counted)
<1>1. p \in BOOLEAN
  BY DEF Polls
<1>2. Exhausted(sdu_queue', retx_queue', sn_under_segmentation', tx_window') => p
  BY DEF Polls
<1>3. /\ CountPoll(p, isNew, sn, counted)
      /\ data' \in Submit(data, [sn |-> sn, id |-> id, from |-> from, to |-> to, p |-> p])
  BY DEF Send
<1> HIDE DEF p
<1>4. data' \subseteq data \cup {[sn |-> sn, id |-> id, from |-> from, to |-> to, p |-> p]}
  BY <1>3 DEF Submit
<1>5. /\ poll_timer' = (p \/ poll_timer)
      /\ poll_sn' = IF p /\ isNew THEN sn ELSE poll_sn
      /\ silent' = (\/ silent /\ ~(p /\ poll_sn' = Newest)
                    \/ OnlyDiscarded(sdu_queue'))
  BY <1>3 DEF CountPoll
<1>6. poll_sn' \in Sn
  BY <1>5 DEF TxTypes
<1>7. {poll_timer, silent}' \subseteq BOOLEAN
  BY <1>5
<1>9. /\ silent /\ ~silent' => poll_sn' = Newest
      /\ OnlyDiscarded(sdu_queue') => silent'
  BY <1>5, Zenon
<1>8. pdu_without_poll' \in 0 .. PollPdu /\ byte_without_poll' \in 0 .. PollByte
  <2>1. /\ pdu_without_poll \in Nat /\ byte_without_poll \in Nat
        /\ PollPdu \in Nat /\ PollByte \in Nat
    BY TxAssumption DEF TxTypes
  <2>2. /\ UpTo(PollPdu, pdu_without_poll + 1) \in 0 .. PollPdu
        /\ UpTo(PollByte, byte_without_poll + counted) \in 0 .. PollByte
    <3>1. pdu_without_poll + 1 \in Nat /\ byte_without_poll + counted \in Nat
      BY <2>1
    <3>2. /\ UpTo(PollPdu, pdu_without_poll + 1) \in Nat
          /\ UpTo(PollPdu, pdu_without_poll + 1) <= PollPdu
      BY <2>1, <3>1, UpToFacts
    <3>3. /\ UpTo(PollByte, byte_without_poll + counted) \in Nat
          /\ UpTo(PollByte, byte_without_poll + counted) <= PollByte
      BY <2>1, <3>1, UpToFacts
    <3> QED
      BY <2>1, <3>2, <3>3
  <2>3. 0 \in 0 .. PollPdu /\ 0 \in 0 .. PollByte
    BY <2>1
  <2>4. CASE p \/ ~isNew
    BY <1>3, <2>3, <2>4 DEF CountPoll, TxTypes
  <2>5. CASE ~(p \/ ~isNew)
    BY <1>3, <2>2, <2>5 DEF CountPoll
  <2> QED
    BY <2>4, <2>5
<1> QED
  BY <1>1, <1>2, <1>4, <1>5, <1>6, <1>7, <1>8, <1>9

\* A PDU of new bytes of the last SDU taken.
LEMMA NewPduPolls ==
  ASSUME TxTypes, NEW id, NEW from, NEW to, NEW t \in Nat, t > 0, taken' = t,
         NEW counted \in Nat, Send(id, from, to, SnOf(t - 1), TRUE, counted),
         retx_queue' = <<>>, UNCHANGED <<retx_sn, max_retx_reached, upVars>>, ~failed
  PROVE  /\ PollsOrSilent' /\ LastPolled' /\ TxTypes' /\ ~failed'
         /\ OnlyDiscarded(sdu_queue') => silent'
         /\ \E p \in BOOLEAN : data' \subseteq data \cup
              {[sn |-> SnOf(t - 1), id |-> id, from |-> from, to |-> to, p |-> p]}
<1>1. SnOf(t - 1) \in Sn
  <2>1. t - 1 \in Nat
    OBVIOUS
  <2> QED
    BY <2>1, SnType
<1>2. PICK p \in BOOLEAN :
        /\ data' \subseteq data \cup
             {[sn |-> SnOf(t - 1), id |-> id, from |-> from, to |-> to, p |-> p]}
        /\ Exhausted(sdu_queue', retx_queue', sn_under_segmentation', tx_window') => p
        /\ p => poll_timer'
        /\ poll_sn' = IF p /\ TRUE THEN SnOf(t - 1) ELSE poll_sn
        /\ OnlyDiscarded(sdu_queue') => silent'
        /\ poll_sn' \in Sn /\ {poll_timer, silent}' \subseteq BOOLEAN
        /\ pdu_without_poll' \in 0 .. PollPdu /\ byte_without_poll' \in 0 .. PollByte
  <2>1. TRUE \in BOOLEAN
    OBVIOUS
  <2> HIDE DEF TxTypes
  <2> QED
    BY <1>1, <2>1, SendFacts
<1>3. PollsOrSilent'
  BY <1>2, PurgedExhausts DEF PollsOrSilent
<1>4. LastPolled'
  <2> SUFFICES ASSUME ~Segmenting', sdu_queue' = <<>> PROVE poll_sn' = SnOf(taken' - 1)
    BY DEF LastPolled
  <2>1. Exhausted(sdu_queue', retx_queue', sn_under_segmentation', tx_window')
    BY DEF Exhausted, Segmenting
  <2> QED
    BY <1>2, <2>1
<1>5. TxTypes' /\ ~failed'
  BY <1>2 DEF TxTypes, upVars
<1> QED
  BY <1>2, <1>3, <1>4, <1>5

LEMMA PullKept ==
  ASSUME IInv, Grows, UNCHANGED <<rxVars, status, acked>>, TxInv',
         Segmenting' => passed < taken', NEW m, PduOk(m)', data' \subseteq data \cup {m}
  PROVE  IInv'
<1>1. TxInv /\ DataInv /\ RxInv /\ StatusInv
  BY DEF IInv
<1>2. passed \in Nat /\ passed' = passed /\ acked' = acked /\ acked' \in Nat /\ acked' <= passed
  BY <1>1 DEF RxInv, RxCounts, TxInv, TxCounts, rxVars
<1>3. RxInv'
  BY <1>2, RxKept
<1>4. DataInv'
  BY <1>1, <1>2, DataSent
<1>5. \A s \in status' : Fresh(acked' - s.at)
  BY <1>1, <1>2 DEF StatusInv, ReportOk
<1>6. StatusInv'
  BY <1>1, <1>2, <1>5, StatusKept
<1> QED
  BY <1>3, <1>4, <1>6 DEF IInv

LEMMA BuildNewStep ==
  ASSUME IInv, NEW n \in Grants, BuildNewPdu(n), UNCHANGED <<rxVars, status>>
  PROVE  IInv'
<1>1. TxInv /\ DataInv /\ RxInv /\ StatusInv
  BY DEF IInv
<1> DEFINE len   == Length(taken)
           full  == len <= n
           entry == [id |-> taken, retx_count |-> NotStarted,
                     next_so |-> IF full THEN 0 ELSE n]
           to    == IF full THEN len - 1 ELSE n - 1
           bytes == IF full THEN 0 ELSE n
<1>2. /\ retx_queue = <<>> /\ sn_under_segmentation = NoSn
      /\ Purged(sdu_queue) # <<>> /\ ~WindowFull(tx_window)
      /\ tx_window' = Put(tx_window, tx_next, entry)
      /\ sn_under_segmentation' = IF full THEN NoSn ELSE tx_next
      /\ tx_next' = IF full THEN Plus(tx_next, 1) ELSE tx_next
      /\ sdu_queue' = Tail(Purged(sdu_queue)) /\ taken' = taken + 1
      /\ UNCHANGED retxVars
      /\ Send(taken, 0, to, tx_next, TRUE, bytes)
      /\ UNCHANGED <<ackVars, upVars, max_retx_reached>>
  BY DEF BuildNewPdu
<1>3. n \in Nat /\ n > 0
  BY TxAssumption
<1>4. /\ ~Segmenting /\ tx_next = SnOf(taken) /\ acked' = acked
      /\ taken \in Nat /\ acked \in Nat /\ acked <= taken
      /\ taken + 1 <= acked + Window /\ taken + 1 < acked + SnMod
  <2>1. ~Segmenting /\ tx_next = SnOf(taken) /\ acked' = acked
    BY <1>1, <1>2 DEF TxInv, TxNext, Segmenting, ackVars
  <2>2. /\ taken \in Nat /\ acked \in Nat /\ acked <= taken /\ taken <= acked + Window
        /\ DOMAIN tx_window = SnRange(acked, taken)
    BY <1>1 DEF TxInv, TxCounts, TxWindow
  <2>3. ~(taken - acked >= Window)
    BY <1>2, <2>2, WindowFullFacts
  <2> QED
    BY <2>1, <2>2, <2>3, ConstantFacts
<1>5. taken \in SduIds /\ len \in Nat /\ len > 0
  <2>1. taken < Len(Lens)
    BY <1>1, <1>2, <1>4, QueueTaken, ConstantFacts DEF TxInv
  <2>2. taken \in SduIds
    BY <1>4, <2>1, ConstantFacts DEF SduIds
  <2> QED
    BY <2>2, ConstantFacts
<1>6. to \in Nat /\ to < len /\ bytes \in Nat /\ (~full => to = n - 1 /\ n < len)
  BY <1>3, <1>5
<1>7. SduOk(entry, taken) /\ entry.retx_count = -1 /\ (~full => entry.next_so = n)
  BY <1>3, <1>4, <1>5 DEF SduOk, Entry, NotStarted
<1> HIDE DEF entry, bytes, to
<1>8. /\ DOMAIN tx_window' = DOMAIN tx_window \cup {SnOf(taken)}
      /\ tx_window'[SnOf(taken)] = entry
      /\ \A k \in DOMAIN tx_window : k # SnOf(taken) => tx_window'[k] = tx_window[k]
  <2>1. tx_window' = Put(tx_window, SnOf(taken), entry)
    BY <1>2, <1>4
  <2> QED
    BY <2>1 DEF Put
<1>9. \A i \in acked .. taken - 1 :
         SnOf(i) \in DOMAIN tx_window /\ tx_window'[SnOf(i)] = tx_window[SnOf(i)]
  <2> TAKE i \in acked .. taken - 1
  <2>1. SnOf(i) \in DOMAIN tx_window
    BY <1>1 DEF TxInv, TxWindow, SnRange
  <2>2. i \in Nat /\ i < taken /\ taken < i + SnMod
    BY <1>4, ConstantFacts
  <2>3. SnOf(i) # SnOf(taken)
    BY <1>4, <2>2, SnDiffer
  <2> QED
    BY <1>8, <2>1, <2>3
<1>10. \A i \in acked .. taken : i \in acked .. taken - 1 \/ i = taken
  BY <1>4
<1>11. taken' - 1 = taken
  BY <1>2, <1>4
<1>12. Segmenting' <=> ~full
  <2>1. SnOf(taken) # NoSn
    BY <1>4, SnType DEF NoSn
  <2> QED
    BY <1>2, <1>4, <2>1 DEF Segmenting
<1> HIDE DEF full
<1>26. PICK j \in Nat : j = taken
  BY <1>4
<1>13. Sent(j)' = IF full THEN Length(j) ELSE n
  <2>1. CASE full
    BY <1>12, <2>1 DEF Sent
  <2>2. CASE ~full
    <3>1. Sent(j)' = tx_window'[sn_under_segmentation'].next_so
      BY <1>11, <1>12, <1>26, <2>2 DEF Sent
    <3> QED
      BY <1>2, <1>4, <1>7, <1>8, <2>2, <3>1
  <2> QED
    BY <2>1, <2>2
<1>14. \A i \in 0 .. taken - 1 : Sent(i)' = Length(i) /\ Sent(i) = Length(i)
  BY <1>4, <1>11 DEF Sent
<1>15. Grows
  <2>1. \A i \in 0 .. taken - 1 : i \in SduIds /\ Length(i) \in Nat
    BY <1>1, SentFacts DEF TxInv
  <2>2. taken' \in Nat /\ taken <= taken'
    BY <1>2, <1>4
  <2>3. \A i \in 0 .. taken - 1 : Sent(i) <= Sent(i)' /\ Sent(i)' <= Length(i)
    BY <1>14, <2>1
  <2> QED
    BY <1>4, <1>14, <2>1, <2>2, <2>3 DEF Grows
<1>16. TxCounts'
  BY <1>1, <1>2, <1>4, QueueTaken, ConstantFacts DEF TxInv, TxCounts
<1>17. TxWindow'
  <2>1. tx_next_ack' = SnOf(acked')
    BY <1>1, <1>2, <1>4 DEF TxInv, TxWindow, ackVars
  <2>2. DOMAIN tx_window' = SnRange(acked', taken')
    <3>1. SnRange(acked, taken + 1) = SnRange(acked, taken) \cup {SnOf(taken)}
      <4>1. acked .. (taken + 1) - 1 = (acked .. taken - 1) \cup {taken}
        BY <1>4
      <4> QED
        BY <4>1 DEF SnRange
    <3> QED
      BY <1>1, <1>2, <1>4, <1>8, <3>1 DEF TxInv, TxWindow
  <2>3. \A i \in acked .. taken : SduOk(tx_window'[SnOf(i)], i)
    BY <1>1, <1>7, <1>8, <1>9, <1>10 DEF TxInv, TxWindow
  <2> QED
    BY <1>4, <1>11, <2>1, <2>2, <2>3 DEF TxWindow
<1>18. TxNext'
  <2>1. CASE full
    <3>1. tx_next' = SnOf(taken + 1)
      BY <1>2, <1>4, <2>1, PlusOf
    <3> QED
      BY <1>2, <1>12, <2>1, <3>1 DEF TxNext
  <2>2. CASE ~full
    <3>1. acked' < taken'
      BY <1>2, <1>4
    <3>2. Sent(j)' > 0 /\ Sent(j)' < Length(j)
      BY <1>3, <1>6, <1>13, <1>26, <2>2
    <3>3. Sent(taken - 1)' = Sent(j)' /\ Length(taken - 1)' = Length(j)
      BY <1>11, <1>26 DEF Sent, Length
    <3>4. tx_next' = SnOf(taken' - 1) /\ sn_under_segmentation' = tx_next'
      BY <1>2, <1>4, <1>11, <2>2
    <3> QED
      BY <1>12, <2>2, <3>1, <3>2, <3>3, <3>4 DEF TxNext
  <2> QED
    BY <2>1, <2>2
<1>19. retx_queue' = <<>> /\ Retransmissions'
  BY <1>2 DEF Retransmissions, retxVars
<1>20. Counts'
  <2>1. MaxRetx > 0 /\ MaxRetx \in Nat
    BY TxAssumption
  <2>2. \A i \in acked .. taken : tx_window'[SnOf(i)].retx_count >= MaxRetx => reported
    BY <1>1, <1>7, <1>8, <1>9, <1>10, <2>1 DEF TxInv, Counts
  <2> QED
    BY <1>1, <1>2, <1>4, <1>11, <2>2 DEF TxInv, Counts, upVars
<1> DEFINE t == taken + 1
<1>21. /\ PollsOrSilent' /\ LastPolled' /\ TxTypes' /\ ~failed'
       /\ OnlyDiscarded(sdu_queue') => silent'
       /\ \E p \in BOOLEAN : data' \subseteq data \cup
            {[sn |-> SnOf(taken), id |-> taken, from |-> 0, to |-> to, p |-> p]}
  <2>1. t \in Nat /\ t > 0 /\ taken' = t /\ t - 1 = taken
    BY <1>2, <1>4
  <2>2. /\ Send(taken, 0, to, SnOf(t - 1), TRUE, bytes)
        /\ UNCHANGED <<retx_sn, max_retx_reached, upVars>> /\ ~failed /\ TxTypes
    BY <1>1, <1>2, <1>4, <2>1 DEF TxInv, retxVars
  <2>3. \E p \in BOOLEAN : data' \subseteq data \cup
            {[sn |-> SnOf(t - 1), id |-> taken, from |-> 0, to |-> to, p |-> p]}
    BY <1>6, <1>19, <2>1, <2>2, NewPduPolls
  <2> HIDE DEF t
  <2> QED
    BY <1>6, <1>19, <2>1, <2>2, <2>3, NewPduPolls
<1>27. QueueOk'
  BY <1>1, <1>2, <1>4, <1>21, QueueTaken DEF TxInv, QueueOk
<1>22. TxInv'
  BY <1>16, <1>17, <1>18, <1>19, <1>20, <1>21, <1>27 DEF TxInv
<1>23. PICK m : \E p \in BOOLEAN :
         /\ m = [sn |-> SnOf(taken), id |-> taken, from |-> 0, to |-> to, p |-> p]
         /\ data' \subseteq data \cup {m}
  BY <1>21
<1>24. PduOk(m)'
  <2>1. m \in Pdu /\ m.id = taken /\ m.sn = SnOf(taken) /\ m.from = 0 /\ m.to = to
    BY <1>4, <1>5, <1>6, <1>23, SnType DEF Pdu
  <2>2. to < Sent(j)' /\ 0 <= to
    <3>1. CASE full
      BY <1>5, <1>6, <1>13, <1>26, <3>1
    <3>2. CASE ~full
      BY <1>3, <1>6, <1>13, <3>2
    <3> QED
      BY <3>1, <3>2
  <2>3. Fresh(passed' - 1 - taken)
    <3>1. passed \in Nat /\ passed <= taken
      BY <1>1, RxFacts DEF TxInv, RxInv, RxCounts
    <3>2. passed' = passed
      BY DEF rxVars
    <3>3. passed - 1 - taken < SnMod - Window
      BY <1>4, <3>1, ConstantFacts
    <3> QED
      BY <3>2, <3>3 DEF Fresh
  <2>4. taken < taken'
    BY <1>2, <1>4
  <2>5. m.id = j
    BY <1>26, <2>1
  <2>6. m.to < Sent(m.id)' /\ m.from <= m.to
    BY <2>1, <2>2, <2>5
  <2> QED
    BY <1>26, <2>1, <2>3, <2>4, <2>6 DEF PduOk
<1>25. Segmenting' => passed < taken'
  BY <1>1, <1>2, <1>4, RxFacts DEF TxInv, RxInv, RxCounts
<1> QED
  BY <1>4, <1>15, <1>22, <1>23, <1>24, <1>25, PullKept

LEMMA BuildContinuedStep ==
  ASSUME IInv, NEW n \in Grants, BuildContinuedSduSegment(n), UNCHANGED <<rxVars, status>>
  PROVE  IInv'
<1>1. TxInv /\ DataInv /\ RxInv /\ StatusInv
  BY DEF IInv
<1>2. PICK j \in Nat : j = taken - 1
  <2>1. Segmenting
    BY DEF BuildContinuedSduSegment, Segmenting
  <2> QED
    BY <1>1, <2>1, SegmentFacts
<1>3. /\ Segmenting /\ acked <= j /\ j \in acked .. taken - 1 /\ j \in 0 .. taken - 1
      /\ j \in SduIds /\ taken = j + 1 /\ acked \in Nat
      /\ tx_next = SnOf(j) /\ sn_under_segmentation = SnOf(j)
      /\ SnOf(j) \in DOMAIN tx_window /\ SduOk(tx_window[SnOf(j)], j)
      /\ tx_window[SnOf(j)].next_so = Sent(j)
      /\ Sent(j) \in Nat /\ Sent(j) > 0 /\ Sent(j) < Length(j)
      /\ Length(j) \in Nat
  <2>1. Segmenting
    BY DEF BuildContinuedSduSegment, Segmenting
  <2>2. taken \in Nat /\ acked \in Nat
    BY <1>1 DEF TxInv, TxCounts
  <2> QED
    BY <1>1, <1>2, <2>1, <2>2, SegmentFacts, ConstantFacts
<1> DEFINE left == Length(j) - Sent(j)
           last == left <= n
           m    == IF last THEN left ELSE n
           to   == Sent(j) + m - 1
<1>4. /\ retx_queue = <<>>
      /\ tx_window' = [tx_window EXCEPT ![SnOf(j)].next_so = @ + m]
      /\ sn_under_segmentation' = IF last THEN NoSn ELSE SnOf(j)
      /\ tx_next' = IF last THEN Plus(SnOf(j), 1) ELSE SnOf(j)
      /\ UNCHANGED <<sdu_queue, taken, retxVars>>
      /\ Send(j, Sent(j), to, SnOf(j), TRUE, m)
      /\ UNCHANGED <<ackVars, upVars, max_retx_reached>>
  <2>1. tx_window[SnOf(j)].id = j /\ tx_window[SnOf(j)].next_so = Sent(j)
    BY <1>3 DEF SduOk
  <2> QED
    BY <1>3, <2>1 DEF BuildContinuedSduSegment
<1>5. n \in Nat /\ n > 0
  BY TxAssumption
<1>6. /\ m \in Nat /\ m > 0 /\ to \in Nat /\ Sent(j) <= to /\ to = Sent(j) + m - 1
      /\ Sent(j) + m <= Length(j)
      /\ (last => Sent(j) + m = Length(j)) /\ (~last => Sent(j) + m < Length(j))
  BY <1>3, <1>5
<1> HIDE DEF m, to, last, left
<1>7. /\ DOMAIN tx_window' = DOMAIN tx_window
      /\ \A k \in DOMAIN tx_window : k # SnOf(j) => tx_window'[k] = tx_window[k]
      /\ tx_window'[SnOf(j)] = [tx_window[SnOf(j)] EXCEPT !.next_so = @ + m]
  BY <1>3, <1>4
<1>8. /\ SduOk(tx_window'[SnOf(j)], j) /\ tx_window'[SnOf(j)].next_so = Sent(j) + m
      /\ tx_window'[SnOf(j)].retx_count = tx_window[SnOf(j)].retx_count
  BY <1>3, <1>6, <1>7 DEF SduOk, Entry
<1>9. \A i \in acked .. taken - 1 : i # j =>
         SnOf(i) \in DOMAIN tx_window /\ tx_window'[SnOf(i)] = tx_window[SnOf(i)]
  <2> TAKE i \in acked .. taken - 1
  <2> HAVE i # j
  <2>1. SnOf(i) \in DOMAIN tx_window
    BY <1>1 DEF TxInv, TxWindow, SnRange
  <2>2. i \in Nat /\ i < j /\ j < i + SnMod
    BY <1>1, <1>3, ConstantFacts DEF TxInv, TxCounts
  <2>3. SnOf(i) # SnOf(j)
    BY <2>2, SnDiffer
  <2> QED
    BY <1>7, <2>1, <2>3
<1>10. Segmenting' <=> ~last
  <2>1. SnOf(j) # NoSn
    BY SnType DEF NoSn
  <2> QED
    BY <1>4, <2>1 DEF Segmenting
<1>11. taken' = taken /\ taken' - 1 = j /\ acked' = acked
  BY <1>3, <1>4 DEF ackVars
<1>12. Sent(j)' = Sent(j) + m
  <2>1. CASE last
    BY <1>6, <1>10, <2>1 DEF Sent
  <2>2. CASE ~last
    <3>1. Sent(j)' = tx_window'[sn_under_segmentation'].next_so
      BY <1>10, <1>11, <2>2 DEF Sent
    <3> QED
      BY <1>4, <1>8, <2>2, <3>1
  <2> QED
    BY <2>1, <2>2
<1>13. \A i \in 0 .. taken - 1 : i # j => Sent(i)' = Sent(i)
  BY <1>3, <1>11 DEF Sent
<1>14. Grows
  <2>1. \A i \in 0 .. taken - 1 :
          i \in SduIds /\ Length(i) \in Nat /\ Sent(i) \in Nat /\ Sent(i) <= Length(i)
    BY <1>1, SentFacts DEF TxInv
  <2>2. \A i \in 0 .. taken - 1 :
          Sent(i)' \in Nat /\ Sent(i) <= Sent(i)' /\ Sent(i)' <= Length(i)
    <3> TAKE i \in 0 .. taken - 1
    <3>1. CASE i = j
      BY <1>3, <1>6, <1>12, <3>1
    <3>2. CASE i # j
      BY <1>13, <2>1, <3>2
    <3> QED
      BY <3>1, <3>2
  <2>3. taken \in Nat /\ taken' \in Nat /\ taken <= taken'
    BY <1>3, <1>11
  <2> QED
    BY <2>1, <2>2, <2>3 DEF Grows
<1>15. TxCounts'
  BY <1>1, <1>4, <1>11 DEF TxInv, TxCounts
<1>16. TxWindow'
  <2>1. tx_next_ack' = SnOf(acked') /\ DOMAIN tx_window' = SnRange(acked', taken')
    BY <1>1, <1>4, <1>7, <1>11 DEF TxInv, TxWindow, ackVars
  <2>2. \A i \in acked .. taken - 1 : SduOk(tx_window'[SnOf(i)], i)
    BY <1>1, <1>8, <1>9 DEF TxInv, TxWindow
  <2> QED
    BY <1>11, <2>1, <2>2 DEF TxWindow
<1>17. TxNext'
  <2>1. CASE last
    <3>1. tx_next' = SnOf(j + 1)
      BY <1>4, <2>1, PlusOf
    <3> QED
      BY <1>3, <1>10, <1>11, <2>1, <3>1 DEF TxNext
  <2>2. CASE ~last
    <3>1. Sent(j)' > 0 /\ Sent(j)' < Length(j)
      BY <1>3, <1>6, <1>12, <2>2
    <3>2. Sent(taken - 1)' = Sent(j)' /\ Length(taken - 1)' = Length(j)
      BY <1>11 DEF Sent, Length
    <3>3. tx_next' = SnOf(taken' - 1) /\ sn_under_segmentation' = tx_next'
      BY <1>4, <1>11, <2>2
    <3>4. acked' < taken'
      BY <1>3, <1>11
    <3> QED
      BY <1>10, <2>2, <3>1, <3>2, <3>3, <3>4 DEF TxNext
  <2> QED
    BY <2>1, <2>2
<1>18. retx_queue' = <<>> /\ Retransmissions'
  BY <1>4 DEF Retransmissions, retxVars
<1>19. Counts'
  <2>1. \A i \in acked .. taken - 1 : tx_window'[SnOf(i)].retx_count >= MaxRetx => reported
    BY <1>1, <1>3, <1>8, <1>9 DEF TxInv, Counts
  <2> QED
    BY <1>1, <1>4, <1>11, <2>1 DEF TxInv, Counts, upVars
<1>20. /\ PollsOrSilent' /\ LastPolled' /\ TxTypes' /\ ~failed'
       /\ OnlyDiscarded(sdu_queue') => silent'
       /\ \E p \in BOOLEAN : data' \subseteq data \cup
            {[sn |-> SnOf(j), id |-> j, from |-> Sent(j), to |-> to, p |-> p]}
  <2>1. PICK t \in Nat : t = j + 1
    OBVIOUS
  <2>2. t > 0 /\ taken' = t /\ t - 1 = j
    BY <1>3, <1>11, <2>1
  <2>3. /\ Send(j, Sent(j), to, SnOf(t - 1), TRUE, m)
        /\ UNCHANGED <<retx_sn, max_retx_reached, upVars>> /\ ~failed /\ TxTypes
    BY <1>1, <1>4, <2>2 DEF TxInv, retxVars
  <2>4. /\ PollsOrSilent' /\ LastPolled' /\ TxTypes' /\ ~failed'
        /\ OnlyDiscarded(sdu_queue') => silent'
        /\ \E p \in BOOLEAN : data' \subseteq data \cup
            {[sn |-> SnOf(t - 1), id |-> j, from |-> Sent(j), to |-> to, p |-> p]}
    BY <1>6, <1>18, <2>2, <2>3, NewPduPolls
  <2> QED
    BY <2>2, <2>4
<1>26. QueueOk'
  BY <1>1, <1>4, <1>20 DEF TxInv, QueueOk
<1>21. TxInv'
  BY <1>15, <1>16, <1>17, <1>18, <1>19, <1>20, <1>26 DEF TxInv
<1>22. PICK m2 : \E p \in BOOLEAN :
         /\ m2 = [sn |-> SnOf(j), id |-> j, from |-> Sent(j), to |-> to, p |-> p]
         /\ data' \subseteq data \cup {m2}
  BY <1>20
<1>23. passed \in Nat /\ passed < taken /\ passed' = passed
  <2>1. passed < taken /\ passed \in Nat
    BY <1>1, <1>3 DEF RxInv, RxCounts
  <2> QED
    BY <2>1 DEF rxVars
<1>24. PduOk(m2)'
  <2>1. m2 \in Pdu /\ m2.id = j /\ m2.sn = SnOf(j) /\ m2.from = Sent(j) /\ m2.to = to
    BY <1>3, <1>6, <1>22, SnType DEF Pdu
  <2>2. m2.from <= m2.to /\ m2.to < Sent(m2.id)'
    BY <1>3, <1>6, <1>12, <2>1
  <2>3. Fresh(passed' - 1 - j)
    <3>1. passed - 1 - j < SnMod - Window
      BY <1>3, <1>23, ConstantFacts
    <3> QED
      BY <1>23, <3>1 DEF Fresh
  <2>4. j < taken'
    BY <1>3, <1>11
  <2> QED
    BY <2>1, <2>2, <2>3, <2>4 DEF PduOk
<1>25. Segmenting' => passed < taken'
  BY <1>11, <1>23
<1> QED
  BY <1>11, <1>14, <1>21, <1>22, <1>24, <1>25, PullKept

\* Something of the first retransmission in the queue is sent.
LEMMA RetxQueueStep ==
  ASSUME TxInv, retx_queue # <<>>, NEW m \in Nat, m > 0, m <= Head(retx_queue).length,
         UNCHANGED <<taken, acked, sn_under_segmentation, tx_window>>,
         retx_queue' = IF m = Head(retx_queue).length THEN Tail(retx_queue)
                       ELSE [retx_queue EXCEPT ![1] =
                               [sn |-> Head(retx_queue).sn, so |-> Head(retx_queue).so + m,
                                length |-> Head(retx_queue).length - m]]
  PROVE  Retransmissions'
<1> DEFINE q == retx_queue
           r == Head(q)
           s == [sn |-> r.sn, so |-> r.so + m, length |-> r.length - m]
<1>1. /\ q \in Seq(Retransmission) /\ Len(q) \in Nat /\ Len(q) > 0 /\ r = q[1]
      /\ \A k \in 1 .. Len(q) : q[k] \in Retransmission
      /\ \A k \in 1 .. Len(q) : \E i \in acked .. taken - 1 : RetxOf(q[k], i)
  BY DEF TxInv, Retransmissions
<1>2. \A i, x : RetxOf(x, i)' <=> RetxOf(x, i)
  BY DEF RetxOf, Sent, Segmenting
<1>3. r \in Retransmission /\ r.so \in Nat /\ r.length \in Nat
  <2>1. r \in Retransmission
    BY <1>1
  <2> QED
    BY <2>1 DEF Retransmission
<1>4. CASE m = r.length
  <2>1. /\ retx_queue' \in Seq(Retransmission) /\ Len(retx_queue') = Len(q) - 1
        /\ \A k \in 1 .. Len(q) - 1 : retx_queue'[k] = q[k + 1] /\ k + 1 \in 1 .. Len(q)
    BY <1>1, <1>4
  <2>2. \A k \in 1 .. Len(q) - 1 : \E i \in acked .. taken - 1 : RetxOf(retx_queue'[k], i)
    BY <1>1, <2>1
  <2> QED
    BY <1>2, <2>1, <2>2 DEF Retransmissions
<1>5. CASE m # r.length
  <2>1. s \in Retransmission
    BY <1>3, <1>5 DEF Retransmission
  <2>2. PICK i \in acked .. taken - 1 : RetxOf(r, i)
    BY <1>1
  <2>3. RetxOf(s, i)
    BY <1>3, <2>2 DEF RetxOf
  <2> HIDE DEF s, r
  <2>4. retx_queue' = [q EXCEPT ![1] = s]
    BY <1>5 DEF r, s
  <2>5. /\ retx_queue' \in Seq(Retransmission) /\ Len(retx_queue') = Len(q)
        /\ \A k \in 1 .. Len(q) : retx_queue'[k] = IF k = 1 THEN s ELSE q[k]
    <3>1. q \in Seq(Retransmission) /\ 1 \in 1 .. Len(q) /\ s \in Retransmission
      BY <1>1, <2>1
    <3> HIDE DEF q
    <3>2. /\ [q EXCEPT ![1] = s] \in Seq(Retransmission)
          /\ Len([q EXCEPT ![1] = s]) = Len(q)
          /\ \A k \in 1 .. Len(q) : [q EXCEPT ![1] = s][k] = IF k = 1 THEN s ELSE q[k]
      BY <3>1, ExceptSeq
    <3> QED
      BY <2>4, <3>2
  <2>6. \A k \in 1 .. Len(q) : \E l \in acked .. taken - 1 : RetxOf(retx_queue'[k], l)
    BY <1>1, <2>2, <2>3, <2>5
  <2> QED
    BY <1>2, <2>5, <2>6 DEF Retransmissions
<1> QED
  BY <1>4, <1>5

LEMMA BuildRetxStep ==
  ASSUME IInv, NEW n \in Grants, BuildRetxPdu(n), UNCHANGED <<rxVars, status>>
  PROVE  IInv'
<1>1. TxInv /\ DataInv /\ RxInv /\ StatusInv
  BY DEF IInv
<1> DEFINE r    == Head(retx_queue)
           m    == UpTo(n, r.length)
           done == m = r.length
           to   == r.so + m - 1
<1>2. /\ retx_queue # <<>>
      /\ retx_sn' = r.sn
      /\ retx_queue' = IF done THEN Tail(retx_queue)
                       ELSE [retx_queue EXCEPT ![1] = [sn |-> r.sn, so |-> r.so + m,
                                                       length |-> r.length - m]]
      /\ max_retx_reached' = (done /\ tx_window[r.sn].retx_count = MaxRetx)
      /\ UNCHANGED <<sdu_queue, segVars, tx_window>>
      /\ Send(tx_window[r.sn].id, r.so, to, r.sn, FALSE, 0)
      /\ UNCHANGED <<ackVars, upVars>>
  BY DEF BuildRetxPdu
<1>3. /\ retx_queue \in Seq(Retransmission) /\ r = retx_queue[1]
      /\ 1 \in 1 .. Len(retx_queue)
  BY <1>1, <1>2 DEF TxInv, Retransmissions
<1>4. r \in Retransmission /\ r.sn \in Sn /\ r.so \in Nat /\ r.length \in Nat /\ r.length > 0
  <2>1. r \in Retransmission
    BY <1>3
  <2> QED
    BY <2>1 DEF Retransmission
<1>5. PICK i \in acked .. taken - 1 : RetxOf(r, i)
  BY <1>1, <1>3 DEF TxInv, Retransmissions
<1>6. /\ taken \in Nat /\ acked \in Nat /\ taken <= acked + Window
      /\ i \in Nat /\ i \in 0 .. taken - 1 /\ i \in SduIds
      /\ r.sn = SnOf(i) /\ tx_window[r.sn].id = i
      /\ Sent(i) \in Nat /\ r.so + r.length <= Sent(i)
  <2>1. taken \in Nat /\ acked \in Nat /\ taken <= acked + Window
    BY <1>1 DEF TxInv, TxCounts
  <2>2. i \in Nat /\ i \in 0 .. taken - 1
    BY <2>1
  <2>3. i \in SduIds /\ Sent(i) \in Nat
    BY <1>1, <2>2, SentFacts DEF TxInv
  <2>4. SduOk(tx_window[SnOf(i)], i)
    BY <1>1 DEF TxInv, TxWindow
  <2> QED
    BY <1>5, <2>1, <2>2, <2>3, <2>4 DEF RetxOf, SduOk
<1>7. n \in Nat /\ n > 0
  BY TxAssumption
<1>8. m \in Nat /\ m > 0 /\ m <= r.length
  BY <1>4, <1>7, UpToFacts
<1> HIDE DEF m
<1>9. to \in Nat /\ r.so <= to /\ to < Sent(i)
  BY <1>4, <1>6, <1>8
<1>10. UNCHANGED <<taken, acked, sn_under_segmentation, tx_window, sdu_queue, tx_next, tx_next_ack,
                   reported, failed>>
  BY <1>2 DEF segVars, ackVars, upVars
<1>11. /\ Grows /\ Segmenting' = Segmenting
       /\ \A k \in 0 .. taken - 1 : Sent(k)' = Sent(k)
  BY <1>1, <1>10, SentStill
<1>12. Retransmissions'
  BY <1>1, <1>2, <1>8, <1>10, RetxQueueStep
<1>13. TxCounts' /\ TxWindow'
  BY <1>1, <1>10 DEF TxInv, TxCounts, TxWindow
<1>14. TxNext'
  BY <1>1, <1>10 DEF TxInv, TxNext, Sent, Segmenting
<1>15. Counts'
  <2>1. max_retx_reached' => tx_window[SnOf(i)].retx_count = MaxRetx
    BY <1>2, <1>6
  <2>2. max_retx_reached' => reported
    BY <1>1, <1>5, <2>1, TxAssumption DEF TxInv, Counts
  <2> QED
    BY <1>1, <1>10, <2>2 DEF TxInv, Counts
<1>16. PICK p \in BOOLEAN :
         /\ data' \subseteq data \cup
              {[sn |-> r.sn, id |-> tx_window[r.sn].id, from |-> r.so, to |-> to, p |-> p]}
         /\ Exhausted(sdu_queue', retx_queue', sn_under_segmentation', tx_window') => p
         /\ p => poll_timer'
         /\ poll_sn' = IF p /\ FALSE THEN r.sn ELSE poll_sn
         /\ silent /\ ~silent' => poll_sn' = Newest
         /\ OnlyDiscarded(sdu_queue') => silent'
         /\ poll_sn' \in Sn /\ {poll_timer, silent}' \subseteq BOOLEAN
         /\ pdu_without_poll' \in 0 .. PollPdu /\ byte_without_poll' \in 0 .. PollByte
  <2>1. TxTypes /\ Send(tx_window[r.sn].id, r.so, to, r.sn, FALSE, 0)
        /\ r.sn \in Sn /\ FALSE \in BOOLEAN /\ 0 \in Nat
    BY <1>1, <1>2, <1>4 DEF TxInv
  <2> HIDE DEF r, to
  <2> QED
    BY <2>1, SendFacts
<1>17. PollsOrSilent'
  BY <1>16, PurgedExhausts DEF PollsOrSilent
<1>18. LastPolled'
  <2> SUFFICES ASSUME ~Segmenting, sdu_queue = <<>>, ~silent', taken > 0
               PROVE  poll_sn' = SnOf(taken - 1)
    BY <1>10, <1>11 DEF LastPolled
  <2>1. CASE ~silent
    BY <1>1, <1>16, <2>1 DEF TxInv, LastPolled
  <2>2. CASE silent
    <3>1. poll_sn' = Newest
      BY <1>16, <2>2
    <3>2. tx_next' = SnOf(taken) /\ sn_under_segmentation' = NoSn
      BY <1>1, <1>10 DEF TxInv, TxNext, Segmenting
    <3>3. Newest = Plus(SnOf(taken), SnMod - 1)
      BY <3>2 DEF Newest
    <3> QED
      BY <1>6, <3>1, <3>3, PlusBack
  <2> QED
    BY <2>1, <2>2
<1>19. TxTypes' /\ ~failed'
  <2>1. max_retx_reached' \in BOOLEAN
    BY <1>2, Zenon
  <2> QED
    BY <1>1, <1>2, <1>4, <1>10, <1>16, <2>1 DEF TxInv, TxTypes
<1>25. QueueOk'
  BY <1>1, <1>10, <1>16 DEF TxInv, QueueOk
<1>20. TxInv'
  BY <1>12, <1>13, <1>14, <1>15, <1>17, <1>18, <1>19, <1>25 DEF TxInv
<1>21. PICK m2 : /\ m2 = [sn |-> SnOf(i), id |-> i, from |-> r.so, to |-> to, p |-> p]
                 /\ data' \subseteq data \cup {m2}
  BY <1>6, <1>16
<1>22. passed \in Nat /\ passed <= taken /\ passed' = passed /\ (Segmenting => passed < taken)
  <2>1. passed \in Nat /\ passed <= taken /\ (Segmenting => passed < taken)
    BY <1>1, RxFacts DEF TxInv, RxInv, RxCounts
  <2> QED
    BY <2>1 DEF rxVars
<1>23. PduOk(m2)'
  <2>1. m2 \in Pdu /\ m2.id = i /\ m2.sn = SnOf(i) /\ m2.from = r.so /\ m2.to = to
    BY <1>4, <1>6, <1>9, <1>21, SnType DEF Pdu
  <2>2. m2.from <= m2.to /\ m2.to < Sent(m2.id)'
    BY <1>6, <1>9, <1>11, <2>1
  <2>3. Fresh(passed' - 1 - i)
    <3>1. passed - 1 - i < SnMod - Window
      BY <1>5, <1>6, <1>22, ConstantFacts
    <3> QED
      BY <1>22, <3>1 DEF Fresh
  <2>4. i < taken'
    BY <1>6, <1>10
  <2> QED
    BY <2>1, <2>2, <2>3, <2>4 DEF PduOk
<1>24. Segmenting' => passed < taken'
  BY <1>10, <1>11, <1>22
<1> QED
  BY <1>10, <1>11, <1>20, <1>21, <1>23, <1>24, PullKept

-----------------------------------------------------------------------------
(* Retransmissions that are counted.                                       *)

\* Counting leaves the SDUs as they are, and who passes MaxRetx was told of.
LEMMA IncrementedWindow ==
  ASSUME NEW w, NEW a \in Nat, NEW t \in Nat, NEW sns, NEW told \in BOOLEAN,
         DOMAIN w = SnRange(a, t),
         \A i \in a .. t - 1 : /\ SduOk(w[SnOf(i)], i)
                               /\ w[SnOf(i)].retx_count >= MaxRetx => told
  PROVE  /\ DOMAIN Increment(w, sns) = SnRange(a, t)
         /\ \A i \in a .. t - 1 :
              /\ SduOk(Increment(w, sns)[SnOf(i)], i)
              /\ Increment(w, sns)[SnOf(i)].next_so = w[SnOf(i)].next_so
              /\ Increment(w, sns)[SnOf(i)].retx_count >= MaxRetx =>
                   told \/ Reaches(Increment(w, sns), sns)
<1>1. DOMAIN Increment(w, sns) = SnRange(a, t)
  BY DEF Increment
<1> SUFFICES ASSUME NEW i \in a .. t - 1
             PROVE  /\ SduOk(Increment(w, sns)[SnOf(i)], i)
                    /\ Increment(w, sns)[SnOf(i)].next_so = w[SnOf(i)].next_so
                    /\ Increment(w, sns)[SnOf(i)].retx_count >= MaxRetx =>
                         told \/ Reaches(Increment(w, sns), sns)
  BY <1>1
<1> DEFINE sn == SnOf(i)
<1>2. sn \in DOMAIN w /\ w[sn] \in Entry /\ w[sn].id = i
  BY DEF SnRange, SduOk
<1> HIDE DEF sn
<1>3. /\ Increment(w, sns)[sn] \in Entry
      /\ Increment(w, sns)[sn].id = w[sn].id
      /\ Increment(w, sns)[sn].next_so = w[sn].next_so
      /\ Increment(w, sns)[sn].retx_count =
           IF sn \in sns THEN w[sn].retx_count + 1 ELSE w[sn].retx_count
  BY <1>2, IncrementFacts
<1>4. MaxRetx \in Nat /\ w[sn].retx_count \in Int
  BY <1>2, TxAssumption DEF Entry
<1>5. w[sn].retx_count >= MaxRetx => told
  BY DEF sn
<1>6. ASSUME Increment(w, sns)[sn].retx_count >= MaxRetx, ~told
      PROVE  Reaches(Increment(w, sns), sns)
  <2>1. sn \in sns /\ Increment(w, sns)[sn].retx_count = MaxRetx
    BY <1>3, <1>4, <1>5, <1>6
  <2>2. sn \in DOMAIN Increment(w, sns)
    BY <1>2 DEF Increment
  <2> QED
    BY <2>1, <2>2 DEF Reaches
<1> QED
  BY <1>2, <1>3, <1>6 DEF SduOk, sn

LEMMA PollExpireStep ==
  ASSUME IInv, PollExpire
  PROVE  IInv'
<1>1. TxInv /\ DataInv /\ RxInv /\ StatusInv
  BY DEF IInv
<1> DEFINE retx == [sn |-> tx_next_ack, so |-> 0, length |-> Length(tx_window[tx_next_ack].id)]
           sends == /\ Exhausted(sdu_queue, retx_queue, sn_under_segmentation, tx_window)
                    /\ InWindow(tx_next_ack)
                    /\ Len(retx_queue) < Window
<1>2. /\ poll_timer' = FALSE
      /\ sends => /\ retx_queue' = Append(retx_queue, retx)
                  /\ tx_window' = Increment(tx_window, {tx_next_ack})
                  /\ reported' = (reported \/ Reaches(tx_window', {tx_next_ack}))
      /\ ~sends => UNCHANGED <<retx_queue, tx_window, reported>>
      /\ UNCHANGED <<segVars, ackVars, poll_sn, pdu_without_poll, byte_without_poll,
                     retx_sn, failed, max_retx_reached, silent, data>>
      /\ UNCHANGED rxVars /\ UNCHANGED status
      /\ sdu_queue' = sdu_queue \/ UpdateMacBufferState
  BY DEF PollExpire, PollRetransmitExpires
<1>3. UNCHANGED <<taken, tx_next, sn_under_segmentation, acked, tx_next_ack>>
  BY <1>2 DEF segVars, ackVars
<1>4. /\ taken \in Nat /\ acked \in Nat /\ acked <= taken /\ taken <= acked + Window
      /\ tx_next_ack = SnOf(acked) /\ DOMAIN tx_window = SnRange(acked, taken)
      /\ \A i \in acked .. taken - 1 : SduOk(tx_window[SnOf(i)], i)
      /\ reported \in BOOLEAN
  BY <1>1 DEF TxInv, TxCounts, TxWindow, TxTypes
<1>5. InWindow(tx_next_ack) <=> acked < taken
  <2>1. acked < taken => SnOf(acked) \in SnRange(acked, taken)
    BY <1>4 DEF SnRange
  <2>2. acked >= taken => SnRange(acked, taken) = {}
    BY <1>4 DEF SnRange
  <2> QED
    BY <1>4, <2>1, <2>2 DEF InWindow
<1>6. sends => acked \in 0 .. taken - 1 /\ Sent(acked) = Length(acked)
  <2> SUFFICES ASSUME sends PROVE acked \in 0 .. taken - 1 /\ Sent(acked) = Length(acked)
    OBVIOUS
  <2>1. acked \in 0 .. taken - 1
    BY <1>4, <1>5
  <2>2. ~Segmenting \/ taken - acked >= Window
    BY <1>4, WindowFullFacts DEF Exhausted, Segmenting
  <2>3. ~Segmenting \/ acked # taken - 1
    BY <1>4, <2>2, ConstantFacts
  <2> QED
    BY <1>1, <2>1, <2>3, SentFacts DEF TxInv
<1>7. /\ DOMAIN tx_window' = SnRange(acked, taken)
      /\ \A i \in acked .. taken - 1 :
           /\ SduOk(tx_window'[SnOf(i)], i)
           /\ tx_window'[SnOf(i)].next_so = tx_window[SnOf(i)].next_so
           /\ tx_window'[SnOf(i)].retx_count >= MaxRetx => reported'
  <2>0. \A i \in acked .. taken - 1 : tx_window[SnOf(i)].retx_count >= MaxRetx => reported
    BY <1>1 DEF TxInv, Counts
  <2>1. CASE sends
    <3> DEFINE w == Increment(tx_window, {tx_next_ack})
    <3>1. /\ DOMAIN w = SnRange(acked, taken)
          /\ \A i \in acked .. taken - 1 :
               /\ SduOk(w[SnOf(i)], i)
               /\ w[SnOf(i)].next_so = tx_window[SnOf(i)].next_so
               /\ w[SnOf(i)].retx_count >= MaxRetx => reported \/ Reaches(w, {tx_next_ack})
      <4>1. \A i \in acked .. taken - 1 :
              /\ SduOk(tx_window[SnOf(i)], i)
              /\ tx_window[SnOf(i)].retx_count >= MaxRetx => reported
        BY <1>4, <2>0
      <4>2. /\ acked \in Nat /\ taken \in Nat /\ reported \in BOOLEAN
            /\ DOMAIN tx_window = SnRange(acked, taken)
        BY <1>4
      <4> HIDE DEF sends, retx
      <4> QED
        BY ONLY <4>1, <4>2, IncrementedWindow, SMTT(60)
    <3>2. tx_window' = w /\ reported' = (reported \/ Reaches(w, {tx_next_ack}))
      BY <1>2, <2>1
    <3> HIDE DEF w
    <3> QED
      BY <3>1, <3>2
  <2>2. CASE ~sends
    BY <1>2, <1>4, <2>0, <2>2
  <2> QED
    BY <2>1, <2>2
<1>8. /\ Grows /\ Segmenting' = Segmenting
      /\ \A k \in 0 .. taken - 1 : Sent(k)' = Sent(k)
  <2>1. Segmenting => tx_window'[sn_under_segmentation].next_so
                        = tx_window[sn_under_segmentation].next_so
    BY <1>1, <1>7, SegmentFacts
  <2> QED
    BY <1>1, <1>3, <2>1, SentStill
<1> HIDE DEF sends, retx
<1>21. QueueOk' /\ Purged(sdu_queue') = Purged(sdu_queue)
  <2>1. sdu_queue' = sdu_queue \/ sdu_queue' = Purged(sdu_queue)
    BY <1>2 DEF UpdateMacBufferState
  <2>2. QueueOk /\ taken \in Nat /\ taken' = taken /\ silent' = silent
    BY <1>1, <1>2, <1>3 DEF TxInv, TxCounts
  <2> QED
    BY <2>1, <2>2, QueueDropped
<1>9. TxCounts' /\ TxWindow'
  BY <1>1, <1>3, <1>4, <1>7 DEF TxInv, TxCounts, TxWindow
<1>10. TxNext'
  <2>1. CASE Segmenting
    <3>1. taken - 1 \in 0 .. taken - 1 /\ taken' - 1 = taken - 1
      BY <1>1, <1>3, <2>1, SegmentFacts
    <3>2. PICK j : j = taken - 1 /\ j \in 0 .. taken - 1
      BY <3>1
    <3>3. Sent(j)' = Sent(j) /\ Sent(taken - 1)' = Sent(j)' /\ Sent(taken - 1) = Sent(j)
          /\ Length(taken - 1)' = Length(taken - 1)
      BY <1>3, <1>8, <3>2 DEF Sent, Length
    <3> QED
      BY <1>1, <1>3, <1>8, <2>1, <3>3 DEF TxInv, TxNext
  <2>2. CASE ~Segmenting
    BY <1>1, <1>3, <1>8, <2>2 DEF TxInv, TxNext
  <2> QED
    BY <2>1, <2>2
<1>11. Retransmissions'
  <2>1. CASE sends
    <3>1. tx_window[tx_next_ack].id = acked
      BY <1>4, <1>6, <2>1 DEF SduOk
    <3>2. /\ acked \in SduIds /\ Length(acked) \in Nat /\ Length(acked) > 0
          /\ acked \in acked .. taken - 1
      BY <1>1, <1>4, <1>6, <2>1, SentFacts DEF TxInv
    <3>3. retx \in Retransmission /\ retx.sn = SnOf(acked) /\ retx.so = 0
          /\ retx.length = Length(acked)
      BY <1>4, <3>1, <3>2, SnType DEF retx, Retransmission
    <3>4. RetxOf(retx, acked)
      BY <1>6, <2>1, <3>2, <3>3 DEF RetxOf
    <3>5. \A i \in acked .. taken - 1 : \A x : RetxOf(x, i)' <=> RetxOf(x, i)
      <4>1. \A i \in acked .. taken - 1 : i \in 0 .. taken - 1
        BY <1>4
      <4> QED
        BY <1>8, <4>1 DEF RetxOf
    <3>6. retx_queue \in Seq(Retransmission) /\ Len(retx_queue) \in Nat
      BY <1>1 DEF TxInv, Retransmissions
    <3>7. /\ retx_queue' \in Seq(Retransmission) /\ Len(retx_queue') = Len(retx_queue) + 1
          /\ \A k \in 1 .. Len(retx_queue) + 1 :
               retx_queue'[k] = IF k = Len(retx_queue) + 1 THEN retx ELSE retx_queue[k]
      BY <1>2, <2>1, <3>3, <3>6
    <3>8. \A k \in 1 .. Len(retx_queue) + 1 : \E i \in acked .. taken - 1 : RetxOf(retx_queue'[k], i)
      <4> TAKE k \in 1 .. Len(retx_queue) + 1
      <4>1. CASE k = Len(retx_queue) + 1
        BY <3>2, <3>4, <3>7, <4>1
      <4>2. CASE k # Len(retx_queue) + 1
        <5>1. k \in 1 .. Len(retx_queue) /\ retx_queue'[k] = retx_queue[k]
          BY <3>6, <3>7, <4>2
        <5> QED
          BY <1>1, <5>1 DEF TxInv, Retransmissions
      <4> QED
        BY <4>1, <4>2
    <3> QED
      BY <1>3, <3>5, <3>7, <3>8 DEF Retransmissions
  <2>2. CASE ~sends
    BY <1>1, <1>2, <1>3, <1>8, <2>2, RetxKept DEF TxInv
  <2> QED
    BY <2>1, <2>2
<1>12. Counts'
  <2>1. reported => reported'
    BY <1>2
  <2> QED
    BY <1>1, <1>2, <1>3, <1>7, <2>1 DEF TxInv, Counts
<1>13. PollsOrSilent'
  <2>1. CASE sends
    <3> DEFINE all == Retransmission \cup {retx}
    <3>1. retx_queue \in Seq(all) /\ retx \in all
      BY <1>1 DEF TxInv, Retransmissions
    <3> HIDE DEF all
    <3>2. Append(retx_queue, retx) # <<>>
      BY <3>1, AppendProperties
    <3> QED
      BY <1>2, <2>1, <3>2 DEF PollsOrSilent
  <2>2. CASE ~sends
    <3> SUFFICES ASSUME acked < taken, retx_queue = <<>>, ~silent,
                        Exhausted(Purged(sdu_queue), retx_queue, sn_under_segmentation, tx_window)
                 PROVE  FALSE
      BY <1>2, <1>3, <1>21, <2>2 DEF PollsOrSilent
    <3>1. Len(<<>>) < Window
      BY ConstantFacts
    <3>2. Exhausted(sdu_queue, retx_queue, sn_under_segmentation, tx_window)
      BY <1>1, PurgedExhausts DEF TxInv, QueueOk
    <3> QED
      BY <1>5, <2>2, <3>1, <3>2 DEF sends
  <2> QED
    BY <2>1, <2>2
<1>14. LastPolled'
  BY <1>1, <1>2, <1>3, <1>8, <1>21, QueueGone DEF TxInv, LastPolled
<1>15. TxTypes' /\ ~failed'
  <2>1. poll_timer' \in BOOLEAN /\ reported' \in BOOLEAN
    BY <1>2, <1>4, Zenon DEF Reaches
  <2> QED
    BY <1>1, <1>2, <2>1 DEF TxInv, TxTypes
<1>16. TxInv'
  BY <1>9, <1>10, <1>11, <1>12, <1>13, <1>14, <1>15, <1>21 DEF TxInv
<1>17. /\ passed \in Nat /\ passed' = passed /\ acked' \in Nat /\ acked' <= passed
       /\ (Segmenting' => passed < taken')
  BY <1>1, <1>2, <1>3, <1>4, <1>8 DEF RxInv, RxCounts, rxVars
<1>18. RxInv'
  BY <1>2, <1>8, <1>17, RxKept
<1>19. DataInv'
  BY <1>1, <1>2, <1>8, <1>17, DataKept
<1>20. StatusInv'
  <2>1. \A s \in status' : Fresh(acked' - s.at)
    BY <1>1, <1>2, <1>3 DEF StatusInv, ReportOk
  <2> QED
    BY <1>1, <1>2, <1>8, <1>17, <2>1, StatusKept
<1> QED
  BY <1>16, <1>18, <1>19, <1>20 DEF IInv

-----------------------------------------------------------------------------
(* Status reports.                                                         *)

\* A report whose ACK_SN is in the window is new: it goes beyond TX_Next_Ack.
LEMMA NewReport ==
  ASSUME IInv, NEW s \in status, ValidAckSn(s.ack_sn)
  PROVE  /\ s.at \in Nat /\ acked < s.at /\ s.at <= taken /\ s.ack_sn = SnOf(s.at)
         /\ TxBase(s.ack_sn) = s.at - acked
         /\ ~AckTooHigh(s)
<1>1. TxInv /\ StatusInv
  BY DEF IInv
<1>2. /\ s.at \in Nat /\ s.at <= taken /\ Fresh(acked - s.at) /\ s.ack_sn = SnOf(s.at)
  BY <1>1 DEF StatusInv, ReportOk, Spans
<1>3. /\ taken \in Nat /\ acked \in Nat /\ acked <= taken /\ taken <= acked + Window
      /\ tx_next_ack = SnOf(acked)
  BY <1>1 DEF TxInv, TxCounts, TxWindow
<1>4. acked < s.at
  <2>1. CASE acked = s.at
    <3>1. Base(SnOf(s.at), SnOf(acked)) = s.at - acked
      BY <1>2, <1>3, <2>1, BaseAhead, ConstantFacts
    <3> QED
      BY <1>2, <1>3, <2>1, <3>1 DEF ValidAckSn, TxBase
  <2>2. CASE acked > s.at
    <3>1. acked <= s.at + SnMod /\ acked - s.at < SnMod - Window
      BY <1>2, <1>3, ConstantFacts DEF Fresh
    <3>2. Base(SnOf(s.at), SnOf(acked)) = SnMod - (acked - s.at)
      BY <1>2, <1>3, <2>2, <3>1, BaseBehind
    <3> QED
      BY <1>2, <1>3, <3>1, <3>2, ConstantFacts DEF ValidAckSn, TxBase
  <2> QED
    BY <1>2, <1>3, <2>1, <2>2
<1>5. TxBase(s.ack_sn) = s.at - acked
  <2>1. s.at < acked + SnMod
    BY <1>2, <1>3, ConstantFacts
  <2> QED
    BY <1>2, <1>3, <1>4, <2>1, BaseAhead DEF TxBase
<1>6. TxBase(Plus(tx_next, 1)) >= taken - acked
  <2>1. CASE Segmenting
    <3>1. taken - 1 \in Nat /\ tx_next = SnOf(taken - 1)
      BY <1>1, <2>1, SegmentFacts
    <3>2. Plus(SnOf(taken - 1), 1) = SnOf(taken)
      <4>1. (taken - 1) + 1 = taken /\ 1 \in Int /\ (taken - 1) + 1 \in Nat
        BY <1>3
      <4>2. Plus(SnOf(taken - 1), 1) = SnOf((taken - 1) + 1)
        BY <3>1, <4>1, PlusOf
      <4> QED
        BY <4>1, <4>2
    <3>3. Base(SnOf(taken), SnOf(acked)) = taken - acked
      BY <1>3, BaseAhead, ConstantFacts
    <3> QED
      BY <1>3, <3>1, <3>2, <3>3 DEF TxBase
  <2>2. CASE ~Segmenting
    <3>1. tx_next = SnOf(taken)
      BY <1>1, <2>2 DEF TxInv, TxNext
    <3>2. Plus(SnOf(taken), 1) = SnOf(taken + 1)
      BY <1>3, PlusOf
    <3>3. taken + 1 \in Nat /\ acked <= taken + 1 /\ taken + 1 < acked + SnMod
      BY <1>3, ConstantFacts
    <3>4. Base(SnOf(taken + 1), SnOf(acked)) = taken + 1 - acked
      BY <1>3, <3>3, BaseAhead
    <3> QED
      BY <1>3, <3>1, <3>2, <3>4 DEF TxBase
  <2> QED
    BY <2>1, <2>2
<1>7. ~AckTooHigh(s)
  <2>1. TxBase(Plus(tx_next, 1)) \in Int
    <3>1. tx_next \in Int
      BY <1>1, <1>3, SnType, SegmentFacts DEF TxInv, TxNext
    <3>2. Plus(tx_next, 1) \in Int /\ tx_next_ack \in Int
      BY <1>3, <3>1, SnType, ConstantFacts DEF Plus
    <3> QED
      BY <3>2, BaseType DEF TxBase
  <2> QED
    BY <1>2, <1>3, <1>5, <1>6, <2>1 DEF AckTooHigh
<1> QED
  BY <1>2, <1>4, <1>5, <1>7

\* A NACK inside of what such a report covers is of an SDU in the window.
LEMMA InsideNack ==
  ASSUME IInv, NEW s \in status, ValidAckSn(s.ack_sn), NEW b \in Nat, Spans(s, b, s.at),
         NEW nack \in s.nacks, NackInside(s, nack), NEW i \in b .. s.at - 1,
         nack.sn = SnOf(i)
  PROVE  i \in acked .. taken - 1 /\ TxBase(nack.sn) = i - acked
<1>1. /\ s.at \in Nat /\ acked < s.at /\ s.at <= taken
      /\ taken \in Nat /\ acked \in Nat /\ taken <= acked + Window
      /\ tx_next_ack = SnOf(acked) /\ i \in Nat /\ s.at <= b + Window
  BY NewReport DEF IInv, TxInv, TxCounts, TxWindow, Spans
<1>2. i >= acked
  <2> SUFFICES ASSUME i < acked PROVE FALSE
    BY <1>1
  <2>1. acked <= i + SnMod /\ acked - i < Window
    BY <1>1, ConstantFacts
  <2>2. Base(SnOf(i), SnOf(acked)) = SnMod - (acked - i)
    BY <1>1, <2>1, BaseBehind
  <2> QED
    BY <1>1, <2>1, <2>2, ConstantFacts DEF NackInside, TxBase
<1>3. i < acked + SnMod
  <2>1. i < taken /\ taken <= acked + Window /\ Window < SnMod
    BY <1>1, ConstantFacts
  <2> QED
    BY <1>1, <2>1, ConstantFacts
<1>4. Base(SnOf(i), SnOf(acked)) = i - acked
  BY <1>1, <1>2, <1>3, BaseAhead
<1> QED
  BY <1>1, <1>2, <1>4 DEF TxBase

\* The bytes that a NACK asks for were sent, or it is of the unsent rest.
LEMMA NackBytes ==
  ASSUME TxInv, NEW i \in acked .. taken - 1, NEW nack, NackOk(nack, i)
  PROVE  /\ ~BadSegment(nack)
         /\ ~NackOfUnsent(nack) => Retx(nack) \in Retransmission /\ RetxOf(Retx(nack), i)
<1>1. /\ taken \in Nat /\ acked \in Nat /\ acked <= taken /\ taken <= acked + Window
      /\ DOMAIN tx_window = SnRange(acked, taken)
      /\ i \in Nat /\ i \in 0 .. taken - 1
  BY DEF TxInv, TxCounts, TxWindow
<1>2. /\ Length(i) \in Nat /\ Length(i) > 0 /\ Sent(i) \in Nat /\ Sent(i) > 0
      /\ Sent(i) <= Length(i) /\ (~Segmenting \/ i # taken - 1 => Sent(i) = Length(i))
  BY <1>1, SentFacts DEF TxInv
<1>3. /\ nack.sn = SnOf(i) /\ nack.sn \in Sn /\ nack.from \in Nat
      /\ nack.to \in Nat \cup {EndOfSdu} /\ EndOfSdu = -1
  BY DEF NackOk, Nack, EndOfSdu
<1>4. tx_window[nack.sn].id = i
  BY <1>3 DEF TxInv, TxWindow, SduOk
<1>5. nack.sn = sn_under_segmentation <=> Segmenting /\ i = taken - 1
  <2>1. nack.sn # NoSn
    BY <1>1, <1>3, SnType DEF NoSn
  <2>2. CASE Segmenting
    <3>1. /\ sn_under_segmentation = SnOf(taken - 1) /\ taken - 1 \in acked .. taken - 1
      BY <2>2, SegmentFacts
    <3>2. taken <= acked + SnMod
      BY <1>1, ConstantFacts
    <3>3. SnOf(i) = SnOf(taken - 1) => i = taken - 1
      BY <1>1, <3>1, <3>2, RangeUnique
    <3> QED
      BY <1>3, <2>2, <3>1, <3>3
  <2>3. CASE ~Segmenting
    BY <2>1, <2>3 DEF Segmenting
  <2> QED
    BY <2>2, <2>3
<1>6. Segmenting /\ i = taken - 1 => tx_window[nack.sn].next_so = Sent(i)
  BY <1>3, SegmentFacts
<1> DEFINE last == LastByte(nack)
<1>7. /\ last \in Int /\ last < Sent(i) /\ nack.from < Length(i)
      /\ NackOfUnsent(nack) <=> nack.from > last
  <2>1. CASE nack.to # EndOfSdu
    <3>1. last = nack.to /\ nack.from <= nack.to /\ nack.to < Sent(i) /\ nack.to \in Nat
      BY <1>3, <2>1 DEF LastByte, NackOk
    <3> QED
      BY <1>2, <1>3, <2>1, <3>1 DEF NackOfUnsent
  <2>2. CASE nack.to = EndOfSdu /\ nack.from = 0
    <3>1. last = Length(i) - 1 /\ Sent(i) = Length(i)
      BY <1>3, <1>4, <2>2 DEF LastByte, NackOk
    <3> QED
      BY <1>2, <1>3, <2>2, <3>1 DEF NackOfUnsent
  <2>3. CASE nack.to = EndOfSdu /\ nack.from # 0 /\ ~(Segmenting /\ i = taken - 1)
    <3>1. last = Length(i) - 1 /\ Sent(i) = Length(i) /\ nack.from < Length(i)
      BY <1>2, <1>4, <1>5, <2>3 DEF LastByte, NackOk
    <3> QED
      BY <1>2, <1>3, <1>5, <2>3, <3>1 DEF NackOfUnsent
  <2>4. CASE nack.to = EndOfSdu /\ nack.from # 0 /\ Segmenting /\ i = taken - 1
    <3>1. last = Sent(i) - 1 /\ nack.from < Length(i)
      BY <1>3, <1>5, <1>6, <2>4 DEF LastByte, NackOk
    <3> QED
      BY <1>2, <1>3, <1>5, <1>6, <2>4, <3>1 DEF NackOfUnsent
  <2> QED
    BY <2>1, <2>2, <2>3, <2>4
<1> HIDE DEF last
<1>8. ~BadSegment(nack)
  BY <1>2, <1>3, <1>4, <1>7 DEF BadSegment, last
<1>9. ASSUME ~NackOfUnsent(nack) PROVE Retx(nack) \in Retransmission /\ RetxOf(Retx(nack), i)
  <2>1. nack.from <= last /\ last \in Nat
    BY <1>3, <1>7, <1>9
  <2>2. UpTo(Length(i) - 1, last) = last
    <3>1. Length(i) - 1 \in Nat /\ last <= Length(i) - 1
      BY <1>2, <1>7
    <3>2. ASSUME NEW a \in Nat, NEW b \in Nat, b <= a PROVE UpTo(a, b) = b
      <4>1. UpTo(a, b) \in Nat /\ UpTo(a, b) <= b /\ (UpTo(a, b) = a \/ UpTo(a, b) = b)
        BY UpToFacts
      <4> QED
        BY <3>2, <4>1
    <3> QED
      BY <2>1, <3>1, <3>2
  <2>3. Retx(nack) = [sn |-> SnOf(i), so |-> nack.from, length |-> last - nack.from + 1]
    BY <1>2, <1>3, <1>4, <1>7, <2>1, <2>2 DEF Retx, last
  <2>4. last - nack.from + 1 \in Nat \ {0} /\ nack.from + (last - nack.from + 1) <= Sent(i)
    BY <1>2, <1>3, <1>7, <2>1
  <2> QED
    BY <1>3, <2>3, <2>4 DEF Retransmission, RetxOf
<1> QED
  BY <1>8, <1>9

\* What a report that passes the checks says.
LEMMA ValidFacts ==
  ASSUME IInv, NEW s \in status, Valid(s)
  PROVE  /\ s.at \in Nat /\ acked < s.at /\ s.at <= taken /\ TxBase(s.ack_sn) = s.at - acked
         /\ \E b \in acked .. passed :
              /\ b \in Nat /\ b <= s.at /\ b <= taken /\ (Segmenting => b < taken)
              /\ Spans(s, b, s.at)
              /\ AckStop(s) = SnOf(b) /\ AckedSns(s) = SnRange(acked, b)
              /\ \A nack \in s.nacks : \E i \in b .. s.at - 1 :
                   i \in acked .. taken - 1 /\ NackOk(nack, i)
<1>1. ValidAckSn(s.ack_sn) /\ \A nack \in s.nacks : NackInside(s, nack)
  BY DEF Valid
<1>2. s.at \in Nat /\ acked < s.at /\ s.at <= taken /\ TxBase(s.ack_sn) = s.at - acked
  BY <1>1, NewReport
<1>3. /\ taken \in Nat /\ acked \in Nat /\ taken <= acked + Window
      /\ tx_next_ack = SnOf(acked) /\ DOMAIN tx_window = SnRange(acked, taken)
      /\ passed \in Nat /\ passed <= taken /\ (Segmenting => passed < taken)
  BY RxFacts DEF IInv, TxInv, TxCounts, TxWindow, RxInv, RxCounts
<1>4. PICK b \in 0 .. passed :
        /\ Spans(s, b, s.at)
        /\ \A nack \in s.nacks : \E i \in b .. s.at - 1 : NackOk(nack, i)
  BY DEF IInv, StatusInv, ReportOk
<1>5. b \in Nat /\ b <= passed
  BY <1>3, <1>4
<1>6. \A nack \in s.nacks : \A i \in b .. s.at - 1 :
        nack.sn = SnOf(i) => i \in acked .. taken - 1
  BY <1>1, <1>4, <1>5, InsideNack
<1>7. b >= acked /\ b <= s.at
  <2>1. b <= s.at /\ (s.at > b => \E nack \in s.nacks : nack.sn = SnOf(b))
    BY <1>4 DEF Spans
  <2>2. s.at > b => b \in b .. s.at - 1
    BY <1>2, <1>5
  <2> QED
    BY <1>2, <1>3, <1>5, <1>6, <2>1, <2>2
<1>8. AckStop(s) = SnOf(b)
  BY <1>2, <1>4, <1>5, AckStopFacts
<1>9. AckedSns(s) = SnRange(acked, b)
  <2>1. b <= taken
    BY <1>3, <1>5
  <2> QED
    BY <1>3, <1>5, <1>7, <1>8, <2>1, AckedFacts
<1>10. \A nack \in s.nacks : \E i \in b .. s.at - 1 :
         i \in acked .. taken - 1 /\ NackOk(nack, i)
  BY <1>4, <1>6 DEF NackOk
<1>11. b \in acked .. passed /\ b <= taken /\ (Segmenting => b < taken)
  BY <1>3, <1>5, <1>7
<1> QED
  BY <1>2, <1>4, <1>5, <1>7, <1>8, <1>9, <1>10, <1>11

LEMMA NotAccused ==
  ASSUME IInv, NEW s \in status
  PROVE  ~Accused(s)
<1> SUFFICES ASSUME Accused(s) PROVE FALSE
  OBVIOUS
<1>1. TxInv /\ ValidAckSn(s.ack_sn)
  BY DEF IInv, Accused
<1>2. s.at \in Nat /\ acked < s.at /\ s.at <= taken /\ s.ack_sn = SnOf(s.at) /\ ~AckTooHigh(s)
  BY <1>1, NewReport
<1>3. CASE \E nack \in s.nacks :
             /\ NackTooHigh(nack)
             /\ \A m \in s.nacks : Behind(s, m) >= Behind(s, nack) => NackInside(s, m)
  <2>1. PICK nack \in s.nacks :
          /\ NackTooHigh(nack)
          /\ \A m \in s.nacks : Behind(s, m) >= Behind(s, nack) => NackInside(s, m)
    BY <1>3
  <2>2. PICK b \in 0 .. passed :
          /\ Spans(s, b, s.at)
          /\ \A m \in s.nacks : \E i \in b .. s.at - 1 : NackOk(m, i)
    BY DEF IInv, StatusInv, ReportOk
  <2>3. PICK i \in b .. s.at - 1 : NackOk(nack, i)
    BY <2>2
  <2>4. passed \in Nat
    BY DEF IInv, RxInv, RxCounts
  <2>5. b \in Nat /\ i \in Nat /\ nack.sn = SnOf(i)
    BY <1>2, <2>2, <2>3, <2>4 DEF NackOk
  <2>6. Behind(s, nack) \in Nat
    <3>1. s.ack_sn \in Int /\ nack.sn \in Int
      BY <1>2, <2>5, SnType
    <3> QED
      BY <3>1, BaseType DEF Behind
  <2>7. NackInside(s, nack)
    BY <2>1, <2>6
  <2>8. i \in acked .. taken - 1 /\ TxBase(nack.sn) = i - acked
    BY <1>1, <2>2, <2>3, <2>5, <2>7, InsideNack
  <2>9. /\ taken \in Nat /\ acked \in Nat /\ acked <= taken /\ taken <= acked + Window
        /\ tx_next_ack = SnOf(acked)
    BY <1>1 DEF TxInv, TxCounts, TxWindow
  <2>10. \E t \in {taken - 1, taken} : tx_next = SnOf(t)
    BY <1>1 DEF TxInv, TxNext
  <2>11. PICK t \in {taken - 1, taken} : tx_next = SnOf(t)
    BY <2>10
  <2>12. t \in Nat /\ acked <= t /\ t < acked + SnMod /\ i <= t
    BY <2>8, <2>9, <2>11, ConstantFacts
  <2>13. Base(SnOf(t), SnOf(acked)) = t - acked
    BY <2>9, <2>12, BaseAhead
  <2> QED
    BY <2>1, <2>5, <2>8, <2>9, <2>11, <2>12, <2>13 DEF NackTooHigh, TxBase
<1>4. CASE Valid(s) /\ \E nack \in s.nacks : BadSegment(nack)
  <2>1. PICK b \in acked .. passed : \A nack \in s.nacks : \E i \in b .. s.at - 1 :
          i \in acked .. taken - 1 /\ NackOk(nack, i)
    BY <1>4, ValidFacts
  <2> QED
    BY <1>1, <1>4, <2>1, NackBytes
<1> QED
  BY <1>2, <1>3, <1>4 DEF Accused

\* The window without what a report acknowledges, and without the counts of
\* the retransmissions that it takes out of the queue.
LEMMA KeptWindow ==
  ASSUME TxInv, NEW b \in acked .. taken
  PROVE  LET kept == Rewind(Restrict(tx_window, DOMAIN tx_window \ SnRange(acked, b))) IN
         /\ DOMAIN kept = SnRange(b, taken)
         /\ \A i \in b .. taken - 1 :
              /\ SduOk(kept[SnOf(i)], i)
              /\ kept[SnOf(i)].next_so = tx_window[SnOf(i)].next_so
              /\ kept[SnOf(i)].retx_count >= MaxRetx => reported
<1> DEFINE rest == Restrict(tx_window, DOMAIN tx_window \ SnRange(acked, b))
           kept == Rewind(rest)
<1>1. /\ taken \in Nat /\ acked \in Nat /\ acked <= taken /\ taken <= acked + Window
      /\ DOMAIN tx_window = SnRange(acked, taken)
      /\ \A i \in acked .. taken - 1 : SduOk(tx_window[SnOf(i)], i)
      /\ b \in Nat /\ acked <= b /\ b <= taken /\ taken <= acked + SnMod
  <2>1. /\ taken \in Nat /\ acked \in Nat /\ acked <= taken /\ taken <= acked + Window
        /\ DOMAIN tx_window = SnRange(acked, taken)
        /\ \A i \in acked .. taken - 1 : SduOk(tx_window[SnOf(i)], i)
    BY DEF TxInv, TxCounts, TxWindow
  <2> QED
    BY <2>1, ConstantFacts
<1>2. DOMAIN tx_window \ SnRange(acked, b) = SnRange(b, taken)
  <2>1. ASSUME NEW sn \in SnRange(acked, taken), sn \notin SnRange(acked, b)
        PROVE  sn \in SnRange(b, taken)
    <3>1. PICK i \in acked .. taken - 1 : sn = SnOf(i)
      BY <2>1 DEF SnRange
    <3>2. ~(i < b)
      BY <1>1, <2>1, <3>1 DEF SnRange
    <3> QED
      BY <1>1, <3>1, <3>2 DEF SnRange
  <2>2. ASSUME NEW sn \in SnRange(b, taken)
        PROVE  sn \in SnRange(acked, taken) /\ sn \notin SnRange(acked, b)
    <3>1. PICK i \in b .. taken - 1 : sn = SnOf(i)
      BY <2>2 DEF SnRange
    <3>2. i \in acked .. taken - 1
      BY <1>1, <3>1
    <3>3. \A k \in acked .. b - 1 : SnOf(k) # SnOf(i)
      <4> TAKE k \in acked .. b - 1
      <4>1. k \in Nat /\ i \in Nat /\ k < i /\ i < k + SnMod
        BY <1>1, ConstantFacts
      <4> QED
        BY <4>1, SnDiffer
    <3> QED
      BY <3>1, <3>2, <3>3 DEF SnRange
  <2> QED
    BY <1>1, <2>1, <2>2
<1>3. DOMAIN rest = SnRange(b, taken) /\ \A sn \in SnRange(b, taken) : rest[sn] = tx_window[sn]
  BY <1>2 DEF Restrict
<1>4. Len(retx_queue) \in Nat /\ DOMAIN retx_queue = 1 .. Len(retx_queue)
  <2>1. retx_queue \in Seq(Retransmission)
    BY DEF TxInv, Retransmissions
  <2> QED
    BY <2>1
<1>5. DOMAIN kept = SnRange(b, taken)
  <2> HIDE DEF rest
  <2> QED
    BY <1>3 DEF Rewind
<1>6. \A i \in b .. taken - 1 :
        /\ SduOk(kept[SnOf(i)], i)
        /\ kept[SnOf(i)].next_so = tx_window[SnOf(i)].next_so
        /\ kept[SnOf(i)].retx_count >= MaxRetx => reported
  <2> TAKE i \in b .. taken - 1
  <2>1. i \in acked .. taken - 1 /\ SnOf(i) \in SnRange(b, taken)
    BY <1>1 DEF SnRange
  <2>2. SnOf(i) \in DOMAIN rest /\ rest[SnOf(i)] = tx_window[SnOf(i)]
    BY <1>3, <2>1
  <2>3. rest[SnOf(i)] \in Entry /\ rest[SnOf(i)].id = i
    BY <1>1, <2>1, <2>2 DEF SduOk
  <2> HIDE DEF rest
  <2>4. /\ kept[SnOf(i)] \in Entry
        /\ kept[SnOf(i)].id = rest[SnOf(i)].id
        /\ kept[SnOf(i)].next_so = rest[SnOf(i)].next_so
        /\ \/ kept[SnOf(i)].retx_count <= rest[SnOf(i)].retx_count
           \/ kept[SnOf(i)].retx_count = NotStarted
    BY <1>4, <2>2, <2>3, RewindFacts
  <2>5. kept[SnOf(i)].retx_count >= MaxRetx => reported
    <3>1. /\ kept[SnOf(i)].retx_count \in Int /\ rest[SnOf(i)].retx_count \in Int
          /\ MaxRetx \in Nat /\ MaxRetx > 0 /\ NotStarted = -1
      BY <2>3, <2>4, TxAssumption DEF Entry, NotStarted
    <3>2. rest[SnOf(i)].retx_count >= MaxRetx => reported
      BY <2>1, <2>2 DEF TxInv, Counts
    <3> QED
      BY <2>4, <3>1, <3>2
  <2> QED
    BY <2>2, <2>3, <2>4, <2>5 DEF SduOk
<1> QED
  BY <1>5, <1>6

\* What a report queues: each retransmission is one of its NACKs, and nothing is
\* queued only when it asks for nothing.
LEMMA QueuedFacts ==
  ASSUME NEW s, QueuesRetx(s), \A nack \in Asked(s) : Retx(nack) \in Retransmission
  PROVE  /\ retx_queue' \in Seq(Retransmission)
         /\ \A k \in 1 .. Len(retx_queue') : \E nack \in Asked(s) : retx_queue'[k] = Retx(nack)
         /\ retx_queue' = <<>> => Asked(s) = {}
<1>1. PICK n \in 0 .. Window : \E order \in Ordered(s, n) :
        retx_queue' = [i \in 1 .. n |-> Retx(order[i])]
  BY DEF QueuesRetx
<1>2. PICK order \in Ordered(s, n) : retx_queue' = [i \in 1 .. n |-> Retx(order[i])]
  BY <1>1
<1>3. /\ order \in [1 .. n -> Asked(s)]
      /\ n = Window \/ Asked(s) \subseteq {order[i] : i \in 1 .. n}
  BY <1>2 DEF Ordered
<1>4. n \in Nat
  BY <1>1, ConstantFacts
<1>5. \A i \in 1 .. n : order[i] \in Asked(s) /\ Retx(order[i]) \in Retransmission
  BY <1>3
<1> DEFINE queue == [i \in 1 .. n |-> Retx(order[i])]
<1>6. queue \in Seq(Retransmission) /\ Len(queue) = n
  BY <1>4, <1>5
<1>7. \A i \in 1 .. n : queue[i] = Retx(order[i])
  OBVIOUS
<1> HIDE DEF queue
<1>8. retx_queue' = queue
  BY <1>2 DEF queue
<1>9. queue = <<>> => Asked(s) = {}
  <2> SUFFICES ASSUME queue = <<>> PROVE Asked(s) = {}
    OBVIOUS
  <2>1. n = 0
    BY <1>6
  <2>2. {order[i] : i \in 1 .. n} = {} /\ n # Window
    BY <2>1, ConstantFacts
  <2> QED
    BY <1>3, <2>2
<1> QED
  BY <1>5, <1>6, <1>7, <1>8, <1>9

\* A report leaves the poll timer running, or something to send, or everything
\* is acknowledged, unless a poll is forgotten.
LEMMA ReportPolls ==
  ASSUME IInv, NEW s \in status, Valid(s), NEW b \in acked .. passed,
         b \in Nat, b <= s.at, b <= taken, Spans(s, b, s.at),
         DOMAIN tx_window' = SnRange(b, taken), acked' = b,
         retx_queue' = <<>> => Asked(s) = {},
         poll_timer' = (poll_timer /\ ~(TxBase(poll_sn) < TxBase(s.ack_sn))),
         silent' = (silent \/ Silences(s)),
         Purged(sdu_queue') = Purged(sdu_queue),
         UNCHANGED <<taken, sn_under_segmentation, max_retx_reached>>
  PROVE  PollsOrSilent'
<1> SUFFICES ASSUME b < taken, ~max_retx_reached, retx_queue' = <<>>,
                    Exhausted(Purged(sdu_queue), retx_queue', sn_under_segmentation, tx_window'),
                    ~poll_timer', ~silent'
             PROVE  FALSE
  BY DEF PollsOrSilent
<1>1. /\ taken \in Nat /\ acked \in Nat /\ acked <= taken /\ taken <= acked + Window
      /\ tx_next_ack = SnOf(acked) /\ DOMAIN tx_window = SnRange(acked, taken)
      /\ acked <= b /\ acked < taken
  BY DEF IInv, TxInv, TxCounts, TxWindow
<1>2. s.at \in Nat /\ acked < s.at /\ s.at <= taken /\ TxBase(s.ack_sn) = s.at - acked
  BY ValidFacts
<1>3. ~silent /\ ~Silences(s) /\ Asked(s) = {}
  OBVIOUS
<1>4. SnOf(b) \in DOMAIN tx_window'
  BY <1>1 DEF SnRange
<1>5. retx_queue = <<>>
  BY <1>3, <1>4 DEF Silences
<1>6. WindowFull(tx_window') <=> taken - b >= Window
  <2>1. taken <= b + Window /\ b \in Nat /\ taken \in Nat /\ b <= taken
    BY <1>1, ConstantFacts
  <2> QED
    BY <2>1, WindowFullFacts
<1>7. WindowFull(tx_window) <=> taken - acked >= Window
  BY <1>1, WindowFullFacts
<1>8. Exhausted(Purged(sdu_queue), retx_queue, sn_under_segmentation, tx_window)
  <2>1. taken - b >= Window => taken - acked >= Window
    BY <1>1, ConstantFacts
  <2> QED
    BY <1>5, <1>6, <1>7, <2>1 DEF Exhausted
<1>9. poll_timer
  BY <1>1, <1>3, <1>5, <1>8 DEF IInv, TxInv, PollsOrSilent
<1>10. TxBase(poll_sn) < s.at - acked
  BY <1>2, <1>9
<1>11. CASE WindowFull(tx_window')
  <2>1. b = acked /\ b < taken - 1
    BY <1>1, <1>6, <1>11, ConstantFacts
  <2>2. PICK nack \in s.nacks : nack.sn = SnOf(b)
    BY <1>2, <2>1 DEF Spans
  <2>3. NackOfUnsent(nack)
    BY <1>3 DEF Asked
  <2>4. SnOf(b) = sn_under_segmentation
    BY <2>2, <2>3 DEF NackOfUnsent
  <2>5. Segmenting
    BY <2>4, SnType DEF Segmenting, NoSn
  <2>6. sn_under_segmentation = SnOf(taken - 1)
    BY <2>5 DEF IInv, TxInv, TxNext
  <2>7. b \in Nat /\ taken - 1 \in Nat /\ b < taken - 1 /\ taken - 1 < b + SnMod
    BY <1>1, <2>1, ConstantFacts
  <2> QED
    BY <2>4, <2>6, <2>7, SnDiffer
<1>12. CASE ~WindowFull(tx_window')
  <2>1. sdu_queue = <<>> /\ sn_under_segmentation = NoSn /\ ~Segmenting
    BY <1>3, <1>12 DEF Exhausted, Segmenting, IInv, TxInv, QueueOk, OnlyDiscarded
  <2>2. \A nack \in s.nacks : ~NackOfUnsent(nack)
    <3> TAKE nack \in s.nacks
    <3>1. PICK i \in b .. s.at - 1 : nack.sn = SnOf(i)
      BY DEF Spans
    <3>2. i \in Nat
      BY <1>2
    <3> QED
      BY <2>1, <3>1, <3>2, SnType DEF NackOfUnsent, NoSn
  <2>3. s.nacks = {}
    BY <1>3, <2>2 DEF Asked
  <2>4. s.at = b
    BY <1>2, <2>3 DEF Spans
  <2>5. poll_sn = SnOf(taken - 1)
    BY <1>1, <1>3, <2>1 DEF IInv, TxInv, LastPolled
  <2>6. taken - 1 \in Nat /\ acked <= taken - 1 /\ taken - 1 < acked + SnMod
    BY <1>1, ConstantFacts
  <2>7. TxBase(poll_sn) = taken - 1 - acked
    BY <1>1, <2>5, <2>6, BaseAhead DEF TxBase
  <2> QED
    BY <1>1, <1>10, <2>4, <2>7
<1> QED
  BY <1>11, <1>12

LEMMA ProcessStep ==
  ASSUME IInv, NEW s \in status, Valid(s), ProcessStatus(s), failed' \in BOOLEAN, ~failed',
         UNCHANGED <<segVars, poll_sn, pdu_without_poll, byte_without_poll,
                     max_retx_reached>>
  PROVE  /\ TxInv' /\ Grows /\ Segmenting' = Segmenting
         /\ acked' \in Nat /\ acked <= acked' /\ acked' <= passed /\ acked' <= taken
<1>1. TxInv /\ UNCHANGED <<taken, tx_next, sn_under_segmentation>>
  BY DEF IInv, segVars
<1>2. /\ taken \in Nat /\ acked \in Nat /\ acked <= taken /\ taken <= acked + Window
      /\ tx_next_ack = SnOf(acked) /\ DOMAIN tx_window = SnRange(acked, taken)
      /\ \A i \in acked .. taken - 1 : SduOk(tx_window[SnOf(i)], i)
      /\ reported \in BOOLEAN
  BY <1>1 DEF TxInv, TxCounts, TxWindow, TxTypes
<1>3. PICK b \in acked .. passed :
        /\ b \in Nat /\ b <= s.at /\ b <= taken /\ (Segmenting => b < taken)
        /\ Spans(s, b, s.at)
        /\ AckStop(s) = SnOf(b) /\ AckedSns(s) = SnRange(acked, b)
        /\ \A nack \in s.nacks : \E i \in b .. s.at - 1 :
             i \in acked .. taken - 1 /\ NackOk(nack, i)
  BY ValidFacts
<1>4. acked <= b /\ b <= passed /\ b \in acked .. taken /\ b <= acked + SnMod
  <2>1. passed \in Nat
    BY DEF IInv, RxInv, RxCounts
  <2> QED
    BY <1>2, <1>3, <2>1, ConstantFacts
<1> DEFINE kept == Rewind(Restrict(tx_window, DOMAIN tx_window \ SnRange(acked, b)))
           sns  == Sns(retx_queue')
<1>5. /\ acked' = acked + Cardinality(SnRange(acked, b))
      /\ tx_next_ack' = Plus(tx_next_ack, Cardinality(SnRange(acked, b)))
      /\ poll_timer' = (poll_timer /\ ~(TxBase(poll_sn) < TxBase(s.ack_sn)))
      /\ QueuesRetx(s) /\ retx_sn' = NoSn
      /\ tx_window' = Increment(kept, sns)
      /\ reported' = (reported \/ Reaches(tx_window', sns))
      /\ silent' = (silent \/ Silences(s)) /\ UpdateMacBufferState
  BY <1>3 DEF ProcessStatus
<1>6. acked' = b /\ tx_next_ack' = SnOf(b)
  <2>1. Cardinality(SnRange(acked, b)) = b - acked
    BY <1>2, <1>3, <1>4, RangeSize
  <2>2. b - acked \in Int /\ acked + (b - acked) = b
    BY <1>2, <1>3
  <2>3. Plus(SnOf(acked), b - acked) = SnOf(acked + (b - acked))
    BY <1>2, <1>3, <2>2, PlusOf
  <2> QED
    BY <1>2, <1>5, <2>1, <2>2, <2>3
<1>7. /\ DOMAIN kept = SnRange(b, taken)
      /\ \A i \in b .. taken - 1 :
           /\ SduOk(kept[SnOf(i)], i)
           /\ kept[SnOf(i)].next_so = tx_window[SnOf(i)].next_so
           /\ kept[SnOf(i)].retx_count >= MaxRetx => reported
  BY <1>1, <1>4, KeptWindow
<1> HIDE DEF kept, sns
<1>8. /\ DOMAIN tx_window' = SnRange(b, taken)
      /\ \A i \in b .. taken - 1 :
           /\ SduOk(tx_window'[SnOf(i)], i)
           /\ tx_window'[SnOf(i)].next_so = tx_window[SnOf(i)].next_so
           /\ tx_window'[SnOf(i)].retx_count >= MaxRetx => reported'
  <2> DEFINE w == Increment(kept, sns)
  <2>1. /\ DOMAIN w = SnRange(b, taken)
        /\ \A i \in b .. taken - 1 :
             /\ SduOk(w[SnOf(i)], i)
             /\ w[SnOf(i)].next_so = kept[SnOf(i)].next_so
             /\ w[SnOf(i)].retx_count >= MaxRetx => reported \/ Reaches(w, sns)
    BY <1>2, <1>3, <1>7, IncrementedWindow
  <2>2. tx_window' = w /\ reported' = (reported \/ Reaches(w, sns))
    BY <1>5
  <2> HIDE DEF w
  <2> QED
    BY <1>7, <2>1, <2>2
<1>9. /\ Grows /\ Segmenting' = Segmenting
      /\ \A k \in 0 .. taken - 1 : Sent(k)' = Sent(k)
  <2>1. Segmenting => tx_window'[sn_under_segmentation].next_so
                        = tx_window[sn_under_segmentation].next_so
    <3>1. Segmenting => sn_under_segmentation = SnOf(taken - 1) /\ taken - 1 \in b .. taken - 1
      BY <1>1, <1>2, <1>3 DEF TxInv, TxNext
    <3> QED
      BY <1>8, <3>1
  <2> QED
    BY <1>1, <2>1, SentStill
<1>10. TxCounts' /\ TxWindow'
  <2>1. b <= taken /\ taken <= b + Window
    BY <1>2, <1>3, <1>4, ConstantFacts
  <2> QED
    BY <1>1, <1>3, <1>6, <1>8, <2>1 DEF TxInv, TxCounts, TxWindow
<1>11. TxNext'
  <2>1. CASE Segmenting
    <3>1. taken - 1 \in 0 .. taken - 1 /\ taken' - 1 = taken - 1
      BY <1>1, <2>1, SegmentFacts
    <3>2. PICK j : j = taken - 1 /\ j \in 0 .. taken - 1
      BY <3>1
    <3>3. Sent(j)' = Sent(j) /\ Sent(taken - 1)' = Sent(j)' /\ Sent(taken - 1) = Sent(j)
          /\ Length(taken - 1)' = Length(taken - 1)
      BY <1>1, <1>9, <3>2 DEF Sent, Length
    <3> QED
      BY <1>1, <1>3, <1>6, <1>9, <2>1, <3>3 DEF TxInv, TxNext
  <2>2. CASE ~Segmenting
    BY <1>1, <1>9, <2>2 DEF TxInv, TxNext
  <2> QED
    BY <2>1, <2>2
<1>12. \A nack \in Asked(s) : \E i \in b .. taken - 1 :
         Retx(nack) \in Retransmission /\ RetxOf(Retx(nack), i)
  <2> TAKE nack \in Asked(s)
  <2>1. nack \in s.nacks /\ ~NackOfUnsent(nack)
    BY DEF Asked
  <2>2. PICK i \in b .. s.at - 1 : i \in acked .. taken - 1 /\ NackOk(nack, i)
    BY <1>3, <2>1
  <2>3. Retx(nack) \in Retransmission /\ RetxOf(Retx(nack), i)
    BY <1>1, <2>1, <2>2, NackBytes
  <2>4. i \in b .. taken - 1
    BY <1>2, <1>3, <2>2, ValidFacts
  <2> QED
    BY <2>3, <2>4
<1>13. /\ retx_queue' \in Seq(Retransmission)
       /\ \A k \in 1 .. Len(retx_queue') : \E nack \in Asked(s) : retx_queue'[k] = Retx(nack)
       /\ retx_queue' = <<>> => Asked(s) = {}
  BY <1>5, <1>12, QueuedFacts
<1>14. Retransmissions'
  <2>1. \A i \in b .. taken - 1 : \A x : RetxOf(x, i)' <=> RetxOf(x, i)
    <3>1. \A i \in b .. taken - 1 : i \in 0 .. taken - 1
      BY <1>3
    <3> QED
      BY <1>9, <3>1 DEF RetxOf
  <2>2. \A k \in 1 .. Len(retx_queue') : \E i \in b .. taken - 1 : RetxOf(retx_queue'[k], i)
    BY <1>12, <1>13
  <2> QED
    BY <1>1, <1>6, <1>13, <2>1, <2>2 DEF Retransmissions
<1>15. Counts'
  <2>1. reported => reported'
    BY <1>5
  <2> QED
    BY <1>1, <1>6, <1>8, <2>1 DEF TxInv, Counts
<1>19. QueueOk' /\ Purged(sdu_queue') = Purged(sdu_queue)
  <2>1. sdu_queue' = sdu_queue \/ sdu_queue' = Purged(sdu_queue)
    BY <1>5 DEF UpdateMacBufferState
  <2>2. QueueOk /\ taken \in Nat /\ taken' = taken /\ (silent => silent')
    BY <1>1, <1>5 DEF TxInv, TxCounts
  <2> QED
    BY <2>1, <2>2, QueueDropped
<1>16. PollsOrSilent'
  BY <1>1, <1>3, <1>5, <1>6, <1>8, <1>13, <1>19, ReportPolls
<1>17. LastPolled'
  BY <1>1, <1>5, <1>9, <1>19, QueueGone DEF TxInv, LastPolled
<1>18. TxTypes'
  <2>1. poll_timer' \in BOOLEAN
    BY <1>5, Zenon
  <2>2. reported' \in BOOLEAN
    BY <1>5, Zenon
  <2>3. silent' \in BOOLEAN
    BY <1>5, Zenon
  <2>4. {max_retx_reached', poll_timer', reported', failed', silent'} \subseteq BOOLEAN
    BY <1>1, <2>1, <2>2, <2>3 DEF TxInv, TxTypes
  <2> QED
    BY <1>1, <1>5, <2>4 DEF TxInv, TxTypes
<1> QED
  BY <1>3, <1>4, <1>6, <1>9, <1>10, <1>11, <1>14, <1>15, <1>16, <1>17, <1>18, <1>19 DEF TxInv

LEMMA ReceiveStatusStep ==
  ASSUME IInv, ReceiveStatus
  PROVE  IInv'
<1>1. TxInv /\ DataInv /\ RxInv /\ StatusInv
  BY DEF IInv
<1>2. PICK s \in status :
        /\ HandleStatusPdu(s)
        /\ status' = {r \in status \ {s} : Fresh(acked' - r.at)}
        /\ UNCHANGED rxVars
  BY DEF ReceiveStatus
<1>3. /\ UNCHANGED <<segVars, poll_sn, pdu_without_poll, byte_without_poll,
                     max_retx_reached, data>>
      /\ failed' = (failed \/ Accused(s))
  BY <1>2 DEF HandleStatusPdu
<1>4. failed' \in BOOLEAN /\ ~failed'
  <2>1. failed' \in BOOLEAN
    BY <1>3, Zenon
  <2> QED
    BY <1>1, <1>3, <2>1, NotAccused DEF TxInv
<1>5. UNCHANGED <<taken, tx_next, sn_under_segmentation>>
  BY <1>3 DEF segVars
<1>6. TxInv' /\ Grows /\ Segmenting' = Segmenting /\ acked' \in Nat /\ acked' <= passed
  <2>1. CASE Valid(s)
    <3>1. ProcessStatus(s)
      BY <1>2, <2>1 DEF HandleStatusPdu
    <3> QED
      BY <1>3, <1>4, <2>1, <3>1, ProcessStep
  <2>2. CASE ~Valid(s)
    <3>1. UNCHANGED <<sdu_queue, poll_timer, ackVars, retxVars, tx_window, reported, silent>>
      BY <1>2, <2>2 DEF HandleStatusPdu
    <3>2. /\ Grows /\ Segmenting' = Segmenting
      BY <1>1, <1>5, <3>1, SentStill
    <3>3. Sent(taken - 1)' = Sent(taken - 1)
      BY <1>5, <3>1 DEF Sent, Segmenting
    <3>4. TxCounts' /\ QueueOk' /\ TxWindow' /\ TxNext'
      BY <1>1, <1>5, <3>1, <3>2, <3>3 DEF TxInv, TxCounts, QueueOk, TxWindow, TxNext, ackVars
    <3>5. Retransmissions'
      BY <1>1, <1>5, <3>1, <3>2, RetxKept DEF TxInv, ackVars, retxVars
    <3>6. Counts' /\ PollsOrSilent' /\ LastPolled'
      BY <1>1, <1>3, <1>5, <3>1, <3>2
         DEF TxInv, Counts, PollsOrSilent, LastPolled, ackVars, retxVars
    <3>7. TxTypes'
      <4>1. {max_retx_reached', poll_timer', reported', failed', silent'} \subseteq BOOLEAN
        BY <1>1, <1>3, <1>4, <3>1 DEF TxInv, TxTypes
      <4> QED
        BY <1>1, <1>3, <3>1, <4>1 DEF TxInv, TxTypes, retxVars
    <3>8. acked' \in Nat /\ acked' <= passed
      BY <1>1, <3>1 DEF TxInv, TxCounts, RxInv, RxCounts, ackVars
    <3> QED
      BY <1>4, <3>2, <3>4, <3>5, <3>6, <3>7, <3>8 DEF TxInv
  <2> QED
    BY <2>1, <2>2
<1>7. passed \in Nat /\ passed' = passed /\ (Segmenting' => passed < taken')
  BY <1>1, <1>2, <1>5, <1>6 DEF RxInv, RxCounts, rxVars
<1>8. RxInv'
  BY <1>2, <1>6, <1>7, RxKept
<1>9. DataInv'
  BY <1>1, <1>3, <1>6, <1>7, DataKept
<1>10. StatusInv'
  BY <1>1, <1>2, <1>6, <1>7, StatusKept
<1> QED
  BY <1>6, <1>8, <1>9, <1>10 DEF IInv

-----------------------------------------------------------------------------
(* Steps of the receiving entity leave the transmitting one as it is.      *)

LEMMA TxKept ==
  ASSUME IInv, UNCHANGED txVars, NEW p \in Nat, passed' = p, passed <= p
  PROVE  /\ TxInv' /\ Segmenting' = Segmenting /\ \A i : Sent(i)' = Sent(i)
         /\ \A m \in data : Fresh(passed' - 1 - m.id) => PduOk(m)'
         /\ \A s \in status : ReportOk(s)'
<1>1. TxInv /\ DataInv /\ StatusInv /\ passed \in Nat
  BY DEF IInv, RxInv, RxCounts
<1>2. /\ UNCHANGED <<pollVars, segVars, retxVars, ackVars, upVars>>
      /\ UNCHANGED <<tx_window, max_retx_reached, silent>>
      /\ UNCHANGED <<poll_sn, pdu_without_poll, byte_without_poll, poll_timer>>
      /\ UNCHANGED <<sdu_queue, tx_next, sn_under_segmentation, taken>>
      /\ UNCHANGED <<retx_queue, retx_sn, tx_next_ack, acked, reported, failed>>
  BY DEF txVars, pollVars, segVars, retxVars, ackVars, upVars
<1>3. Segmenting' = Segmenting
  BY <1>2 DEF Segmenting
<1>4. \A i : Sent(i)' = Sent(i)
  BY <1>2, <1>3 DEF Sent
<1>5. Sent(taken - 1)' = Sent(taken - 1)
  BY <1>2, <1>3 DEF Sent
<1>6. TxCounts' /\ QueueOk' /\ TxWindow' /\ TxNext'
  BY <1>1, <1>2, <1>3, <1>5 DEF TxInv, TxCounts, QueueOk, TxWindow, TxNext
<1>7. Retransmissions'
  BY <1>1, <1>2, <1>4 DEF TxInv, Retransmissions, RetxOf
<1>8. Counts' /\ PollsOrSilent' /\ LastPolled'
  BY <1>1, <1>2, <1>3 DEF TxInv, Counts, PollsOrSilent, LastPolled
<1>9. TxTypes' /\ ~failed'
  BY <1>1, <1>2 DEF TxInv, TxTypes
<1>10. \A m \in data : Fresh(passed' - 1 - m.id) => PduOk(m)'
  BY <1>1, <1>2, <1>4 DEF DataInv, PduOk
<1>11. ASSUME NEW s \in status
       PROVE  ReportOk(s)'
  <2>1. ReportOk(s)
    BY <1>1 DEF StatusInv
  <2>2. PICK b \in 0 .. passed :
          /\ Spans(s, b, s.at)
          /\ \A nack \in s.nacks : \E i \in b .. s.at - 1 : NackOk(nack, i)
    BY <2>1 DEF ReportOk
  <2>3. b \in 0 .. p
    BY <1>1, <2>2
  <2>4. \A nack, i : NackOk(nack, i)' <=> NackOk(nack, i)
    BY <1>4 DEF NackOk
  <2>5. /\ s.at \in Nat /\ s.at <= taken' /\ Fresh(acked' - s.at)
    BY <1>2, <2>1 DEF ReportOk
  <2>6. \A nack \in s.nacks : \E i \in b .. s.at - 1 : NackOk(nack, i)'
    BY <2>2, <2>4
  <2> QED
    BY <2>2, <2>3, <2>5, <2>6 DEF ReportOk
<1> QED
  BY <1>3, <1>4, <1>6, <1>7, <1>8, <1>9, <1>10, <1>11 DEF TxInv

LEMMA SnSame ==
  ASSUME NEW a \in Nat, NEW i \in a .. a + Window, NEW j \in a .. a + Window,
         SnOf(i) = SnOf(j)
  PROVE  i = j
<1>1. PICK b \in Nat : b = a + Window + 1
  BY ConstantFacts
<1>2. b <= a + SnMod /\ i \in a .. b - 1 /\ j \in a .. b - 1
  BY <1>1, ConstantFacts
<1> QED
  BY <1>2, RangeUnique

\* A PDU whose SN is inside the window is of one of its SDUs: none is so late
\* that its SN means another one.
LEMMA PduInside ==
  ASSUME IInv, NEW pdu \in data, Inside(pdu.sn, rx_next)
  PROVE  /\ pdu.id \in SduIds /\ pdu.id \in Nat /\ passed <= pdu.id /\ pdu.id < taken
         /\ pdu.id < passed + Window
         /\ pdu.sn = SnOf(pdu.id) /\ Base(pdu.sn, rx_next) = pdu.id - passed
         /\ pdu.from \in Nat /\ pdu.to \in Nat /\ pdu.from <= pdu.to
         /\ pdu.to < Sent(pdu.id) /\ Sent(pdu.id) \in Nat /\ Sent(pdu.id) <= Length(pdu.id)
         /\ Length(pdu.id) \in Nat
<1>1. PduOk(pdu) /\ TxInv /\ RxInv
  BY DEF IInv, DataInv
<1>2. /\ pdu.id \in SduIds /\ pdu.from \in Nat /\ pdu.to \in Nat /\ pdu.id < taken
      /\ pdu.sn = SnOf(pdu.id) /\ pdu.from <= pdu.to /\ pdu.to < Sent(pdu.id)
      /\ passed - 1 - pdu.id < SnMod - Window
  BY <1>1 DEF PduOk, Pdu, Fresh
<1>3. /\ taken \in Nat /\ acked \in Nat /\ taken <= acked + Window
      /\ passed \in Nat /\ acked <= passed /\ rx_next = SnOf(passed)
      /\ pdu.id \in Nat
  BY <1>1, <1>2 DEF TxInv, TxCounts, RxInv, RxCounts, SduIds
<1>4. passed <= pdu.id
  <2> SUFFICES ASSUME pdu.id < passed PROVE FALSE
    BY <1>3
  <2>1. passed <= pdu.id + SnMod
    BY <1>2, <1>3, ConstantFacts
  <2>2. Base(SnOf(pdu.id), SnOf(passed)) = SnMod - (passed - pdu.id)
    BY <1>3, <2>1, BaseBehind
  <2>3. SnMod - (passed - pdu.id) < Window
    BY <1>2, <1>3, <2>2 DEF Inside
  <2> QED
    BY <1>2, <1>3, <2>3, ConstantFacts
<1>5. pdu.id < passed + Window /\ pdu.id < passed + SnMod
  BY <1>2, <1>3, ConstantFacts
<1>6. Base(pdu.sn, rx_next) = pdu.id - passed
  BY <1>2, <1>3, <1>4, <1>5, BaseAhead
<1>7. pdu.id \in 0 .. taken - 1
  BY <1>2, <1>3
<1>8. Sent(pdu.id) \in Nat /\ Sent(pdu.id) <= Length(pdu.id) /\ Length(pdu.id) \in Nat
  BY <1>1, <1>7, SentFacts DEF TxInv
<1> QED
  BY <1>2, <1>3, <1>4, <1>5, <1>6, <1>8

\* What storing a PDU leaves in the window.
LEMMA PlaceFacts ==
  ASSUME IInv, NEW pdu \in data, Inside(pdu.sn, rx_next),
         NEW h, h = IF pdu.id >= High THEN pdu.id + 1 ELSE High
  PROVE  /\ h \in Nat /\ High <= h /\ pdu.id < h /\ h <= taken /\ h <= passed + Window
         /\ h = High \/ h = pdu.id + 1
         /\ (pdu.id >= High <=> Base(pdu.sn, rx_next) >= Base(rx_next_highest, rx_next))
         /\ DOMAIN Store(pdu) = DOMAIN rx_window \cup {pdu.sn}
         /\ Store(pdu) = [sn \in DOMAIN Store(pdu) |-> Store(pdu)[sn]]
         /\ WindowOk(Store(pdu), passed, h)
         /\ \A j \in passed .. h - 1 : SnOf(j) \in DOMAIN Store(pdu) =>
              Store(pdu)[SnOf(j)].got \subseteq {j} \X (0 .. Sent(j) - 1)
         /\ \A j \in passed .. passed + Window : j # pdu.id =>
              /\ SnOf(j) # pdu.sn
              /\ FullyReceived(Store(pdu), SnOf(j)) <=> FullyReceived(rx_window, SnOf(j))
         /\ \A j \in passed .. passed + Window : SnOf(j) \in DOMAIN rx_window => j < High
         /\ SnOf(h - 1) \in DOMAIN Store(pdu)
         /\ pdu.sn \in DOMAIN rx_window => EntryOk(rx_window[pdu.sn], pdu.id)
<1>1. TxInv /\ RxInv
  BY DEF IInv
<1>2. /\ pdu.id \in SduIds /\ pdu.id \in Nat /\ passed <= pdu.id /\ pdu.id < taken
      /\ pdu.id < passed + Window
      /\ pdu.sn = SnOf(pdu.id) /\ Base(pdu.sn, rx_next) = pdu.id - passed
      /\ pdu.from \in Nat /\ pdu.to \in Nat /\ pdu.from <= pdu.to
      /\ pdu.to < Sent(pdu.id) /\ Sent(pdu.id) \in Nat /\ Sent(pdu.id) <= Length(pdu.id)
      /\ Length(pdu.id) \in Nat
  BY PduInside
<1>3. /\ High \in Nat /\ High <= taken /\ High <= passed + Window /\ passed <= High
      /\ passed \in Nat /\ taken \in Nat /\ rx_next_highest = SnOf(High)
      /\ rx_next = SnOf(passed)
  BY <1>1, RxFacts DEF TxInv, RxInv, RxCounts, TxCounts
<1>4. /\ h \in Nat /\ High <= h /\ pdu.id < h /\ h <= taken /\ h <= passed + Window
      /\ h = High \/ h = pdu.id + 1
  <2>0. Window \in Nat
    BY ConstantFacts
  <2>1. CASE pdu.id >= High
    <3>1. h = pdu.id + 1
      BY <2>1
    <3> QED
      BY ONLY <1>2, <1>3, <2>0, <2>1, <3>1
  <2>2. CASE ~(pdu.id >= High)
    <3>1. h = High
      BY <2>2
    <3> QED
      BY ONLY <1>2, <1>3, <2>0, <2>2, <3>1
  <2> QED
    BY <2>1, <2>2
<1>5. pdu.id >= High <=> Base(pdu.sn, rx_next) >= Base(rx_next_highest, rx_next)
  <2>1. Base(rx_next_highest, rx_next) = High - passed
    BY <1>3, BaseAhead, ConstantFacts
  <2> QED
    BY <1>2, <1>3, <2>1
<1>6. WindowOk(rx_window, passed, High) /\ rx_window = [sn \in DOMAIN rx_window |-> rx_window[sn]]
  BY <1>1 DEF RxInv, RxWindow
<1>7. \A j \in passed .. passed + Window : SnOf(j) \in DOMAIN rx_window => j < High
  <2> SUFFICES ASSUME NEW j \in passed .. passed + Window, SnOf(j) \in DOMAIN rx_window
               PROVE  j < High
    OBVIOUS
  <2>1. PICK k \in passed .. High - 1 : SnOf(j) = SnOf(k)
    BY <1>6 DEF WindowOk, SnRange
  <2>2. k \in passed .. passed + Window
    BY <1>3, ConstantFacts
  <2>3. k = j
    BY <1>3, <2>1, <2>2, SnSame
  <2> QED
    BY <1>3, <2>3
<1>8. pdu.sn \in DOMAIN rx_window => EntryOk(rx_window[pdu.sn], pdu.id) /\ pdu.id < High
  <2>1. pdu.id \in passed .. passed + Window
    BY <1>2, <1>3, ConstantFacts
  <2>2. pdu.sn \in DOMAIN rx_window => pdu.id < High
    BY <1>2, <1>7, <2>1
  <2> QED
    BY <1>2, <1>3, <1>6, <2>2 DEF WindowOk
<1>9. /\ DOMAIN Store(pdu) = DOMAIN rx_window \cup {pdu.sn}
      /\ \A sn \in DOMAIN rx_window : sn # pdu.sn => Store(pdu)[sn] = rx_window[sn]
      /\ EntryOk(Store(pdu)[pdu.sn], pdu.id)
      /\ Store(pdu)[pdu.sn].got = Stored(pdu.sn) \cup Bytes(pdu)
  <2>1. pdu.to < Length(pdu.id)
    BY <1>2
  <2> QED
    BY <1>2, <1>8, <2>1, StoreFacts
<1>10. Store(pdu) = [sn \in DOMAIN Store(pdu) |-> Store(pdu)[sn]]
  BY DEF Store, Put
<1>11. \A j \in passed .. passed + Window : j # pdu.id => SnOf(j) # pdu.sn
  <2>1. pdu.id \in passed .. passed + Window
    BY <1>2, <1>3, ConstantFacts
  <2> QED
    BY <1>2, <1>3, <2>1, SnSame
<1>12. \A j \in passed .. passed + Window : j # pdu.id =>
         (FullyReceived(Store(pdu), SnOf(j)) <=> FullyReceived(rx_window, SnOf(j)))
  <2> SUFFICES ASSUME NEW j \in passed .. passed + Window, j # pdu.id
               PROVE  FullyReceived(Store(pdu), SnOf(j)) <=> FullyReceived(rx_window, SnOf(j))
    OBVIOUS
  <2>1. SnOf(j) \in DOMAIN Store(pdu) <=> SnOf(j) \in DOMAIN rx_window
    BY <1>9, <1>11
  <2>2. SnOf(j) \in DOMAIN rx_window => Store(pdu)[SnOf(j)] = rx_window[SnOf(j)]
    BY <1>9, <1>11
  <2> QED
    BY <2>1, <2>2 DEF FullyReceived
<1>13. DOMAIN Store(pdu) \subseteq SnRange(passed, h)
  <2>1. \A j \in passed .. High - 1 : j \in passed .. h - 1
    BY <1>3, <1>4
  <2>2. pdu.id \in passed .. h - 1
    BY <1>2, <1>3, <1>4
  <2> QED
    BY <1>2, <1>6, <1>9, <2>1, <2>2 DEF WindowOk, SnRange
<1>14. \A j \in passed .. h - 1 : SnOf(j) \in DOMAIN Store(pdu) =>
         /\ EntryOk(Store(pdu)[SnOf(j)], j)
         /\ Store(pdu)[SnOf(j)].got \subseteq {j} \X (0 .. Sent(j) - 1)
  <2> SUFFICES ASSUME NEW j \in passed .. h - 1, SnOf(j) \in DOMAIN Store(pdu)
               PROVE  /\ EntryOk(Store(pdu)[SnOf(j)], j)
                      /\ Store(pdu)[SnOf(j)].got \subseteq {j} \X (0 .. Sent(j) - 1)
    OBVIOUS
  <2>1. CASE j = pdu.id
    <3>1. Bytes(pdu) \subseteq {pdu.id} \X (0 .. Sent(pdu.id) - 1)
      BY <1>2 DEF Bytes
    <3>2. Stored(pdu.sn) \subseteq {pdu.id} \X (0 .. Sent(pdu.id) - 1)
      <4>1. CASE pdu.sn \in DOMAIN rx_window
        <5>1. pdu.id \in passed .. High - 1
          BY <1>2, <1>3, <1>8, <4>1
        <5> QED
          BY <1>1, <1>2, <4>1, <5>1 DEF RxInv, RxWindow, Stored
      <4> QED
        BY <4>1 DEF Stored
    <3> QED
      BY <1>2, <1>9, <2>1, <3>1, <3>2
  <2>2. CASE j # pdu.id
    <3>1. j \in passed .. passed + Window
      BY <1>3, <1>4, ConstantFacts
    <3>2. SnOf(j) # pdu.sn
      BY <1>11, <2>2, <3>1
    <3>3. SnOf(j) \in DOMAIN rx_window /\ Store(pdu)[SnOf(j)] = rx_window[SnOf(j)]
      BY <1>9, <3>2
    <3>4. j \in passed .. High - 1
      BY <1>3, <1>7, <3>1, <3>3
    <3> QED
      BY <1>1, <1>6, <3>3, <3>4 DEF RxInv, RxWindow, WindowOk
  <2> QED
    BY <2>1, <2>2
<1>15. SnOf(h - 1) \in DOMAIN Store(pdu)
  <2>1. CASE h = High
    <3>1. High > passed
      BY <1>2, <1>3, <1>4, <2>1
    <3>2. SnOf(High - 1) \in DOMAIN rx_window
      BY <1>1, <3>1 DEF RxInv, RxWindow
    <3> QED
      BY <1>9, <2>1, <3>2
  <2>2. CASE h = pdu.id + 1
    <3>1. h - 1 = pdu.id
      BY <1>2, <2>2
    <3> QED
      BY <1>2, <1>9, <3>1
  <2> QED
    BY <1>4, <2>1, <2>2
<1>16. WindowOk(Store(pdu), passed, h)
  BY <1>13, <1>14 DEF WindowOk
<1> QED
  BY <1>4, <1>5, <1>7, <1>8, <1>9, <1>10, <1>11, <1>12, <1>14, <1>15, <1>16

\* UpdateReassembly keeps a trigger that is still ahead of RX_Next, and starts
\* the timer when something is missing that no report has.
LEMMA ReassemblyStep ==
  ASSUME IInv, UpdateReassembly,
         NEW p \in Nat, NEW s \in Nat, NEW h \in Nat,
         p <= s, s <= h, h <= p + Window, High <= h, passed <= p, p <= passed + Window,
         passed' = p, rx_next' = SnOf(p), rx_highest_status' = SnOf(s),
         rx_next_highest' = SnOf(h),
         h > p => SnOf(h - 1) \in DOMAIN rx_window',
         \A t \in p + 1 .. h : SnOf(t - 1) \in DOMAIN rx_window =>
           SnOf(t - 1) \in DOMAIN rx_window'
  PROVE  /\ Timer' /\ GapIsTimed'
         /\ rx_next_status_trigger' \in Sn /\ reassembly_timer' \in BOOLEAN
<1>1. RxInv /\ TxInv /\ passed \in Nat
  BY DEF IInv, RxInv, RxCounts
<1>2. High' = h
  <2>1. Base(SnOf(h), SnOf(p)) = h - p
    BY BaseAhead, ConstantFacts
  <2> QED
    BY <2>1 DEF High
<1>3. \A t \in p .. p + Window :
        rx_next_status_trigger' = SnOf(t) => Trigger' = t
  <2> SUFFICES ASSUME NEW t \in p .. p + Window, rx_next_status_trigger' = SnOf(t)
               PROVE  Trigger' = t
    OBVIOUS
  <2>1. t \in Nat /\ p <= t /\ t < p + SnMod
    BY ConstantFacts
  <2>2. Base(SnOf(t), SnOf(p)) = t - p
    BY <2>1, BaseAhead
  <2> QED
    BY <2>1, <2>2 DEF Trigger
<1>4. Base(SnOf(h), SnOf(p)) = h - p /\ Base(SnOf(s), SnOf(p)) = s - p
  BY BaseAhead, ConstantFacts
<1>5. Plus(SnOf(p), 1) = SnOf(p + 1) /\ Base(SnOf(p + 1), SnOf(p)) = 1
  <2>1. Plus(SnOf(p), 1) = SnOf(p + 1)
    BY PlusOf
  <2>2. Base(SnOf(p + 1), SnOf(p)) = p + 1 - p
    BY BaseAhead, ConstantFacts
  <2> QED
    BY <2>1, <2>2
<1>6. CASE reassembly_timer /\ ~StopsReassembly
  <2>1. /\ reassembly_timer' = reassembly_timer
        /\ rx_next_status_trigger' = rx_next_status_trigger
    BY <1>6 DEF UpdateReassembly
  <2>2. /\ passed < Trigger /\ Trigger <= High /\ SnOf(Trigger - 1) \in DOMAIN rx_window
        /\ Trigger \in Nat /\ rx_next_status_trigger = SnOf(Trigger)
        /\ High \in Nat /\ High <= passed + Window
    BY <1>1, <1>6, RxFacts DEF RxInv, TxInv, Timer
  <2>3. Trigger > p
    <3>1. Trigger # p
      BY <1>6, <2>2 DEF StopsReassembly
    <3>2. CASE Trigger < p
      <4>1. p <= Trigger + SnMod
        BY <1>1, <2>2, ConstantFacts
      <4>2. Base(SnOf(Trigger), SnOf(p)) = SnMod - (p - Trigger)
        BY <2>2, <3>2, <4>1, BaseBehind
      <4>3. SnMod - (p - Trigger) < Window
        BY <1>6, <2>2, <4>2 DEF StopsReassembly, Inside
      <4>4. \A n \in Nat : n < p /\ passed < n => SnMod - (p - n) >= Window
        BY <1>1, ConstantFacts
      <4> QED
        BY <2>2, <3>2, <4>3, <4>4, ConstantFacts
    <3> QED
      BY <2>2, <3>1, <3>2
  <2>4. PICK t \in Nat : t = Trigger
    BY <2>2
  <2>5. t \in p + 1 .. h /\ t \in p .. p + Window
    <3>1. p < t /\ t <= High /\ High \in Nat
      BY <2>2, <2>3, <2>4
    <3>2. t <= h /\ t <= p + Window
      BY <3>1, ConstantFacts
    <3> QED
      BY <3>1, <3>2, ConstantFacts
  <2>6. Trigger' = t
    BY <1>3, <2>1, <2>2, <2>4, <2>5
  <2>7. SnOf(t - 1) \in DOMAIN rx_window'
    BY <2>2, <2>4, <2>5
  <2>8. (SnOf(Trigger - 1) \in DOMAIN rx_window)'
    BY <2>6, <2>7 DEF SnOf
  <2>9. p < t /\ t <= h
    BY <2>5
  <2> QED
    BY <1>1, <1>2, <1>6, <2>1, <2>6, <2>8, <2>9 DEF Timer, GapIsTimed, RxInv, RxTypes
<1>7. CASE ~(reassembly_timer /\ ~StopsReassembly)
  <2>1. /\ reassembly_timer' = Awaits(rx_next')
        /\ rx_next_status_trigger' = IF Awaits(rx_next') THEN rx_next_highest'
                                     ELSE rx_next_status_trigger
    BY <1>7 DEF UpdateReassembly
  <2>2. Awaits(rx_next') <=> \/ h - p > 1
                             \/ SnOf(h) = SnOf(p + 1) /\ HasGap(rx_window', SnOf(p))
    BY <1>4, <1>5 DEF Awaits
  <2>3. reassembly_timer' \in BOOLEAN
    <3>1. Awaits(rx_next') \in BOOLEAN
      BY Zenon DEF Awaits
    <3> QED
      BY <2>1, <3>1
  <2>4. CASE Awaits(rx_next')
    <3>1. h > p
      <4>1. h # p
        <5> SUFFICES ASSUME h = p PROVE FALSE
          OBVIOUS
        <5>1. SnOf(p) = SnOf(p + 1)
          BY <2>2, <2>4
        <5> QED
          BY <5>1, SnDiffer, ConstantFacts
      <4> QED
        BY <4>1
    <3>2. Trigger' = h
      BY <1>3, <2>1, <2>4
    <3>3. (SnOf(Trigger - 1) \in DOMAIN rx_window)'
      BY <3>1, <3>2 DEF SnOf
    <3>4. reassembly_timer'
      BY <2>1, <2>4
    <3> QED
      BY <1>2, <2>1, <2>3, <2>4, <3>1, <3>2, <3>3, <3>4, SnType DEF Timer, GapIsTimed
  <2>5. CASE ~Awaits(rx_next')
    <3>1. h - p <= 1 /\ h - p <= s - p + 1
      BY <2>2, <2>5
    <3>2. SnOf(h) # SnOf(s) => ~HasGap(rx_window', SnOf(s))
      <4> SUFFICES ASSUME SnOf(h) # SnOf(s) PROVE ~HasGap(rx_window', SnOf(s))
        OBVIOUS
      <4>1. s = p /\ h = p + 1
        BY <3>1
      <4> QED
        BY <2>2, <2>5, <4>1
    <3>3. GapIsTimed'
      BY <1>4, <3>1, <3>2 DEF GapIsTimed
    <3>4. ~reassembly_timer' /\ rx_next_status_trigger' = rx_next_status_trigger
      BY <2>1, <2>5
    <3> QED
      BY <1>1, <2>3, <3>3, <3>4 DEF Timer, RxInv, RxTypes
  <2> QED
    BY <2>4, <2>5
<1> QED
  BY <1>6, <1>7

\* Where a PDU that is not dropped leaves the receiver: RX_Next at SDU p, past
\* complete SDUs only, and RX_Highest_Status at SDU s.
Placed(pdu, p, s, h) ==
  /\ passed <= p /\ p <= s /\ s <= h
  /\ rx_next' = SnOf(p) /\ rx_highest_status' = SnOf(s) /\ rx_next_highest' = SnOf(h)
  /\ passed' = p
  /\ \A j \in passed .. p - 1 : FullyReceived(Store(pdu), SnOf(j))
  /\ ~FullyReceived(Store(pdu), SnOf(p)) /\ ~FullyReceived(Store(pdu), SnOf(s))
  /\ rx_window' = [sn \in DOMAIN rx_window' |-> rx_window'[sn]]
  /\ \A sn \in DOMAIN rx_window' : sn \in DOMAIN Store(pdu) /\ rx_window'[sn] = Store(pdu)[sn]
  /\ \A j \in passed .. h - 1 :
       SnOf(j) \in DOMAIN rx_window' <=> p <= j /\ SnOf(j) \in DOMAIN Store(pdu)
  /\ \A x : x \in DOMAIN delivered' \cup lost' <=>
       \/ x \in DOMAIN delivered \cup lost
       \/ FullyReceived(Store(pdu), pdu.sn) /\ x = Store(pdu)[pdu.sn].got

LEMMA PlacedStep ==
  ASSUME IInv, NEW pdu \in data, PlaceDataPdu(pdu),
         NEW h, h = IF pdu.id >= High THEN pdu.id + 1 ELSE High
  PROVE  \E p \in Nat, s \in Nat : Placed(pdu, p, s, h)
<1>1. TxInv /\ RxInv
  BY DEF IInv
<1>2. /\ Inside(pdu.sn, rx_next) /\ ~FullyReceived(rx_window, pdu.sn)
      /\ rx_next_highest' =
           IF Base(pdu.sn, rx_next) >= Base(rx_next_highest, rx_next)
             THEN Plus(pdu.sn, 1) ELSE rx_next_highest
  BY DEF PlaceDataPdu
<1>3. /\ pdu.id \in SduIds /\ pdu.id \in Nat /\ passed <= pdu.id
      /\ pdu.id < passed + Window /\ pdu.sn = SnOf(pdu.id)
  BY <1>2, PduInside
<1>4. /\ High \in Nat /\ Status \in Nat /\ passed \in Nat /\ passed <= Status /\ Status <= High
      /\ rx_next_highest = SnOf(High) /\ rx_highest_status = SnOf(Status)
      /\ rx_next = SnOf(passed) /\ Status <= passed + Window
  BY <1>1, RxFacts DEF TxInv, RxInv, RxCounts
<1>5. /\ h \in Nat /\ High <= h /\ pdu.id < h /\ h <= passed + Window
      /\ h = High \/ h = pdu.id + 1
      /\ (pdu.id >= High <=> Base(pdu.sn, rx_next) >= Base(rx_next_highest, rx_next))
      /\ Store(pdu) = [sn \in DOMAIN Store(pdu) |-> Store(pdu)[sn]]
      /\ WindowOk(Store(pdu), passed, h)
      /\ \A j \in passed .. passed + Window : j # pdu.id =>
           /\ SnOf(j) # pdu.sn
           /\ FullyReceived(Store(pdu), SnOf(j)) <=> FullyReceived(rx_window, SnOf(j))
  BY <1>2, PlaceFacts
<1>6. rx_next_highest' = SnOf(h)
  <2>1. Plus(SnOf(pdu.id), 1) = SnOf(pdu.id + 1)
    BY <1>3, PlusOf
  <2> QED
    BY <1>2, <1>3, <1>4, <1>5, <2>1
<1>7. ~FullyReceived(rx_window, SnOf(passed)) /\ ~FullyReceived(rx_window, SnOf(Status))
  BY <1>1, <1>4 DEF RxInv, Stands
<1>8. ~FullyReceived(Store(pdu), SnOf(h))
  <2>1. \A j \in passed .. h - 1 : SnOf(h) # SnOf(j)
    <3> TAKE j \in passed .. h - 1
    <3>1. j \in Nat /\ j < h /\ h < j + SnMod
      BY <1>4, <1>5, ConstantFacts
    <3> QED
      BY <1>5, <3>1, SnDiffer
  <2> QED
    BY <1>5, <2>1 DEF WindowOk, SnRange, FullyReceived
<1>9. CASE ~FullyReceived(Store(pdu), pdu.sn)
  <2>1. /\ rx_window' = Store(pdu)
        /\ UNCHANGED <<rx_next, rx_highest_status, delivered, lost, passed>>
    BY <1>9 DEF PlaceDataPdu
  <2>2. \A j \in passed .. passed + Window :
          FullyReceived(Store(pdu), SnOf(j)) => FullyReceived(rx_window, SnOf(j))
    BY <1>3, <1>5, <1>9
  <2>3. passed \in passed .. passed + Window /\ Status \in passed .. passed + Window
    BY <1>4, ConstantFacts
  <2>4. ~FullyReceived(Store(pdu), SnOf(passed)) /\ ~FullyReceived(Store(pdu), SnOf(Status))
    BY <1>7, <2>2, <2>3
  <2>5. Status <= h /\ passed .. passed - 1 = {} /\ \A j \in passed .. h - 1 : passed <= j
    BY <1>4, <1>5
  <2>6. Placed(pdu, passed, Status, h)
    BY <1>4, <1>5, <1>6, <1>9, <2>1, <2>4, <2>5 DEF Placed
  <2> QED
    BY <1>4, <2>6
<1>10. CASE FullyReceived(Store(pdu), pdu.sn)
  <2>1. ReassembleSdu(pdu.id, Store(pdu)[pdu.sn].got) /\ Advance(Store(pdu), pdu.sn)
    BY <1>10 DEF PlaceDataPdu
  <2>2. \A x : x \in DOMAIN delivered' \cup lost' <=>
                 x \in DOMAIN delivered \cup lost \/ x = Store(pdu)[pdu.sn].got
    <3> DEFINE got == Store(pdu)[pdu.sn].got
    <3> HIDE DEF got
    <3>1. \/ delivered' = delivered (+) SetToBag({got}) /\ lost' = lost
          \/ lost' = lost \cup {got} /\ delivered' = delivered
      BY <2>1 DEF got, ReassembleSdu
    <3>2. CASE delivered' = delivered (+) SetToBag({got}) /\ lost' = lost
      <4>1. DOMAIN delivered' = DOMAIN delivered \cup {got}
        BY <3>2 DEF (+), SetToBag
      <4> QED
        BY <3>2, <4>1 DEF got
    <3>3. CASE lost' = lost \cup {got} /\ delivered' = delivered
      BY <3>3 DEF got
    <3> QED
      BY <3>1, <3>2, <3>3
  <2>3. pdu.sn = rx_next <=> pdu.id = passed
    <3>1. pdu.id \in passed .. passed + Window /\ passed \in passed .. passed + Window
      BY <1>3, <1>4, ConstantFacts
    <3> QED
      BY <1>3, <1>4, <3>1, SnSame
  <2>4. pdu.sn = rx_highest_status <=> pdu.id = Status
    <3>1. pdu.id \in passed .. passed + Window /\ Status \in passed .. passed + Window
      BY <1>3, <1>4, ConstantFacts
    <3> QED
      BY <1>3, <1>4, <3>1, SnSame
  <2>5. PICK s \in passed .. h :
          /\ rx_highest_status' = SnOf(s) /\ ~FullyReceived(Store(pdu), SnOf(s))
          /\ s >= Status
    <3>1. CASE pdu.id = Status
      <4>1. /\ rx_highest_status' = FirstIncomplete(Store(pdu), SnOf(pdu.id + 1), SnOf(h), SnOf(passed))
        <5>1. Plus(SnOf(pdu.id), 1) = SnOf(pdu.id + 1)
          BY <1>3, PlusOf
        <5> QED
          BY <1>3, <1>4, <1>6, <2>1, <2>4, <3>1, <5>1 DEF Advance
      <4>2. PICK f \in Nat : f = pdu.id + 1
        BY <1>3
      <4>3. passed <= f /\ f <= h
        BY <1>3, <1>4, <1>5, <4>2
      <4>4. PICK g \in f .. h :
              /\ FirstIncomplete(Store(pdu), SnOf(f), SnOf(h), SnOf(passed)) = SnOf(g)
              /\ g = h \/ ~FullyReceived(Store(pdu), SnOf(g))
        BY <1>4, <1>5, <4>3, FirstIncompleteFacts
      <4>5. g \in passed .. h /\ g >= Status
        BY <1>3, <1>4, <1>5, <3>1, <4>2, <4>3, <4>4
      <4> QED
        BY <1>8, <4>1, <4>2, <4>4, <4>5
    <3>2. CASE pdu.id # Status
      <4>1. rx_highest_status' = SnOf(Status)
        BY <1>4, <2>1, <2>4, <3>2 DEF Advance
      <4>2. Status \in passed .. passed + Window /\ Status \in passed .. h
        BY <1>4, <1>5, ConstantFacts
      <4>3. ~FullyReceived(Store(pdu), SnOf(Status))
        BY <1>5, <1>7, <3>2, <4>2
      <4> QED
        BY <1>4, <4>1, <4>2, <4>3
    <3> QED
      BY <3>1, <3>2
  <2>6. PICK p \in passed .. h :
          /\ rx_next' = SnOf(p) /\ ~FullyReceived(Store(pdu), SnOf(p))
          /\ \A j \in passed .. p - 1 : FullyReceived(Store(pdu), SnOf(j))
    <3>1. CASE pdu.id = passed
      <4>1. rx_next' = FirstIncomplete(Store(pdu), SnOf(passed), SnOf(h), SnOf(passed))
        BY <1>3, <1>4, <1>6, <2>1, <2>3, <3>1 DEF Advance
      <4>2. passed <= h
        BY <1>4, <1>5
      <4>3. PICK g \in passed .. h :
              /\ FirstIncomplete(Store(pdu), SnOf(passed), SnOf(h), SnOf(passed)) = SnOf(g)
              /\ \A j \in passed .. g - 1 : FullyReceived(Store(pdu), SnOf(j))
              /\ g = h \/ ~FullyReceived(Store(pdu), SnOf(g))
        BY <1>4, <1>5, <4>2, FirstIncompleteFacts
      <4> QED
        BY <1>8, <4>1, <4>3
    <3>2. CASE pdu.id # passed
      <4>1. rx_next' = SnOf(passed)
        BY <1>4, <2>1, <2>3, <3>2 DEF Advance
      <4>2. passed \in passed .. passed + Window /\ passed \in passed .. h
            /\ passed .. passed - 1 = {}
        BY <1>4, <1>5, ConstantFacts
      <4>3. ~FullyReceived(Store(pdu), SnOf(passed))
        BY <1>5, <1>7, <3>2, <4>2
      <4> QED
        BY <1>4, <4>1, <4>2, <4>3
    <3> QED
      BY <3>1, <3>2
  <2>7. p \in Nat /\ s \in Nat /\ passed <= p /\ p <= h /\ s <= h /\ passed <= s
    BY <1>4, <1>5, <2>5, <2>6
  <2>8. p <= s
    <3> SUFFICES ASSUME s < p PROVE FALSE
      BY <2>7
    <3>1. s \in passed .. p - 1
      BY <1>4, <2>7
    <3> QED
      BY <2>5, <2>6, <3>1
  <2>9. Base(SnOf(p), SnOf(passed)) = p - passed
    BY <1>4, <1>5, <2>7, BaseAhead, ConstantFacts
  <2>10. passed' = p
    <3>1. passed + (p - passed) = p
      BY <1>4, <2>7
    <3> QED
      BY <1>4, <2>1, <2>6, <2>9, <3>1 DEF Advance
  <2> DEFINE keep == {sn \in DOMAIN Store(pdu) : Base(sn, rx_next) >= Base(rx_next', rx_next)}
  <2>11. rx_window' = Restrict(Store(pdu), keep)
    BY <2>1 DEF Advance
  <2>12. \A sn \in keep : sn \in DOMAIN Store(pdu)
    OBVIOUS
  <2>13. \A j \in passed .. h - 1 : SnOf(j) \in keep <=> p <= j /\ SnOf(j) \in DOMAIN Store(pdu)
    <3> TAKE j \in passed .. h - 1
    <3>1. j \in Nat /\ passed <= j /\ j < passed + SnMod
      BY <1>4, <1>5, ConstantFacts, SMTT(30)
    <3>2. Base(SnOf(j), SnOf(passed)) = j - passed
      BY <1>4, <3>1, BaseAhead
    <3>3. j - passed >= p - passed <=> p <= j
      BY <1>4, <2>7, <3>1
    <3> QED
      BY <1>4, <2>6, <2>9, <3>2, <3>3
  <2> HIDE DEF keep
  <2>14. /\ DOMAIN rx_window' = keep
         /\ \A sn \in keep : rx_window'[sn] = Store(pdu)[sn]
         /\ rx_window' = [sn \in DOMAIN rx_window' |-> rx_window'[sn]]
    BY <2>11 DEF Restrict
  <2>15. Placed(pdu, p, s, h)
    BY <1>6, <1>10, <2>2, <2>5, <2>6, <2>7, <2>8, <2>10, <2>12, <2>13, <2>14 DEF Placed
  <2> QED
    BY <2>7, <2>15
<1> QED
  BY <1>9, <1>10

LEMMA PlacedInv ==
  ASSUME IInv, NEW pdu \in data, PlaceDataPdu(pdu), UNCHANGED txVars,
         NEW h, h = IF pdu.id >= High THEN pdu.id + 1 ELSE High,
         NEW p \in Nat, NEW s \in Nat, Placed(pdu, p, s, h)
  PROVE  RxInv'
<1> DEFINE store == Store(pdu)
           full  == FullyReceived(store, pdu.sn)
<1>1. TxInv /\ RxInv
  BY DEF IInv
<1>2. Inside(pdu.sn, rx_next) /\ ~FullyReceived(rx_window, pdu.sn)
  BY DEF PlaceDataPdu
<1>3. /\ pdu.id \in SduIds /\ pdu.id \in Nat /\ passed <= pdu.id
      /\ pdu.id < passed + Window /\ pdu.sn = SnOf(pdu.id)
      /\ pdu.from \in Nat /\ pdu.to \in Nat /\ pdu.from <= pdu.to
      /\ pdu.to < Length(pdu.id)
  BY <1>2, PduInside
<1>4. /\ High \in Nat /\ passed \in Nat /\ passed <= High /\ High <= passed + Window
      /\ rx_next = SnOf(passed) /\ taken \in Nat /\ acked \in Nat /\ acked <= passed
  BY <1>1, RxFacts DEF TxInv, RxInv, RxCounts, TxCounts
<1>5. /\ h \in Nat /\ High <= h /\ pdu.id < h /\ h <= taken /\ h <= passed + Window
      /\ DOMAIN store = DOMAIN rx_window \cup {pdu.sn}
      /\ WindowOk(store, passed, h)
      /\ \A j \in passed .. h - 1 : SnOf(j) \in DOMAIN store =>
           store[SnOf(j)].got \subseteq {j} \X (0 .. Sent(j) - 1)
      /\ \A j \in passed .. passed + Window : j # pdu.id =>
           (FullyReceived(store, SnOf(j)) <=> FullyReceived(rx_window, SnOf(j)))
      /\ \A j \in passed .. passed + Window : SnOf(j) \in DOMAIN rx_window => j < High
      /\ SnOf(h - 1) \in DOMAIN store
      /\ pdu.sn \in DOMAIN rx_window => EntryOk(rx_window[pdu.sn], pdu.id)
  BY <1>2, PlaceFacts
<1> HIDE DEF store
<1>6. /\ passed <= p /\ p <= s /\ s <= h
      /\ rx_next' = SnOf(p) /\ rx_highest_status' = SnOf(s) /\ rx_next_highest' = SnOf(h)
      /\ passed' = p
      /\ \A j \in passed .. p - 1 : FullyReceived(store, SnOf(j))
      /\ ~FullyReceived(store, SnOf(p)) /\ ~FullyReceived(store, SnOf(s))
      /\ rx_window' = [sn \in DOMAIN rx_window' |-> rx_window'[sn]]
      /\ \A sn \in DOMAIN rx_window' : sn \in DOMAIN store /\ rx_window'[sn] = store[sn]
      /\ \A j \in passed .. h - 1 :
           SnOf(j) \in DOMAIN rx_window' <=> p <= j /\ SnOf(j) \in DOMAIN store
      /\ \A x : x \in DOMAIN delivered' \cup lost' <=>
           x \in DOMAIN delivered \cup lost \/ (full /\ x = store[pdu.sn].got)
  BY DEF Placed, store
<1> HIDE DEF full
<1>7. p <= h /\ h <= p + Window /\ p <= passed + Window /\ s <= p + Window
  <2>1. passed <= p /\ p <= s /\ s <= h /\ Window \in Nat
    BY <1>6, ConstantFacts
  <2> QED
    BY <1>4, <1>5, <2>1
<1>8. High' = h /\ Status' = s
  <2>1. Base(SnOf(h), SnOf(p)) = h - p /\ Base(SnOf(s), SnOf(p)) = s - p
    BY <1>5, <1>6, <1>7, BaseAhead, ConstantFacts
  <2>2. p + (h - p) = h /\ p + (s - p) = s
    BY <1>5
  <2> QED
    BY <1>6, <2>1, <2>2 DEF High, Status
<1>9. \A j \in passed .. h - 1 :
        FullyReceived(store, SnOf(j)) <=> SnOf(j) \in DOMAIN store /\ store[SnOf(j)].got = Whole(j)
  <2> SUFFICES ASSUME NEW j \in passed .. h - 1
               PROVE  FullyReceived(store, SnOf(j))
                        <=> SnOf(j) \in DOMAIN store /\ store[SnOf(j)].got = Whole(j)
    OBVIOUS
  <2>1. j \in SduIds
    BY <1>1, <1>4, <1>5 DEF SduIds, TxInv, TxCounts
  <2> QED
    BY <1>4, <1>5, <2>1, FullIsWhole
<1>10. UNCHANGED <<taken, acked, sn_under_segmentation>> /\ Segmenting' = Segmenting
       /\ \A i : Sent(i)' = Sent(i)
  <2>1. UNCHANGED <<taken, acked, sn_under_segmentation>>
    BY DEF txVars, segVars, ackVars
  <2> QED
    BY <1>4, <1>6, <2>1, TxKept
<1>11. Segmenting => p < taken
  <2> SUFFICES ASSUME Segmenting, p >= taken PROVE FALSE
    BY <1>4
  <2>1. taken - 1 \in 0 .. taken - 1 /\ taken - 1 \in passed .. p - 1
        /\ taken - 1 \in passed .. h - 1
    BY <1>1, <1>4, <1>5, <1>7 DEF RxInv, RxCounts
  <2>2. PICK j \in 0 .. taken - 1 : j = taken - 1
    BY <2>1
  <2>3. /\ FullyReceived(store, SnOf(j)) /\ SnOf(j) \in DOMAIN store
        /\ store[SnOf(j)].got = Whole(j)
    BY <1>6, <1>9, <2>1, <2>2
  <2>4. Whole(j) \subseteq {j} \X (0 .. Sent(j) - 1)
    BY <1>5, <2>1, <2>2, <2>3
  <2>5. Length(j) \in Nat /\ Length(j) > 0 /\ Sent(j) \in Nat /\ Sent(j) < Length(j)
    BY <1>1, <2>2, SentFacts DEF TxInv, TxNext
  <2>6. <<j, Length(j) - 1>> \in Whole(j)
    BY <2>5 DEF Whole
  <2> QED
    BY <2>4, <2>5, <2>6
<1>12. RxCounts'
  <2>1. acked <= p /\ s <= h /\ h <= taken
    BY <1>4, <1>5, <1>6
  <2> QED
    BY <1>5, <1>6, <1>8, <1>10, <1>11, <2>1, SnType DEF RxCounts
<1>13. WindowOk(rx_window', p, h)
  <2>1. DOMAIN rx_window' \subseteq SnRange(p, h)
    <3> SUFFICES ASSUME NEW sn \in DOMAIN rx_window' PROVE sn \in SnRange(p, h)
      OBVIOUS
    <3>1. sn \in SnRange(passed, h)
      BY <1>5, <1>6 DEF WindowOk
    <3>2. PICK j \in passed .. h - 1 : sn = SnOf(j)
      BY <3>1 DEF SnRange
    <3>3. j \in p .. h - 1
      BY <1>4, <1>5, <1>6, <3>2
    <3> QED
      BY <3>2, <3>3 DEF SnRange
  <2>2. \A j \in p .. h - 1 : j \in passed .. h - 1
    BY <1>4, <1>6
  <2> QED
    BY <1>5, <1>6, <2>1, <2>2 DEF WindowOk
<1>14. h > p => SnOf(h - 1) \in DOMAIN rx_window'
  <2> SUFFICES ASSUME h > p PROVE SnOf(h - 1) \in DOMAIN rx_window'
    OBVIOUS
  <2>1. h - 1 \in passed .. h - 1 /\ p <= h - 1
    BY <1>4, <1>5, <1>6
  <2> QED
    BY <1>5, <1>6, <2>1
<1>15. RxWindow'
  <2>1. \A j \in p .. h - 1 : SnOf(j) \in DOMAIN rx_window' =>
          rx_window'[SnOf(j)].got \subseteq {j} \X (0 .. Sent(j)' - 1)
    <3> SUFFICES ASSUME NEW j \in p .. h - 1, SnOf(j) \in DOMAIN rx_window'
                 PROVE  rx_window'[SnOf(j)].got \subseteq {j} \X (0 .. Sent(j)' - 1)
      OBVIOUS
    <3>1. j \in passed .. h - 1
      BY <1>4, <1>6
    <3> QED
      BY <1>5, <1>6, <1>10, <3>1
  <2>2. (High > passed => SnOf(High - 1) \in DOMAIN rx_window)'
    BY <1>6, <1>8, <1>14 DEF SnOf
  <2> QED
    BY <1>6, <1>8, <1>13, <2>1, <2>2 DEF RxWindow
<1>16. \A j : j \in Complete' <=> j \in Complete \/ (full /\ j = pdu.id)
  <2>1. \A j : j \in Complete' <=>
          j \in 0 .. h - 1 /\ (j < p \/ FullyReceived(rx_window', SnOf(j)))
    BY <1>6, <1>8 DEF Complete
  <2>2. \A j : j \in Complete <=>
          j \in 0 .. High - 1 /\ (j < passed \/ FullyReceived(rx_window, SnOf(j)))
    BY DEF Complete
  <2>3. ASSUME NEW j \in passed .. h - 1
        PROVE  j \in Complete' <=> FullyReceived(store, SnOf(j))
    <3>1. FullyReceived(rx_window', SnOf(j)) <=> p <= j /\ FullyReceived(store, SnOf(j))
      BY <1>6 DEF FullyReceived
    <3>2. j \in Int /\ (j < p => j \in passed .. p - 1) /\ j \in 0 .. h - 1
      BY <1>4
    <3> QED
      BY <1>6, <2>1, <3>1, <3>2
  <2>4. ASSUME NEW j \in passed .. h - 1
        PROVE  j \in Complete <=> FullyReceived(rx_window, SnOf(j))
    <3>1. j \in passed .. passed + Window /\ j \in Nat /\ ~(j < passed)
      BY <1>4, <1>5, ConstantFacts
    <3>2. FullyReceived(rx_window, SnOf(j)) => j < High
      BY <1>5, <3>1 DEF FullyReceived
    <3> QED
      BY <1>4, <2>2, <3>1, <3>2
  <2>5. ASSUME NEW j, j \notin passed .. h - 1
        PROVE  j \in Complete' <=> j \in Complete
    <3>1. j \in 0 .. h - 1 => j < passed /\ j < p /\ j \in 0 .. High - 1
      BY <1>4, <1>5, <1>6, <2>5
    <3>2. j \in 0 .. High - 1 => j \in 0 .. h - 1
      BY <1>4, <1>5
    <3> QED
      BY <2>1, <2>2, <3>1, <3>2
  <2>6. pdu.id \in passed .. h - 1
    BY <1>3, <1>4, <1>5
  <2>7. ASSUME NEW j \in passed .. h - 1, j # pdu.id
        PROVE  j \in Complete' <=> j \in Complete
    <3>1. j \in passed .. passed + Window
      BY <1>4, <1>5, ConstantFacts
    <3> QED
      BY <1>5, <2>3, <2>4, <2>7, <3>1
  <2>8. pdu.id \notin Complete /\ (pdu.id \in Complete' <=> full)
    BY <1>2, <1>3, <2>3, <2>4, <2>6 DEF full
  <2> QED
    BY <2>5, <2>6, <2>7, <2>8
<1>17. Delivered'
  <2>1. full => store[pdu.sn].got = Whole(pdu.id)
    <3>1. pdu.id \in passed .. h - 1
      BY <1>3, <1>4, <1>5
    <3> QED
      BY <1>3, <1>9, <3>1 DEF full
  <2>2. DOMAIN delivered \cup lost = {Whole(i) : i \in Complete}
    BY <1>1 DEF RxInv, Delivered
  <2>3. \A x : x \in DOMAIN delivered' \cup lost' <=> \E i \in Complete' : x = Whole(i)
    BY <1>6, <1>16, <2>1, <2>2
  <2>4. DOMAIN delivered' \cup lost' = {Whole(i) : i \in Complete'}
    BY <2>3
  <2> QED
    BY <2>4 DEF Delivered, Whole, Length
<1>18. Stands'
  <2>1. \A sn : FullyReceived(rx_window', sn) => FullyReceived(store, sn)
    BY <1>6 DEF FullyReceived
  <2> QED
    BY <1>6, <2>1 DEF Stands
<1>19. /\ Timer' /\ GapIsTimed'
       /\ rx_next_status_trigger' \in Sn /\ reassembly_timer' \in BOOLEAN
  <2>1. \A t \in p + 1 .. h : SnOf(t - 1) \in DOMAIN rx_window =>
          SnOf(t - 1) \in DOMAIN rx_window'
    <3> SUFFICES ASSUME NEW t \in p + 1 .. h, SnOf(t - 1) \in DOMAIN rx_window
                 PROVE  SnOf(t - 1) \in DOMAIN rx_window'
      OBVIOUS
    <3>1. t - 1 \in passed .. h - 1 /\ p <= t - 1
      BY <1>4, <1>5, <1>6
    <3> QED
      BY <1>5, <1>6, <3>1
  <2>2. UpdateReassembly
    BY DEF PlaceDataPdu
  <2> QED
    BY <1>5, <1>6, <1>7, <1>14, <2>1, <2>2, ReassemblyStep
<1>20. ReportIsCurrent'
  <2>1. CASE Stores(pdu) \/ pdu.p
    BY <2>1 DEF PlaceDataPdu, Refresh, ReportIsCurrent
  <2>2. CASE ~(Stores(pdu) \/ pdu.p)
    <3>1. rx_window = [sn \in DOMAIN rx_window |-> rx_window[sn]]
      BY <1>1 DEF RxInv, RxWindow
    <3>2. Store(pdu) = rx_window
      BY <1>3, <1>5, <2>2, <3>1, NothingStored
    <3>3. ~FullyReceived(Store(pdu), pdu.sn)
      BY <1>2, <3>2
    <3>4. /\ rx_window' = rx_window /\ UNCHANGED <<rx_next, rx_highest_status>>
          /\ UNCHANGED report
      BY <2>2, <3>2, <3>3 DEF PlaceDataPdu
    <3> QED
      BY <1>1, <3>4 DEF RxInv, ReportIsCurrent
  <2> QED
    BY <2>1, <2>2
<1>21. RxTypes'
  <2>1. do_status' = (do_status \/ pdu.p) /\ status_prohibit' = status_prohibit
    BY DEF PlaceDataPdu
  <2>2. do_status' \in BOOLEAN
    BY <2>1, Zenon
  <2> QED
    BY <1>1, <1>19, <2>1, <2>2 DEF RxInv, RxTypes
<1> QED
  BY <1>12, <1>15, <1>17, <1>18, <1>19, <1>20, <1>21 DEF RxInv

\* Nothing but the report and the flags changes.
LEMMA RxUnmoved ==
  ASSUME IInv, UNCHANGED txVars,
         UNCHANGED <<rx_next, rx_next_highest, rx_highest_status, rx_next_status_trigger,
                     rx_window, reassembly_timer, delivered, lost, passed>>,
         Refresh \/ UNCHANGED report,
         do_status' \in BOOLEAN, status_prohibit' \in BOOLEAN
  PROVE  RxInv'
<1>1. RxInv /\ passed \in Nat
  BY DEF IInv, RxInv, RxCounts
<1>2. /\ UNCHANGED <<taken, acked, sn_under_segmentation>> /\ Segmenting' = Segmenting
      /\ \A i : Sent(i)' = Sent(i)
  <2>1. UNCHANGED <<taken, acked, sn_under_segmentation>>
    BY DEF txVars, segVars, ackVars
  <2> QED
    BY <1>1, <2>1, TxKept
<1>3. High' = High /\ Status' = Status /\ Trigger' = Trigger
  BY DEF High, Status, Trigger
<1>4. Complete' = Complete
  BY <1>3 DEF Complete
<1>5. RxCounts' /\ RxWindow'
  BY <1>1, <1>2, <1>3 DEF RxInv, RxCounts, RxWindow
<1>6. Delivered' /\ Stands' /\ Timer' /\ GapIsTimed'
  BY <1>1, <1>3, <1>4 DEF RxInv, Delivered, Stands, Timer, GapIsTimed
<1>7. ReportIsCurrent'
  BY <1>1 DEF RxInv, ReportIsCurrent, Refresh
<1>8. RxTypes'
  BY <1>1 DEF RxInv, RxTypes
<1> QED
  BY <1>5, <1>6, <1>7, <1>8 DEF RxInv

LEMMA ReceiveDataStep ==
  ASSUME IInv, ReceiveData
  PROVE  IInv'
<1>1. TxInv /\ DataInv /\ RxInv /\ StatusInv /\ passed \in Nat
  BY DEF IInv, RxInv, RxCounts
<1>2. PICK pdu \in data :
        /\ DropDataPdu(pdu) \/ PlaceDataPdu(pdu)
        /\ data' = {m \in data \ {pdu} : Fresh(passed' - 1 - m.id)}
        /\ UNCHANGED txVars /\ UNCHANGED status
  BY DEF ReceiveData, HandleDataPdu
<1>3. RxInv' /\ \E p \in Nat : passed' = p /\ passed <= p
  <2>1. CASE DropDataPdu(pdu)
    <3>1. do_status' = (do_status \/ pdu.p) /\ status_prohibit' = status_prohibit
      BY <2>1 DEF DropDataPdu, Requested
    <3>2. do_status' \in BOOLEAN
      BY <3>1, Zenon
    <3>3. status_prohibit' \in BOOLEAN
      BY <1>1, <3>1 DEF RxInv, RxTypes
    <3>4. RxInv'
      BY <1>2, <2>1, <3>2, <3>3, RxUnmoved DEF DropDataPdu, Requested
    <3>5. passed' = passed
      BY <2>1 DEF DropDataPdu
    <3> QED
      BY <1>1, <3>4, <3>5
  <2>2. CASE PlaceDataPdu(pdu)
    <3>1. PICK h : h = IF pdu.id >= High THEN pdu.id + 1 ELSE High
      OBVIOUS
    <3>2. PICK p \in Nat, s \in Nat : Placed(pdu, p, s, h)
      BY <2>2, <3>1, PlacedStep
    <3>3. RxInv'
      BY <1>2, <2>2, <3>1, <3>2, PlacedInv
    <3> QED
      BY <3>2, <3>3 DEF Placed
  <2> QED
    BY <1>2, <2>1, <2>2
<1>4. PICK p \in Nat : passed' = p /\ passed <= p
  BY <1>3
<1>5. /\ TxInv'
      /\ \A m \in data : Fresh(passed' - 1 - m.id) => PduOk(m)'
      /\ \A s \in status : ReportOk(s)'
  BY <1>2, <1>4, TxKept
<1>6. DataInv'
  BY <1>2, <1>5 DEF DataInv
<1>7. StatusInv'
  BY <1>2, <1>5 DEF StatusInv
<1> QED
  BY <1>3, <1>5, <1>6, <1>7 DEF IInv

\* What the report of the receiver says is true: of a NACK with a last byte the
\* next byte is there, and of the last SDU that was seen there is something.
LEMMA TrueNackOk ==
  ASSUME TxInv, RxInv, NEW i \in passed .. High - 1, NEW nack,
         NackTrue(rx_window, nack, i)
  PROVE  NackOk(nack, i)
<1>1. /\ passed \in Nat /\ High \in Nat /\ High <= taken /\ taken \in Nat
      /\ i \in Nat /\ i \in 0 .. taken - 1
  BY RxFacts DEF TxInv, RxInv, RxCounts, TxCounts
<1>2. Sent(i) \in Nat /\ (i # taken - 1 => Sent(i) = Length(i))
  BY <1>1, SentFacts DEF TxInv
<1>3. ASSUME nack.to # EndOfSdu PROVE nack.from <= nack.to /\ nack.to < Sent(i)
  <2>1. <<i, nack.to + 1>> \in {i} \X (0 .. Sent(i) - 1) /\ nack.from <= nack.to
    BY <1>3 DEF NackTrue, RxInv, RxWindow
  <2>2. nack.to \in Nat
    BY <1>3 DEF NackTrue, Nack
  <2> QED
    BY <1>2, <2>1, <2>2
<1>4. ASSUME nack.to = EndOfSdu, nack.from = 0 PROVE Sent(i) = Length(i)
  <2>1. SnOf(i) \notin DOMAIN rx_window
    BY <1>4 DEF NackTrue
  <2>2. SnOf(High - 1) \in DOMAIN rx_window
    BY <1>1 DEF RxInv, RxWindow
  <2>3. i # High - 1
    BY <2>1, <2>2
  <2> QED
    BY <1>1, <1>2, <2>3
<1> QED
  BY <1>3, <1>4 DEF NackTrue, NackOk

LEMMA AnswerStep ==
  ASSUME IInv, Answer
  PROVE  IInv'
<1>1. TxInv /\ DataInv /\ RxInv /\ StatusInv /\ passed \in Nat
  BY DEF IInv, RxInv, RxCounts
<1>2. PICK sn \in {report.ack_sn} \cup {nack.sn : nack \in report.nacks} :
        status' \in Submit(status, [ack_sn |-> Trimmed(sn).ack_sn, nacks |-> Trimmed(sn).nacks,
                                    at |-> passed + Base(Trimmed(sn).ack_sn, rx_next)])
  BY DEF Answer, SendStatus
<1>3. /\ UNCHANGED txVars /\ UNCHANGED data
      /\ UNCHANGED <<rx_next, rx_next_highest, rx_highest_status, rx_next_status_trigger,
                     rx_window, reassembly_timer, delivered, lost, passed>>
      /\ UNCHANGED report
      /\ do_status' \in BOOLEAN /\ status_prohibit' \in BOOLEAN
  BY DEF Answer, SendStatus
<1>4. RxInv'
  BY <1>3, RxUnmoved
<1>5. /\ TxInv' /\ \A i : Sent(i)' = Sent(i)
      /\ \A m \in data : Fresh(passed' - 1 - m.id) => PduOk(m)'
      /\ \A s \in status : ReportOk(s)'
  BY <1>1, <1>3, TxKept
<1>6. DataInv'
  BY <1>1, <1>3, <1>5 DEF DataInv, PduOk
<1>7. /\ High \in Nat /\ Status \in Nat /\ passed <= Status /\ Status <= High
      /\ High <= passed + Window /\ High <= taken /\ taken \in Nat
      /\ rx_highest_status = SnOf(Status) /\ rx_next = SnOf(passed)
      /\ acked \in Nat /\ acked <= passed
  BY <1>1, RxFacts DEF TxInv, TxCounts, RxInv, RxCounts
<1>8. PICK at \in passed .. Status :
        /\ Spans(Trimmed(sn), passed, at)
        /\ sn = SnOf(at)
        /\ \A nack \in Trimmed(sn).nacks :
             \E i \in passed .. at - 1 : NackTrue(rx_window, nack, i)
  <2>1. High <= Len(Lens)
    BY <1>1, <1>7, ConstantFacts DEF TxInv, TxCounts
  <2>2. WindowOk(rx_window, passed, High) /\ ~FullyReceived(rx_window, SnOf(passed))
        /\ report = Report(rx_window, SnOf(passed), SnOf(Status))
    BY <1>1, <1>7 DEF RxInv, RxWindow, Stands, ReportIsCurrent
  <2> QED
    BY <1>1, <1>7, <2>1, <2>2, TrimmedFacts
<1>9. PICK m : m = [ack_sn |-> Trimmed(sn).ack_sn, nacks |-> Trimmed(sn).nacks,
                     at |-> passed + Base(Trimmed(sn).ack_sn, rx_next)]
  OBVIOUS
<1>10. at \in Nat /\ passed <= at /\ at <= High /\ at <= taken /\ at <= passed + Window
  BY <1>1, <1>7, ConstantFacts
<1>11. m.at = at
  <2>1. Trimmed(sn).ack_sn = SnOf(at)
    BY <1>8 DEF Spans
  <2>2. Base(SnOf(at), SnOf(passed)) = at - passed
    BY <1>1, <1>10, BaseAhead, ConstantFacts
  <2> QED
    BY <1>1, <1>7, <1>10, <1>9, <2>1, <2>2
<1>12. m.ack_sn = Trimmed(sn).ack_sn /\ m.nacks = Trimmed(sn).nacks
  BY <1>9
<1>13. status' \subseteq status \cup {m}
  BY <1>2, <1>9 DEF Submit
<1>14. Spans(m, passed, m.at)
  BY <1>8, <1>11, <1>12 DEF Spans
<1>15. \A nack \in m.nacks : \E i \in passed .. m.at - 1 : NackOk(nack, i)'
  <2> TAKE nack \in m.nacks
  <2>1. PICK i \in passed .. at - 1 : NackTrue(rx_window, nack, i)
    BY <1>8, <1>12
  <2>2. i \in passed .. High - 1
    BY <1>1, <1>7, <1>10
  <2>3. NackOk(nack, i)
    BY <1>1, <2>1, <2>2, TrueNackOk
  <2> QED
    BY <1>5, <1>11, <2>1, <2>3 DEF NackOk
<1>16. ReportOk(m)'
  <2>1. Fresh(acked - at)
    BY <1>1, <1>7, <1>10, ConstantFacts DEF Fresh
  <2>2. UNCHANGED <<acked, taken, passed>>
    BY <1>3 DEF txVars, ackVars, segVars
  <2>3. passed \in 0 .. passed
    BY <1>1
  <2> QED
    BY <1>10, <1>11, <1>14, <1>15, <2>1, <2>2, <2>3 DEF ReportOk
<1>17. StatusInv'
  BY <1>5, <1>13, <1>16 DEF StatusInv
<1> QED
  BY <1>4, <1>5, <1>6, <1>17 DEF IInv

LEMMA ProhibitExpireStep ==
  ASSUME IInv, ProhibitExpire
  PROVE  IInv'
<1>1. DataInv /\ RxInv /\ StatusInv /\ passed \in Nat
  BY DEF IInv, RxInv, RxCounts
<1>2. /\ UNCHANGED txVars /\ UNCHANGED <<data, status>>
      /\ UNCHANGED <<rx_next, rx_next_highest, rx_highest_status, rx_next_status_trigger,
                     rx_window, reassembly_timer, delivered, lost, passed>>
      /\ UNCHANGED report
      /\ do_status' \in BOOLEAN /\ status_prohibit' \in BOOLEAN
  BY <1>1 DEF ProhibitExpire, ProhibitExpires, RxInv, RxTypes
<1>3. RxInv'
  BY <1>2, RxUnmoved
<1>4. /\ TxInv' /\ \A m \in data : Fresh(passed' - 1 - m.id) => PduOk(m)'
      /\ \A s \in status : ReportOk(s)'
  BY <1>1, <1>2, TxKept
<1> QED
  BY <1>1, <1>2, <1>3, <1>4 DEF IInv, DataInv, StatusInv, PduOk

LEMMA ReassemblyExpireStep ==
  ASSUME IInv, ReassemblyExpire
  PROVE  IInv'
<1>1. TxInv /\ DataInv /\ RxInv /\ StatusInv /\ passed \in Nat
  BY DEF IInv, RxInv, RxCounts
<1>2. /\ UNCHANGED txVars /\ UNCHANGED <<data, status>>
      /\ UNCHANGED <<rx_next, rx_next_highest, rx_window, status_prohibit,
                     delivered, lost, passed>>
      /\ reassembly_timer
      /\ rx_highest_status' = FirstIncomplete(rx_window, rx_next_status_trigger,
                                              rx_next_highest, rx_next)
      /\ reassembly_timer' = Awaits(rx_highest_status')
      /\ rx_next_status_trigger' = IF Awaits(rx_highest_status') THEN rx_next_highest
                                   ELSE rx_next_status_trigger
      /\ Refresh /\ do_status' = TRUE
  BY DEF ReassemblyExpire, ReassemblyExpires
<1>3. /\ TxInv' /\ Segmenting' = Segmenting /\ \A i : Sent(i)' = Sent(i)
      /\ \A m \in data : Fresh(passed' - 1 - m.id) => PduOk(m)'
      /\ \A s \in status : ReportOk(s)'
  BY <1>1, <1>2, TxKept
<1>4. DataInv' /\ StatusInv'
  BY <1>1, <1>2, <1>3 DEF DataInv, StatusInv, PduOk
<1>5. /\ High \in Nat /\ High <= passed + Window /\ High <= taken /\ Trigger \in Nat
      /\ passed < Trigger /\ Trigger <= High
      /\ rx_next = SnOf(passed) /\ rx_next_highest = SnOf(High)
      /\ rx_next_status_trigger = SnOf(Trigger)
      /\ SnOf(High - 1) \in DOMAIN rx_window /\ WindowOk(rx_window, passed, High)
  <2>1. passed < Trigger /\ Trigger <= High
    BY <1>1, <1>2 DEF RxInv, Timer
  <2> QED
    BY <1>1, <2>1, RxFacts DEF TxInv, RxInv, RxCounts, RxWindow
<1>6. PICK g \in Trigger .. High :
        /\ rx_highest_status' = SnOf(g)
        /\ g = High \/ ~FullyReceived(rx_window, SnOf(g))
  <2>1. passed <= Trigger
    BY <1>1, <1>5
  <2> QED
    BY <1>1, <1>2, <1>5, <2>1, FirstIncompleteFacts
<1>7. g \in Nat /\ passed < g /\ g <= High
  BY <1>1, <1>5
<1>8. ~FullyReceived(rx_window, SnOf(g))
  <2>1. SnOf(High) \notin SnRange(passed, High)
    <3>1. \A j \in passed .. High - 1 : SnOf(High) # SnOf(j)
      <4> TAKE j \in passed .. High - 1
      <4>1. j \in Nat /\ j < High /\ High < j + SnMod
        BY <1>1, <1>5, ConstantFacts
      <4> QED
        BY <1>5, <4>1, SnDiffer
    <3> QED
      BY <3>1 DEF SnRange
  <2>2. ~FullyReceived(rx_window, SnOf(High))
    BY <1>5, <2>1 DEF WindowOk, FullyReceived
  <2> QED
    BY <1>6, <2>2
<1>9. High' = High
  BY <1>2 DEF High
<1>10. Base(SnOf(High), SnOf(passed)) = High - passed /\ Base(SnOf(g), SnOf(passed)) = g - passed
       /\ Plus(SnOf(g), 1) = SnOf(g + 1) /\ Base(SnOf(g + 1), SnOf(passed)) = g + 1 - passed
  <2>1. g + 1 \in Nat /\ passed <= g + 1 /\ g + 1 < passed + SnMod
    BY <1>1, <1>5, <1>7, ConstantFacts
  <2>2. Plus(SnOf(g), 1) = SnOf(g + 1)
    BY <1>7, PlusOf
  <2>3. Base(SnOf(g + 1), SnOf(passed)) = g + 1 - passed
    BY <1>1, <2>1, BaseAhead
  <2>4. High < passed + SnMod /\ g < passed + SnMod /\ passed <= High /\ passed <= g
    BY <1>1, <1>5, <1>7, ConstantFacts
  <2> QED
    BY <1>1, <1>5, <1>7, <2>2, <2>3, <2>4, BaseAhead
<1>11. Status' = g
  <2>1. passed + (g - passed) = g
    BY <1>1, <1>7
  <2> QED
    BY <1>2, <1>5, <1>6, <1>10, <2>1 DEF Status
<1>12. UNCHANGED <<taken, acked>>
  BY <1>2 DEF txVars, segVars, ackVars
<1>13. RxCounts'
  <2>1. passed <= g
    BY <1>1, <1>7
  <2> QED
    BY <1>1, <1>2, <1>3, <1>5, <1>6, <1>7, <1>9, <1>11, <1>12, <2>1, SnType DEF RxInv, RxCounts
<1>14. RxWindow'
  BY <1>1, <1>2, <1>3, <1>9 DEF RxInv, RxWindow
<1>15. Delivered' /\ Stands'
  <2>1. Complete' = Complete
    BY <1>2, <1>9 DEF Complete
  <2> QED
    BY <1>1, <1>2, <1>6, <1>8, <2>1 DEF RxInv, Delivered, Stands
<1>16. Awaits(rx_highest_status') <=>
         \/ High - passed > g + 1 - passed
         \/ SnOf(High) = SnOf(g + 1) /\ HasGap(rx_window, SnOf(g))
  BY <1>2, <1>5, <1>6, <1>10 DEF Awaits
<1>17. reassembly_timer' \in BOOLEAN /\ rx_next_status_trigger' \in Sn
  <2>1. Awaits(rx_highest_status') \in BOOLEAN
    BY Zenon DEF Awaits
  <2> QED
    BY <1>1, <1>2, <1>5, <2>1, SnType DEF RxInv, RxTypes
<1>18. Timer' /\ GapIsTimed'
  <2>1. CASE Awaits(rx_highest_status')
    <3>1. reassembly_timer' /\ rx_next_status_trigger' = SnOf(High)
      BY <1>2, <1>5, <2>1
    <3>2. Trigger' = High
      <4>1. passed + (High - passed) = High
        BY <1>1, <1>5
      <4> QED
        BY <1>2, <1>5, <1>10, <3>1, <4>1 DEF Trigger
    <3>3. passed < High /\ High <= High
      BY <1>1, <1>5
    <3>4. (SnOf(Trigger - 1) \in DOMAIN rx_window)'
      BY <1>2, <1>5, <3>2 DEF SnOf
    <3> QED
      BY <1>2, <1>9, <3>1, <3>2, <3>3, <3>4 DEF Timer, GapIsTimed
  <2>2. CASE ~Awaits(rx_highest_status')
    <3>1. High - passed <= g - passed + 1
      BY <1>1, <1>5, <1>7, <1>16, <2>2
    <3>2. SnOf(High) # SnOf(g) => ~HasGap(rx_window, SnOf(g))
      <4> SUFFICES ASSUME SnOf(High) # SnOf(g) PROVE ~HasGap(rx_window, SnOf(g))
        OBVIOUS
      <4>1. High = g + 1
        BY <1>1, <1>5, <1>7, <3>1
      <4> QED
        BY <1>16, <2>2, <4>1
    <3>3. ~reassembly_timer'
      BY <1>2, <2>2
    <3> QED
      BY <1>2, <1>5, <1>6, <1>10, <3>1, <3>2, <3>3 DEF Timer, GapIsTimed
  <2> QED
    BY <2>1, <2>2
<1>19. ReportIsCurrent'
  BY <1>2 DEF ReportIsCurrent, Refresh
<1>20. RxTypes'
  BY <1>1, <1>2, <1>17 DEF RxInv, RxTypes
<1> QED
  BY <1>3, <1>4, <1>13, <1>14, <1>15, <1>18, <1>19, <1>20 DEF IInv, RxInv

-----------------------------------------------------------------------------
(* What holds in every state.                                              *)

LEMMA NextInv ==
  ASSUME IInv, [Next]_vars
  PROVE  IInv'
<1>1. CASE Pull
  <2>1. PICK n \in Grants : BuildNewPdu(n) \/ BuildContinuedSduSegment(n) \/ BuildRetxPdu(n)
    BY <1>1 DEF Pull, PullPdu
  <2> QED
    BY <1>1, <2>1, BuildNewStep, BuildContinuedStep, BuildRetxStep DEF Pull
<1>2. CASE UNCHANGED vars
  <2>1. UNCHANGED txVars /\ UNCHANGED rxVars /\ UNCHANGED <<data, status>>
    BY <1>2 DEF vars
  <2>2. RxInv /\ DataInv /\ StatusInv /\ passed \in Nat
    BY DEF IInv, RxInv, RxCounts
  <2>3. RxInv'
    BY <2>1, <2>2, RxUnmoved DEF rxVars, RxInv, RxTypes
  <2>4. /\ TxInv' /\ \A m \in data : Fresh(passed' - 1 - m.id) => PduOk(m)'
        /\ \A s \in status : ReportOk(s)'
    BY <2>1, <2>2, TxKept DEF rxVars
  <2> QED
    BY <2>1, <2>2, <2>3, <2>4 DEF IInv, DataInv, StatusInv, PduOk, rxVars
<1> QED
  BY <1>1, <1>2, QueueStep, ReceiveStatusStep, PollExpireStep, ReceiveDataStep, AnswerStep,
     ProhibitExpireStep, ReassemblyExpireStep DEF Next, Work

\* The invariant holds in every instance: every step of the two entities
\* (rlc_tx_am_entity.cpp, rlc_rx_am_entity.cpp) and of the channels keeps it.
THEOREM Inductive == Spec => []IInv
<1>1. Init => IInv
  BY InitInv
<1>2. IInv /\ [Next]_vars => IInv'
  BY NextInv
<1> QED
  BY <1>1, <1>2, PTL DEF Spec

\* Whatever is lost, delayed or reordered, every SN stays within its bits and
\* every variable within its type.
THEOREM TypeCorrect == Spec => []TypeOK
<1>1. IInv => TypeOK
  BY InvTypeOK
<1> QED
  BY <1>1, Inductive, PTL

LEMMA InvWindow ==
  ASSUME IInv
  PROVE  WindowInOrder
<1>1. TxInv
  BY DEF IInv
<1>2. /\ taken \in Nat /\ acked \in Nat /\ acked <= taken /\ taken <= acked + SnMod
      /\ tx_next_ack = SnOf(acked) /\ DOMAIN tx_window = SnRange(acked, taken)
      /\ \A i \in acked .. taken - 1 : tx_window[SnOf(i)].id = i
  BY <1>1, ConstantFacts DEF TxInv, TxCounts, TxWindow, SduOk
<1>3. \A i \in acked .. taken - 1 : TxBase(SnOf(i)) = i - acked
  <2> TAKE i \in acked .. taken - 1
  <2>1. i \in Nat /\ acked <= i /\ i < acked + SnMod
    BY <1>2, ConstantFacts
  <2> QED
    BY <1>2, <2>1, BaseAhead DEF TxBase
<1>4. \A sn \in DOMAIN tx_window : tx_window[sn].id = acked + TxBase(sn)
  <2> TAKE sn \in DOMAIN tx_window
  <2>1. PICK i \in acked .. taken - 1 : sn = SnOf(i)
    BY <1>2 DEF SnRange
  <2> QED
    BY <1>2, <1>3, <2>1
<1>5. Cardinality(DOMAIN tx_window) = taken - acked
  BY <1>2, RangeSize
<1>6. ASSUME Segmenting
      PROVE  /\ sn_under_segmentation = tx_next /\ InWindow(tx_next)
             /\ TxBase(tx_next) = taken - acked - 1
  <2>1. /\ taken - 1 \in acked .. taken - 1 /\ tx_next = SnOf(taken - 1)
        /\ sn_under_segmentation = SnOf(taken - 1) /\ SnOf(taken - 1) \in DOMAIN tx_window
    BY <1>1, <1>6, SegmentFacts
  <2>2. taken - 1 - acked = taken - acked - 1
    BY <1>2
  <2> QED
    BY <1>3, <2>1, <2>2 DEF InWindow
<1> QED
  BY <1>4, <1>5, <1>6 DEF WindowInOrder, Segmenting

\* The window is what was taken and not acknowledged, without holes, for every
\* size of the SNs and any report: pull_pdu never loses the rest of an SDU that
\* is being segmented (rlc_tx_am_entity.cpp:205).
THEOREM WindowSafe == Spec => []WindowInOrder
<1>1. IInv => WindowInOrder
  BY InvWindow
<1> QED
  BY <1>1, Inductive, PTL

LEMMA InvRetx ==
  ASSUME IInv
  PROVE  RetxWithinSent
<1> SUFFICES ASSUME NEW k \in DOMAIN retx_queue
             PROVE  /\ InWindow(retx_queue[k].sn) /\ retx_queue[k].length > 0
                    /\ retx_queue[k].so + retx_queue[k].length <= SentBytes(retx_queue[k].sn)
  BY DEF RetxWithinSent
<1>1. TxInv
  BY DEF IInv
<1>2. retx_queue[k] \in Retransmission /\ k \in 1 .. Len(retx_queue)
  BY <1>1 DEF TxInv, Retransmissions
<1>3. PICK i \in acked .. taken - 1 : RetxOf(retx_queue[k], i)
  BY <1>1, <1>2 DEF TxInv, Retransmissions
<1>4. /\ taken \in Nat /\ acked \in Nat /\ taken <= acked + Window
      /\ DOMAIN tx_window = SnRange(acked, taken) /\ tx_window[SnOf(i)].id = i
      /\ i \in Nat
  BY <1>1, <1>3 DEF TxInv, TxCounts, TxWindow, SduOk
<1>5. SnOf(i) = sn_under_segmentation <=> Segmenting /\ i = taken - 1
  <2>1. CASE Segmenting
    <3>1. sn_under_segmentation = SnOf(taken - 1) /\ taken - 1 \in acked .. taken - 1
      BY <1>1, <2>1, SegmentFacts
    <3>2. taken <= acked + SnMod
      BY <1>4, ConstantFacts
    <3>3. SnOf(i) = SnOf(taken - 1) => i = taken - 1
      BY <1>4, <3>1, <3>2, RangeUnique
    <3> QED
      BY <2>1, <3>1, <3>3
  <2>2. CASE ~Segmenting
    BY <1>4, <2>2, SnType DEF Segmenting, NoSn
  <2> QED
    BY <2>1, <2>2
<1>6. SentBytes(SnOf(i)) = Sent(i)
  BY <1>4, <1>5 DEF SentBytes, Sent
<1>7. InWindow(SnOf(i))
  BY <1>3, <1>4 DEF InWindow, SnRange
<1>8. retx_queue[k].length > 0
  BY <1>2 DEF Retransmission
<1> QED
  BY <1>3, <1>6, <1>7, <1>8 DEF RetxOf

\* Only bytes that were sent before, of an SDU in the window, are queued for
\* retransmission, whatever is acknowledged or segmented in between
\* (rlc_tx_am_entity.cpp:864).
THEOREM RetxSafe == Spec => []RetxWithinSent
<1>1. IInv => RetxWithinSent
  BY InvRetx
<1> QED
  BY <1>1, Inductive, PTL

\* No report of a peer that keeps to the protocol, however late, makes the
\* transmitter tell of a protocol failure (rlc_tx_am_entity.cpp:677, 897, 904,
\* 912, 1256, 1268).
THEOREM NoFalseAccusation == Spec => []NeverAccused
<1>1. IInv => NeverAccused
  BY DEF IInv, TxInv, NeverAccused
<1> QED
  BY <1>1, Inductive, PTL

\* handle_nack finds the SDU of every NACK that passes the checks in the window
\* (rlc_tx_am_entity.cpp:851).
THEOREM NackFindsSdu == Spec => []NackedPresent
<1>1. ASSUME IInv, NEW s \in status, Valid(s), NEW nack \in s.nacks
      PROVE  InWindow(nack.sn)
  <2>1. PICK b \in acked .. passed : \A m \in s.nacks : \E i \in b .. s.at - 1 :
          i \in acked .. taken - 1 /\ NackOk(m, i)
    BY <1>1, ValidFacts
  <2>2. PICK i \in acked .. taken - 1 : NackOk(nack, i)
    BY <1>1, <2>1
  <2> QED
    BY <1>1, <2>2 DEF NackOk, InWindow, IInv, TxInv, TxWindow, SnRange
<1>2. IInv => NackedPresent
  BY <1>1 DEF NackedPresent
<1> QED
  BY <1>2, Inductive, PTL

\* The entity stops for too many retransmissions only after the upper layers
\* heard of it (rlc_tx_am_entity.cpp:565, 962).
THEOREM StopsAloud == Spec => []StopIsReported
<1>1. IInv => StopIsReported
  BY DEF IInv, TxInv, Counts, StopIsReported
<1> QED
  BY <1>1, Inductive, PTL

\* A transmitter that can send nothing before it hears of the peer, for there is
\* nothing but discarded SDUs in its queue, has t-PollRetransmit running, unless
\* a report took a retransmission back (rlc_tx_am_entity.cpp:759) or discarded
\* SDUs held back a poll (:1088, :1154) since the last poll for the newest SN.
THEOREM PollOnItsWay == Spec => []PollsOrSilent
<1>1. IInv => PollsOrSilent
  BY DEF IInv, TxInv
<1> QED
  BY <1>1, Inductive, PTL

LEMMA InvReceiver ==
  ASSUME IInv
  PROVE  ReceiverOrdered
<1>1. TxInv /\ RxInv
  BY DEF IInv
<1>2. /\ High \in Nat /\ Status \in Nat /\ High <= passed + Window /\ passed \in Nat
      /\ passed <= Status /\ Status <= High /\ Trigger \in Nat
      /\ rx_next = SnOf(passed) /\ rx_next_highest = SnOf(High)
      /\ rx_highest_status = SnOf(Status) /\ rx_next_status_trigger = SnOf(Trigger)
  BY <1>1, RxFacts DEF TxInv, RxInv, RxCounts
<1>3. \A i \in Nat : passed <= i /\ i <= High => Base(SnOf(i), SnOf(passed)) = i - passed
  <2> SUFFICES ASSUME NEW i \in Nat, passed <= i, i <= High
               PROVE  Base(SnOf(i), SnOf(passed)) = i - passed
    OBVIOUS
  <2>1. i < passed + SnMod
    BY <1>2, ConstantFacts
  <2> QED
    BY <1>2, <2>1, BaseAhead
<1>4. /\ Base(rx_highest_status, rx_next) = Status - passed
      /\ Base(rx_next_highest, rx_next) = High - passed
  BY <1>2, <1>3
<1>5. ASSUME reassembly_timer
      PROVE  /\ Base(rx_next_status_trigger, rx_next) \in 1 .. Window
             /\ Plus(rx_next_status_trigger, SnMod - 1) \in DOMAIN rx_window
  <2>1. passed < Trigger /\ Trigger <= High /\ SnOf(Trigger - 1) \in DOMAIN rx_window
    BY <1>1, <1>5 DEF RxInv, Timer
  <2>2. Base(rx_next_status_trigger, rx_next) = Trigger - passed
    BY <1>2, <1>3, <2>1
  <2>3. Plus(rx_next_status_trigger, SnMod - 1) = SnOf(Trigger - 1)
    BY <1>2, <2>1, PlusBack
  <2> QED
    BY <1>2, <2>1, <2>2, <2>3, ConstantFacts
<1>6. Status - passed <= High - passed /\ High - passed <= Window
  BY <1>2, ConstantFacts
<1> QED
  BY <1>1, <1>4, <1>5, <1>6 DEF ReceiverOrdered, RxInv, Stands

\* RX_Next, RX_Highest_Status and RX_Next_Highest keep their order, and the
\* trigger of t-Reassembly stays in reach (rlc_rx_am_entity.cpp:246-285, 306,
\* 728, 731).
THEOREM ReceiverSafe == Spec => []ReceiverOrdered
<1>1. IInv => ReceiverOrdered
  BY InvReceiver
<1> QED
  BY <1>1, Inductive, PTL

\* What is missing is in the reports, or t-Reassembly is running
\* (rlc_rx_am_entity.cpp:287-338).
THEOREM NoLossUnnoticed == Spec => []GapIsTimed
<1>1. IInv => GapIsTimed
  BY DEF IInv, RxInv
<1> QED
  BY <1>1, Inductive, PTL

\* The cached status report is the one that would be built now
\* (rlc_rx_am_entity.cpp:557).
THEOREM NoStaleReport == Spec => []ReportIsCurrent
<1>1. IInv => ReportIsCurrent
  BY DEF IInv, RxInv
<1> QED
  BY <1>1, Inductive, PTL

-----------------------------------------------------------------------------
(* The bearer implements AckedDelivery.                                    *)

\* A PDU completes an SDU that was not delivered before, nor lost, and delivers
\* it whole or loses it.
LEMMA PlaceDelivers ==
  ASSUME IInv, NEW pdu \in data, PlaceDataPdu(pdu), UNCHANGED txVars
  PROVE  \/ UNCHANGED Promised!vars
         \/ \E i \in SduIds : Promised!Deliver(i) \/ Promised!Lose(i)
<1>1. TxInv /\ RxInv /\ passed \in Nat
  BY DEF IInv, RxInv, RxCounts
<1>2. Inside(pdu.sn, rx_next) /\ ~FullyReceived(rx_window, pdu.sn)
  BY DEF PlaceDataPdu
<1>3. /\ pdu.id \in SduIds /\ pdu.id \in Nat /\ passed <= pdu.id /\ pdu.id < taken
      /\ pdu.sn = SnOf(pdu.id)
  BY <1>2, PduInside
<1>4. PICK h : h = IF pdu.id >= High THEN pdu.id + 1 ELSE High
  OBVIOUS
<1>5. h \in Nat /\ pdu.id < h /\ WindowOk(Store(pdu), passed, h)
  BY <1>2, <1>4, PlaceFacts
<1>6. UNCHANGED <<taken, acked>>
  BY DEF txVars, segVars, ackVars
<1>7. CASE ~FullyReceived(Store(pdu), pdu.sn)
  BY <1>6, <1>7 DEF PlaceDataPdu, Promised!vars
<1>8. CASE FullyReceived(Store(pdu), pdu.sn)
  <2>1. Store(pdu)[pdu.sn].got = Whole(pdu.id)
    <3>1. pdu.id \in passed .. h - 1
      BY <1>1, <1>3, <1>5
    <3> QED
      BY <1>1, <1>3, <1>5, <1>8, <3>1, FullIsWhole
  <2>2. ReassembleSdu(pdu.id, Whole(pdu.id))
    BY <1>8, <2>1 DEF PlaceDataPdu
  <2>3. pdu.id \notin Complete
    BY <1>1, <1>2, <1>3 DEF Complete
  <2>4. ASSUME NEW j \in Complete, Whole(pdu.id) = Whole(j) PROVE FALSE
    <3>1. <<pdu.id, 0>> \in Whole(pdu.id)
      BY <1>3, ConstantFacts DEF Whole
    <3>2. <<pdu.id, 0>> \in {j} \X (0 .. Length(j) - 1)
      BY <2>4, <3>1 DEF Whole
    <3>3. pdu.id = j
      BY <3>2
    <3> QED
      BY <2>3, <3>3
  <2>5. Whole(pdu.id) \notin DOMAIN delivered /\ Whole(pdu.id) \notin lost
    BY <1>1, <2>4 DEF RxInv, Delivered
  <2>6. ~Promised!Done(pdu.id)
    BY <2>5 DEF Promised!Done, Promised!BagIn, Promised!BagToSet
  <2>7. CASE delivered' = delivered (+) SetToBag({Whole(pdu.id)}) /\ UNCHANGED lost
    <3>1. Promised!Deliver(pdu.id)
      BY <1>3, <1>6, <2>6, <2>7
         DEF Promised!Deliver, Promised!SetToBag, Promised!(+), SetToBag, (+)
    <3> QED
      BY <1>3, <3>1
  <2>8. CASE pdu.id \in MayBeLost /\ lost' = lost \cup {Whole(pdu.id)} /\ UNCHANGED delivered
    <3>1. Promised!Lose(pdu.id)
      BY <1>3, <1>6, <2>6, <2>8 DEF Promised!Lose
    <3> QED
      BY <1>3, <3>1
  <2> QED
    BY <2>2, <2>7, <2>8 DEF ReassembleSdu
<1> QED
  BY <1>7, <1>8

\* What a report acknowledges was delivered, or lost by the receiver.
LEMMA ReportAcknowledges ==
  ASSUME IInv, ReceiveStatus
  PROVE  UNCHANGED Promised!vars \/ Promised!Acknowledge
<1>1. TxInv /\ RxInv /\ passed \in Nat /\ taken \in Nat /\ acked \in Nat
  BY DEF IInv, TxInv, TxCounts, RxInv, RxCounts
<1>2. PICK s \in status : HandleStatusPdu(s) /\ UNCHANGED rxVars
  BY DEF ReceiveStatus
<1>3. /\ UNCHANGED <<segVars, poll_sn, pdu_without_poll, byte_without_poll, max_retx_reached>>
      /\ UNCHANGED <<taken, delivered, lost>>
      /\ failed' = (failed \/ Accused(s))
  BY <1>2 DEF HandleStatusPdu, segVars, rxVars
<1>4. CASE ~Valid(s)
  BY <1>2, <1>3, <1>4 DEF HandleStatusPdu, ackVars, Promised!vars
<1>5. CASE Valid(s)
  <2>1. failed' \in BOOLEAN /\ ~failed'
    <3>1. failed' \in BOOLEAN
      BY <1>3, Zenon
    <3> QED
      BY <1>1, <1>3, <3>1, NotAccused DEF TxInv
  <2>2. ProcessStatus(s)
    BY <1>2, <1>5 DEF HandleStatusPdu
  <2>3. acked' \in Nat /\ acked <= acked' /\ acked' <= passed /\ acked' <= taken
    BY <1>3, <1>5, <2>1, <2>2, ProcessStep
  <2>4. PICK b \in Nat : acked' = b
    BY <2>3
  <2>5. \A i \in acked .. b - 1 : Promised!Done(i)
    <3> TAKE i \in acked .. b - 1
    <3>1. passed <= High /\ High \in Nat
      BY <1>1, RxFacts DEF TxInv, RxInv
    <3>2. b <= passed
      BY <2>3, <2>4
    <3>3. i \in 0 .. High - 1 /\ i < passed
      BY <1>1, <2>4, <3>1, <3>2
    <3>4. i \in Complete
      BY <3>3 DEF Complete
    <3>5. Whole(i) \in DOMAIN delivered \/ Whole(i) \in lost
      BY <1>1, <3>4 DEF RxInv, Delivered
    <3> QED
      BY <3>5 DEF Promised!Done, Promised!BagIn, Promised!BagToSet
  <2>6. CASE b = acked
    BY <1>3, <2>4, <2>6 DEF Promised!vars
  <2>7. CASE b # acked
    <3>1. b > acked /\ b <= taken
      BY <1>1, <2>3, <2>4, <2>7
    <3>2. \A i \in acked .. acked' - 1 : Promised!Done(i)
      BY <2>4, <2>5
    <3> QED
      BY <1>3, <2>4, <3>1, <3>2 DEF Promised!Acknowledge
  <2> QED
    BY <2>6, <2>7
<1> QED
  BY <1>4, <1>5

LEMMA NextPromised ==
  ASSUME IInv, [Next]_vars
  PROVE  [Promised!Next]_(Promised!vars)
<1>1. TxInv
  BY DEF IInv
<1>2. CASE Write \/ Discard \/ Drop
  BY <1>2 DEF Write, Discard, Drop, HandleSdu, DiscardSdu, DropDiscarded, segVars, ackVars,
              rxVars, Promised!vars
<1>3. CASE Pull
  <2>1. PICK n \in Grants : BuildNewPdu(n) \/ BuildContinuedSduSegment(n) \/ BuildRetxPdu(n)
    BY <1>3 DEF Pull, PullPdu
  <2>2. UNCHANGED <<delivered, lost>>
    BY <1>3 DEF Pull, rxVars
  <2>3. CASE BuildNewPdu(n)
    <3>1. /\ Purged(sdu_queue) # <<>> /\ ~WindowFull(tx_window)
          /\ taken' = taken + 1 /\ acked' = acked
      BY <2>3 DEF BuildNewPdu, ackVars
    <3>2. /\ taken \in Nat /\ acked \in Nat /\ acked <= taken /\ taken <= acked + Window
          /\ DOMAIN tx_window = SnRange(acked, taken) /\ taken + 1 <= Len(Lens)
      BY <1>1, <3>1, QueueTaken DEF TxInv, TxCounts, TxWindow, QueueOk
    <3>3. taken - acked < Window
      BY <3>1, <3>2, WindowFullFacts, ConstantFacts
    <3>4. taken \in SduIds
      BY <3>1, <3>2, ConstantFacts DEF SduIds
    <3> QED
      BY <2>2, <3>1, <3>3, <3>4 DEF Promised!Next, Promised!SendNext
  <2>4. CASE BuildContinuedSduSegment(n) \/ BuildRetxPdu(n)
    <3>1. UNCHANGED <<taken, acked>>
      BY <2>4 DEF BuildContinuedSduSegment, BuildRetxPdu, ackVars, segVars
    <3> QED
      BY <2>2, <3>1 DEF Promised!vars
  <2> QED
    BY <2>1, <2>3, <2>4
<1>4. CASE ReceiveStatus
  BY <1>4, ReportAcknowledges DEF Promised!Next
<1>5. CASE PollExpire
  BY <1>5 DEF PollExpire, PollRetransmitExpires, segVars, ackVars, rxVars, Promised!vars
<1>6. CASE ReceiveData
  <2>1. PICK pdu \in data : (DropDataPdu(pdu) \/ PlaceDataPdu(pdu)) /\ UNCHANGED txVars
    BY <1>6 DEF ReceiveData, HandleDataPdu
  <2>2. CASE DropDataPdu(pdu)
    BY <2>1, <2>2 DEF DropDataPdu, txVars, segVars, ackVars, Promised!vars
  <2>3. CASE PlaceDataPdu(pdu)
    BY <2>1, <2>3, PlaceDelivers DEF Promised!Next
  <2> QED
    BY <2>1, <2>2, <2>3
<1>7. CASE Answer \/ ProhibitExpire \/ ReassemblyExpire
  BY <1>7 DEF Answer, SendStatus, ProhibitExpire, ProhibitExpires, ReassemblyExpire,
              ReassemblyExpires, txVars, segVars, ackVars, Promised!vars
<1>8. CASE UNCHANGED vars
  BY <1>8 DEF vars, txVars, segVars, ackVars, rxVars, Promised!vars
<1> QED
  BY <1>2, <1>3, <1>4, <1>5, <1>6, <1>7, <1>8 DEF Next, Work

\* Over a channel that loses and reorders PDUs the bearer implements
\* AckedDelivery: every SDU is handed up at most once and whole, and the
\* transmitter forgets it only after it was, or after the receiver lost it for
\* want of buffers (rlc_rx_am_entity.cpp:226-229, 246, rlc_tx_am_entity.cpp:717).
THEOREM Implements == Spec => KeepsDelivery
<1>1. Init => Promised!Init
  BY DEF Init, TxInit, RxInit, Promised!Init, Promised!EmptyBag, Promised!SetToBag,
         EmptyBag, SetToBag
<1>2. IInv /\ [Next]_vars => [Promised!Next]_(Promised!vars)
  BY NextPromised
<1> QED
  BY <1>1, <1>2, Inductive, PTL DEF Spec, KeepsDelivery, Promised!Spec
=============================================================================
