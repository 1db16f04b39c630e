---------------------------- MODULE PdcpRx_proofs ----------------------------
(***************************************************************************)
(* Proofs about the receiving PDCP entity, for every SN and HFN size, every *)
(* number of crypto workers and every queue capacity.                      *)
(***************************************************************************)
EXTENDS PdcpRx, FiniteSetTheorems, TLAPS

-----------------------------------------------------------------------------
(* Arithmetic of SN, HFN and COUNT.                                        *)

LEMMA WindowFacts ==
  /\ Window \in Nat /\ Window > 0 /\ SnMod = 2 * Window
  /\ HfnMod * SnMod \in Nat /\ HfnMod * SnMod >= SnMod
BY WindowAssumption DEF Window

\* COUNTs are an initial interval of the natural numbers.
LEMMA CountFacts ==
  /\ 0 \in Count /\ Count \subseteq Nat
  /\ \A c \in Count : \A d \in Nat : d <= c => d \in Count
BY WindowFacts, WindowAssumption DEF Count

LEMMA SplitCount ==
  ASSUME NEW c \in Nat
  PROVE  /\ SN(c) \in 0 .. (SnMod - 1) /\ HFN(c) \in Nat
         /\ c = HFN(c) * SnMod + SN(c)
BY WindowAssumption DEF SN, HFN

LEMMA CountType ==
  ASSUME NEW hfn \in Int, NEW sn \in 0 .. (SnMod - 1)
  PROVE  COUNT(hfn, sn) \in Count
<1> DEFINE h == hfn % HfnMod
<1>1. h \in 0 .. (HfnMod - 1)
  BY WindowAssumption
<1>2. h * SnMod \in Nat /\ h * SnMod <= (HfnMod - 1) * SnMod
  BY <1>1, WindowAssumption
<1>3. (HfnMod - 1) * SnMod = HfnMod * SnMod - SnMod
  BY WindowAssumption
<1> QED
  BY <1>2, <1>3, WindowFacts DEF COUNT, Count

LEMMA RcvdCountType ==
  ASSUME NEW deliv \in Count, NEW sn \in 0 .. (SnMod - 1)
  PROVE  RcvdCount(deliv, sn) \in Count
<1>1. deliv \in Nat /\ HFN(deliv) \in Int
  BY SplitCount, CountFacts
<1> QED
  BY <1>1, CountType DEF RcvdCount

-----------------------------------------------------------------------------
(* The types of the variables.                                             *)

LEMMA InitType == Init => TypeOK
<1> SUFFICES ASSUME Init PROVE TypeOK
  OBVIOUS
<1>1. RxTypeOK
  BY CountFacts DEF Init, RxTypeOK, Empty, NothingDelivered
<1>2. FlightTypeOK
  BY BoundAssumption DEF Init, FlightTypeOK
<1>3. /\ pdu_buffer \in Seq(Pdu) /\ Len(pdu_buffer) <= PduBufferSize
      /\ tokens \in Int /\ key \in 1 .. MaxKey
  BY BoundAssumption DEF Init
<1>4. BufTypeOK /\ MngrTypeOK /\ MaxTypeOK
  BY <1>3, Zenon DEF Init, BufTypeOK, MngrTypeOK, MaxTypeOK
<1>5. CtrlTypeOK
  BY <1>3, Zenon DEF Init, CtrlTypeOK
<1> QED
  BY <1>1, <1>2, <1>3, <1>4, <1>5 DEF TypeOK

\* One lemma for each group of variables that an action may leave alone.
LEMMA UnchangedTypes ==
  /\ RxTypeOK /\ UNCHANGED <<rxVars, delivered>> => RxTypeOK'
  /\ FlightTypeOK /\ UNCHANGED flight => FlightTypeOK'
  /\ MngrTypeOK /\ UNCHANGED mngrVars => MngrTypeOK'
  /\ MaxTypeOK /\ UNCHANGED maxVars => MaxTypeOK'
  /\ BufTypeOK /\ UNCHANGED bufVars => BufTypeOK'
  /\ CtrlTypeOK /\ UNCHANGED ctrlVars => CtrlTypeOK'
<1>1. RxTypeOK /\ UNCHANGED <<rxVars, delivered>> => RxTypeOK'
  BY DEF RxTypeOK, rxVars, st
<1>2. FlightTypeOK /\ UNCHANGED flight => FlightTypeOK'
  BY DEF FlightTypeOK, flight
<1>3. /\ MngrTypeOK /\ UNCHANGED mngrVars => MngrTypeOK'
      /\ MaxTypeOK /\ UNCHANGED maxVars => MaxTypeOK'
      /\ BufTypeOK /\ UNCHANGED bufVars => BufTypeOK'
  BY DEF MngrTypeOK, mngrVars, MaxTypeOK, maxVars, BufTypeOK, bufVars
<1>4. CtrlTypeOK /\ UNCHANGED ctrlVars => CtrlTypeOK'
  BY DEF CtrlTypeOK, ctrlVars
<1> QED
  BY <1>1, <1>2, <1>3, <1>4

LEMMA ReturnTokenType ==
  ASSUME MngrTypeOK, ReturnToken
  PROVE  MngrTypeOK'
<1>1. tokens' \in Int
  BY DEF MngrTypeOK, ReturnToken
<1>2. pending_crypto' \in BOOLEAN
  BY DEF MngrTypeOK, ReturnToken
<1> QED
  BY <1>1, <1>2 DEF MngrTypeOK

LEMMA HandleDataPduType ==
  ASSUME TypeOK, NEW pdu \in Pdu, HandleDataPdu(pdu)
  PROVE  /\ crypto' \in [CryptoSlots -> CryptoTask \cup {None}]
         /\ MngrTypeOK' /\ MaxTypeOK'
<1> DEFINE count == RcvdCount(rx_deliv, SN(pdu.count))
<1>1. pdu.count \in Nat
  BY BoundAssumption, CountFacts DEF Pdu
<1>2. count \in Count
  BY <1>1, SplitCount, RcvdCountType DEF TypeOK, RxTypeOK
<1>3. count < MaxCountHard => [count |-> count, pdu |-> pdu] \in CryptoTask
  BY <1>2 DEF CryptoTask, Accepted
<1> HIDE DEF count
<1>4. crypto' \in [CryptoSlots -> CryptoTask \cup {None}]
  BY <1>3 DEF TypeOK, FlightTypeOK, HandleDataPdu, count
<1>5. max_count_notified' \in BOOLEAN /\ rrc_notified' \in BOOLEAN
  BY DEF TypeOK, MaxTypeOK, HandleDataPdu
<1>6. max_count_overflow' \in BOOLEAN
  BY DEF TypeOK, MaxTypeOK, HandleDataPdu
<1>7. tokens' \in Int
  BY DEF TypeOK, MngrTypeOK, HandleDataPdu, mngrVars
<1>8. pending_crypto' \in BOOLEAN
  BY DEF TypeOK, MngrTypeOK, HandleDataPdu, mngrVars
<1> QED
  BY <1>4, <1>5, <1>6, <1>7, <1>8 DEF MngrTypeOK, MaxTypeOK

LEMMA DeliverType ==
  ASSUME NEW w \in [Count -> Pdu \cup {None}], NEW S,
         delivered \in [Count -> Seq(Pdu)], Deliver(w, S)
  PROVE  delivered' \in [Count -> Seq(Pdu)]
BY DEF Deliver, HasSn

LEMMA DeliverUpToType ==
  ASSUME NEW w \in [Count -> Pdu \cup {None}], NEW to \in Count,
         delivered \in [Count -> Seq(Pdu)], DeliverUpTo(w, to)
  PROVE  /\ rx_deliv' \in Count
         /\ rx_window' \in [Count -> Pdu \cup {None}]
         /\ delivered' \in [Count -> Seq(Pdu)]
<1>1. delivered' \in [Count -> Seq(Pdu)]
  BY DeliverType DEF DeliverUpTo
<1> QED
  BY <1>1 DEF DeliverUpTo, RemoveAll

\* A state that starts again at zero.
LEMMA ResetType ==
  ASSUME RxTypeOK, ResetState,
         \/ Deliver(rx_window, rx_deliv .. (rx_next - 1))
         \/ delivered' = NothingDelivered
  PROVE  RxTypeOK'
<1>1. rx_next' \in Count /\ rx_deliv' \in Count /\ rx_reord' \in Count
  BY CountFacts DEF ResetState
<1>2. rx_window' \in [Count -> Pdu \cup {None}] /\ reordering_timer' \in BOOLEAN
  BY DEF ResetState, RemoveAll, RxTypeOK
<1>3. CASE Deliver(rx_window, rx_deliv .. (rx_next - 1))
  BY <1>1, <1>2, <1>3, DeliverType DEF RxTypeOK
<1>4. CASE delivered' = NothingDelivered
  BY <1>1, <1>2, <1>4 DEF RxTypeOK, NothingDelivered
<1> QED
  BY <1>3, <1>4

LEMMA TakeUeTaskType ==
  ASSUME TypeOK, NEW verdict, TakeUeTask(verdict)
  PROVE  /\ Head(ue_queue) \in UeTask
         /\ FlightTypeOK' /\ MngrTypeOK' /\ MaxTypeOK' /\ BufTypeOK' /\ CtrlTypeOK'
<1>1. Head(ue_queue) \in UeTask /\ FlightTypeOK'
  BY BoundAssumption DEF TypeOK, FlightTypeOK, TakeUeTask
<1> QED
  BY <1>1, ReturnTokenType, UnchangedTypes DEF TypeOK, TakeUeTask

LEMMA StorePduType ==
  ASSUME TypeOK, StorePdu
  PROVE  TypeOK'
<1> DEFINE count == Head(ue_queue).count
           w     == AddSn(rx_window, count, Head(ue_queue).pdu)
           next  == IF count >= rx_next THEN count + 1 ELSE rx_next
<1>1. TakeUeTask("success")
  BY DEF StorePdu
<1>2. count \in Count /\ count + 1 \in Count /\ Head(ue_queue).pdu \in Pdu
  BY <1>1, TakeUeTaskType, MaxCountAssumption, WindowFacts
     DEF UeTask, Accepted, Count
<1>3. w \in [Count -> Pdu \cup {None}]
  BY <1>2 DEF AddSn, TypeOK, RxTypeOK
<1>4. next \in Count
  BY <1>2 DEF TypeOK, RxTypeOK
<1>5. PICK to \in rx_deliv .. next :
           DeliverUpTo(w, to) /\ HandleReorderingTimers(next, to)
  BY DEF StorePdu
<1>6. to \in Count
  <2>1. rx_deliv \in Nat /\ next \in Nat
    BY <1>4, CountFacts DEF TypeOK, RxTypeOK
  <2> HIDE DEF next
  <2>2. to \in Nat /\ to <= next
    BY <1>5, <2>1
  <2> QED
    BY <1>4, <2>2, CountFacts
<1>7. /\ rx_deliv' \in Count
      /\ rx_window' \in [Count -> Pdu \cup {None}]
      /\ delivered' \in [Count -> Seq(Pdu)]
  BY <1>3, <1>5, <1>6, DeliverUpToType DEF TypeOK, RxTypeOK
<1>8. rx_next' = next /\ rx_reord' \in Count /\ reordering_timer' \in BOOLEAN
  BY <1>4, <1>5 DEF StorePdu, HandleReorderingTimers, TypeOK, RxTypeOK
<1>9. RxTypeOK'
  BY <1>4, <1>7, <1>8 DEF RxTypeOK
<1> QED
  BY <1>1, <1>9, TakeUeTaskType DEF TypeOK

LEMMA ExpireType ==
  ASSUME TypeOK, ReorderingExpire
  PROVE  TypeOK'
<1>1. CASE stopped
  <2>1. RxTypeOK'
    BY <1>1 DEF ReorderingExpire, TypeOK, RxTypeOK, st
  <2> QED
    BY <2>1, UnchangedTypes DEF ReorderingExpire, TypeOK
<1>2. CASE ~stopped
  <2>1. PICK to \in rx_reord .. rx_next :
          /\ DeliverUpTo(rx_window, to)
          /\ reordering_timer' = (to < rx_next)
          /\ rx_reord' = IF to < rx_next THEN rx_next ELSE rx_reord
    BY <1>2 DEF ReorderingExpire
  <2>2. rx_reord \in Nat /\ rx_next \in Nat /\ rx_next \in Count /\ rx_reord \in Count
    BY CountFacts DEF TypeOK, RxTypeOK
  <2>3. to \in Count
    BY <2>1, <2>2, CountFacts
  <2>4. /\ rx_deliv' \in Count
        /\ rx_window' \in [Count -> Pdu \cup {None}]
        /\ delivered' \in [Count -> Seq(Pdu)]
    BY <2>1, <2>3, DeliverUpToType DEF TypeOK, RxTypeOK
  <2>5. rx_next' = rx_next /\ rx_reord' \in Count /\ reordering_timer' \in BOOLEAN
    BY <1>2, <2>1, <2>2 DEF ReorderingExpire
  <2>6. RxTypeOK'
    BY <2>2, <2>4, <2>5 DEF RxTypeOK
  <2> QED
    BY <2>6, UnchangedTypes DEF ReorderingExpire, TypeOK
<1> QED
  BY <1>1, <1>2

LEMMA HandlePduType ==
  ASSUME TypeOK, NEW pdu \in Arriving, HandlePdu(pdu)
  PROVE  TypeOK'
<1>1. pdu \in Pdu
  BY DEF Arriving
<1>2. RxTypeOK' /\ CtrlTypeOK'
  BY UnchangedTypes DEF HandlePdu, TypeOK, CtrlTypeOK
<1>3. CASE buffering
  <2>1. BufTypeOK'
    BY <1>1, <1>3, BoundAssumption DEF HandlePdu, TypeOK, BufTypeOK
  <2>2. FlightTypeOK' /\ MngrTypeOK' /\ MaxTypeOK'
    BY <1>3, UnchangedTypes DEF HandlePdu, TypeOK, flight
  <2> QED
    BY <1>2, <2>1, <2>2 DEF TypeOK
<1>4. CASE ~buffering
  <2>1. BufTypeOK'
    BY <1>4 DEF HandlePdu, TypeOK, BufTypeOK
  <2>2. HandleDataPdu(pdu) /\ UNCHANGED ue_queue
    BY <1>4 DEF HandlePdu
  <2>3. FlightTypeOK' /\ MngrTypeOK' /\ MaxTypeOK'
    BY <1>1, <2>2, HandleDataPduType DEF TypeOK, FlightTypeOK
  <2> QED
    BY <1>2, <2>1, <2>3 DEF TypeOK
<1> QED
  BY <1>3, <1>4

LEMMA FlushType ==
  ASSUME TypeOK, Flush
  PROVE  TypeOK'
<1>1. RxTypeOK' /\ CtrlTypeOK'
  BY UnchangedTypes DEF Flush, TypeOK, CtrlTypeOK
<1>2. CASE pdu_buffer = <<>>
  BY <1>1, <1>2, UnchangedTypes DEF Flush, TypeOK, flight, bufVars
<1>3. CASE pdu_buffer # <<>>
  <2>1. /\ Head(pdu_buffer) \in Pdu /\ Tail(pdu_buffer) \in Seq(Pdu)
        /\ Len(Tail(pdu_buffer)) <= PduBufferSize
    BY <1>3, BoundAssumption DEF TypeOK, BufTypeOK
  <2>2. BufTypeOK'
    BY <1>3, <2>1 DEF Flush, TypeOK, BufTypeOK
  <2>3. HandleDataPdu(Head(pdu_buffer)) /\ UNCHANGED ue_queue
    BY <1>3 DEF Flush
  <2>4. FlightTypeOK' /\ MngrTypeOK' /\ MaxTypeOK'
    BY <2>1, <2>3, HandleDataPduType DEF TypeOK, FlightTypeOK
  <2> QED
    BY <1>1, <2>2, <2>4 DEF TypeOK
<1> QED
  BY <1>2, <1>3

LEMMA ApplySecurityType ==
  ASSUME TypeOK, NEW s \in CryptoSlots, ApplySecurity(s)
  PROVE  TypeOK'
<1>1. crypto[s] \in CryptoTask /\ crypto' \in [CryptoSlots -> CryptoTask \cup {None}]
  BY DEF ApplySecurity, TypeOK, FlightTypeOK
<1>2. [verdict |-> Decipher(crypto[s]), count |-> crypto[s].count,
       pdu |-> crypto[s].pdu] \in UeTask
  BY <1>1 DEF CryptoTask, UeTask, Decipher, Verdict
<1>3. FlightTypeOK'
  BY <1>1, <1>2, BoundAssumption DEF ApplySecurity, TypeOK, FlightTypeOK
<1>4. MngrTypeOK'
  BY ReturnTokenType, UnchangedTypes DEF ApplySecurity, TypeOK
<1> QED
  BY <1>3, <1>4, UnchangedTypes DEF ApplySecurity, TypeOK

LEMMA NextType ==
  ASSUME TypeOK, [Next]_vars
  PROVE  TypeOK'
<1> USE DEF TypeOK
<1>1. ASSUME NEW pdu \in Arriving, HandlePdu(pdu) PROVE TypeOK'
  BY <1>1, HandlePduType
<1>2. CASE Flush
  BY <1>2, FlushType
<1>3. ASSUME NEW s \in CryptoSlots, ApplySecurity(s) PROVE TypeOK'
  BY <1>3, ApplySecurityType
<1>4. CASE SecurityFailure \/ DropPdu
  BY <1>4, TakeUeTaskType, UnchangedTypes DEF SecurityFailure, DropPdu
<1>5. CASE StorePdu
  BY <1>5, StorePduType
<1>6. CASE ReorderingExpire
  BY <1>6, ExpireType
<1>7. ASSUME NEW kind \in {"suspend", "rekey", "resume"}, BeginRoutine(kind)
      PROVE  TypeOK'
  <2>1. CtrlTypeOK'
    <3>1. kind \in {"rekey", "resume"} => key + 1 \in 1 .. MaxKey
      BY <1>7, BoundAssumption DEF BeginRoutine, CtrlTypeOK
    <3>2. suspended' \in BOOLEAN /\ resume_requested' \in BOOLEAN
      BY <1>7 DEF BeginRoutine, CtrlTypeOK
    <3> QED
      BY <1>7, <3>1, <3>2 DEF BeginRoutine, CtrlTypeOK, Awaiting
  <2>2. BufTypeOK'
    BY <1>7 DEF BeginRoutine, BeginBuffering, BufTypeOK
  <2> QED
    BY <1>7, <2>1, <2>2, ReturnTokenType, UnchangedTypes DEF BeginRoutine
<1>8. ASSUME Suspend \/ Rekey PROVE TypeOK'
  <2>1. CtrlTypeOK'
    BY <1>8, Zenon DEF Suspend, Rekey, CtrlTypeOK
  <2>2. RxTypeOK'
    BY <1>8, ResetType, UnchangedTypes DEF Suspend, Rekey
  <2>3. MaxTypeOK'
    BY <1>8 DEF Suspend, Rekey, MaxTypeOK, maxVars
  <2>4. tokens' \in Int
    BY <1>8 DEF Suspend, Rekey, StartTokens, MngrTypeOK
  <2>5. pending_crypto' \in BOOLEAN
    BY <1>8 DEF Suspend, Rekey, StartTokens
  <2>6. MngrTypeOK'
    BY <2>4, <2>5 DEF MngrTypeOK
  <2> QED
    BY <1>8, <2>1, <2>2, <2>3, <2>6, UnchangedTypes DEF Suspend, Rekey
<1>9. CASE ModifyBearer
  <2>1. CtrlTypeOK'
    BY <1>9 DEF ModifyBearer, CtrlTypeOK
  <2>2. CASE Reestablish
    BY <1>9, <2>1, <2>2, ResetType, UnchangedTypes DEF ModifyBearer, Reestablish
  <2>3. ASSUME NEW c \in PeerCounts, SetCount(c) PROVE RxTypeOK'
    BY <2>3, BoundAssumption DEF SetCount, RxTypeOK
  <2> QED
    BY <1>9, <2>1, <2>2, <2>3, UnchangedTypes DEF ModifyBearer
<1>10. CASE EndBuffering
  <2>1. BufTypeOK' /\ CtrlTypeOK'
    BY <1>10 DEF EndBuffering, BufTypeOK, CtrlTypeOK
  <2>2. RxTypeOK'
    BY <1>10 DEF EndBuffering, RxTypeOK, NothingDelivered, rxVars, st
  <2> QED
    BY <1>10, <2>1, <2>2, UnchangedTypes DEF EndBuffering
<1>11. CASE ReestablishSrb
  <2>1. CtrlTypeOK'
    <3>1. key' \in 1 .. MaxKey
      BY <1>11, BoundAssumption DEF ReestablishSrb, CtrlTypeOK
    <3> QED
      BY <1>11, <3>1, Zenon DEF ReestablishSrb, CtrlTypeOK
  <2>2. MaxTypeOK'
    BY <1>11 DEF ReestablishSrb, MaxTypeOK
  <2> QED
    BY <1>11, <2>1, <2>2, ResetType, UnchangedTypes DEF ReestablishSrb
<1>12. ASSUME Stop, destroyed' \in BOOLEAN PROVE TypeOK'
  <2>1. CtrlTypeOK'
    BY <1>12 DEF Stop, CtrlTypeOK
  <2>2. RxTypeOK'
    BY <1>12 DEF Stop, RxTypeOK, st
  <2> QED
    BY <1>12, <2>1, <2>2, ReturnTokenType, UnchangedTypes DEF Stop
<1>13. CASE StopForRelease \/ RemoveSession
  BY <1>12, <1>13 DEF StopForRelease, RemoveSession, CtrlTypeOK
<1>14. CASE Destroy
  <2>1. CtrlTypeOK'
    BY <1>14 DEF Destroy, CtrlTypeOK
  <2> QED
    BY <1>14, <2>1, UnchangedTypes DEF Destroy
<1>15. CASE UNCHANGED vars
  BY <1>15, UnchangedTypes DEF vars, ctrlVars
<1> QED
  BY <1>1, <1>2, <1>3, <1>4, <1>5, <1>6, <1>7, <1>8, <1>9, <1>10, <1>11,
     <1>13, <1>14, <1>15 DEF Next

\* Every variable keeps its type; no COUNT leaves its 32 bits, and no task
\* carries a COUNT that the hard maximum refuses (pdcp_entity_rx.cpp:355).
THEOREM TypeCorrect == Spec => []TypeOK
  BY InitType, NextType, PTL DEF Spec

-----------------------------------------------------------------------------
(* Crypto tokens.  The manager holds one token of its own, which it owes to *)
(* nobody until stop() gives it back: tokens counts the tasks in flight,    *)
(* less that one.                                                          *)

Busy     == {s \in CryptoSlots : crypto[s] # None}
InFlight == Cardinality(Busy) + Len(ue_queue)
Owed     == IF stopped \/ routine \in Awaiting THEN 1 ELSE 0

TokenInv ==
  /\ tokens = InFlight - Owed
  /\ pending_crypto => Owed = 1 /\ InFlight = 0
  /\ stopped => routine = "idle"
  /\ routine \in Awaiting => buffering
  /\ routine \in {"modify", "end_buffering"} => buffering /\ InFlight = 0

LEMMA FlightFacts ==
  ASSUME TypeOK
  PROVE  /\ IsFiniteSet(Busy) /\ Cardinality(Busy) \in Nat
         /\ Len(ue_queue) \in Nat /\ InFlight \in Nat
         /\ InFlight = 0 <=> NothingInFlight
<1>1. IsFiniteSet(Busy)
  BY BoundAssumption, FS_Subset DEF Busy
<1>2. Cardinality(Busy) \in Nat /\ (Cardinality(Busy) = 0 <=> Busy = {})
  BY <1>1, FS_CardinalityType, FS_EmptySet
<1>3. Len(ue_queue) \in Nat /\ (Len(ue_queue) = 0 <=> ue_queue = <<>>)
  BY DEF TypeOK, FlightTypeOK
<1>4. Busy = {} <=> \A s \in CryptoSlots : crypto[s] = None
  BY DEF Busy
<1> QED
  BY <1>1, <1>2, <1>3, <1>4 DEF InFlight, NothingInFlight

\* A PDU that is accepted takes one token, a PDU that is refused or dropped
\* leaves all as it was.
LEMMA HandleDataPduTokens ==
  ASSUME TypeOK, NEW pdu \in Pdu, HandleDataPdu(pdu), UNCHANGED ue_queue,
         TokenInv, Owed = 0
  PROVE  tokens' = InFlight' /\ ~pending_crypto'
<1> DEFINE count == RcvdCount(rx_deliv, SN(pdu.count))
<1>1. tokens = InFlight /\ ~pending_crypto /\ InFlight \in Nat
  BY FlightFacts DEF TokenInv
<1>2. CASE UNCHANGED crypto /\ UNCHANGED tokens
  <2>1. InFlight' = InFlight
    BY <1>2 DEF InFlight, Busy
  <2>2. tokens + 1 # 0
    BY <1>1
  <2>3. ~pending_crypto'
    BY <1>1, <2>2, Zenon DEF HandleDataPdu, mngrVars
  <2> QED
    BY <1>1, <1>2, <2>1, <2>3
<1>3. ASSUME NEW s \in CryptoSlots, crypto[s] = None, count < MaxCountHard,
             crypto' = [crypto EXCEPT ![s] = [count |-> count, pdu |-> pdu]],
             tokens' = tokens + 1, UNCHANGED pending_crypto
      PROVE  tokens' = InFlight' /\ ~pending_crypto'
  <2>1. count \in Count
    BY BoundAssumption, CountFacts, SplitCount, RcvdCountType
       DEF Pdu, TypeOK, RxTypeOK
  <2>2. [count |-> count, pdu |-> pdu] # None
    BY <1>3, <2>1, NoneAssumption DEF CryptoTask, Accepted
  <2> HIDE DEF count
  <2>3. Busy' = Busy \cup {s} /\ s \notin Busy
    BY <1>3, <2>2 DEF Busy, TypeOK, FlightTypeOK
  <2>4. Cardinality(Busy') = Cardinality(Busy) + 1
    BY <2>3, FlightFacts, FS_AddElement
  <2>5. InFlight' = InFlight + 1
    BY <2>4, FlightFacts DEF InFlight
  <2> QED
    BY <1>1, <1>3, <2>5
<1> QED
  BY <1>2, <1>3 DEF HandleDataPdu, mngrVars

\* The last of several tasks in flight leaves the manager's own token, and
\* the event is set when that one was given back before.
LEMMA ReturnTokenCounts ==
  ASSUME TypeOK, TokenInv, ReturnToken, InFlight > 0, InFlight' = InFlight - 1,
         UNCHANGED <<stopped, routine, buffering>>
  PROVE  TokenInv'
<1>1. Owed' = Owed /\ Owed \in {0, 1}
  BY DEF Owed
<1>2. ~pending_crypto /\ routine \notin {"modify", "end_buffering"}
  BY FlightFacts DEF TokenInv
<1>3. tokens' = InFlight' - Owed'
  BY <1>1, FlightFacts DEF TokenInv, ReturnToken
<1>4. ASSUME pending_crypto' PROVE tokens = 0
  BY <1>2, <1>4 DEF ReturnToken
<1>5. pending_crypto' => Owed' = 1 /\ InFlight' = 0
  BY <1>1, <1>4, FlightFacts DEF TokenInv
<1> QED
  BY <1>2, <1>3, <1>5 DEF TokenInv

LEMMA ApplySecurityTokens ==
  ASSUME TypeOK, TokenInv, NEW s \in CryptoSlots, ApplySecurity(s)
  PROVE  TokenInv'
<1>1. Busy' = Busy \ {s} /\ s \in Busy
  BY DEF ApplySecurity, Busy, TypeOK, FlightTypeOK
<1>2. Cardinality(Busy') = Cardinality(Busy) - 1 /\ Cardinality(Busy) \in Nat \ {0}
  BY <1>1, FlightFacts, FS_RemoveElement, FS_EmptySet, FS_CardinalityType
<1>3. Owed' = Owed /\ UNCHANGED <<stopped, routine, buffering>>
  BY DEF ApplySecurity, Owed, ctrlVars, bufVars
<1>4. InFlight > 0 /\ ~pending_crypto /\ routine \notin {"modify", "end_buffering"}
  BY <1>2, FlightFacts DEF InFlight, TokenInv
<1>5. CASE Len(ue_queue) < UeQueueSize
  <2>1. Len(ue_queue') = Len(ue_queue) + 1 /\ UNCHANGED <<tokens, pending_crypto>>
    <3>1. ~(Len(ue_queue) >= UeQueueSize)
      BY <1>5, BoundAssumption DEF TypeOK, FlightTypeOK
    <3>2. UNCHANGED mngrVars /\ \E task : ue_queue' = Append(ue_queue, task)
      BY <3>1 DEF ApplySecurity
    <3> QED
      BY <3>2 DEF mngrVars, TypeOK, FlightTypeOK
  <2>2. InFlight' = InFlight
    BY <1>2, <2>1, FlightFacts DEF InFlight
  <2> QED
    BY <1>3, <1>4, <2>1, <2>2 DEF TokenInv
<1>6. CASE Len(ue_queue) >= UeQueueSize
  <2>1. UNCHANGED ue_queue /\ ReturnToken
    BY <1>6, BoundAssumption DEF ApplySecurity, TypeOK, FlightTypeOK
  <2>2. InFlight' = InFlight - 1
    BY <1>2, <2>1, FlightFacts DEF InFlight
  <2> QED
    BY <1>3, <1>4, <2>1, <2>2, ReturnTokenCounts
<1> QED
  BY <1>5, <1>6, BoundAssumption, FlightFacts

LEMMA TakeUeTaskTokens ==
  ASSUME TypeOK, TokenInv, NEW verdict, TakeUeTask(verdict)
  PROVE  TokenInv'
<1>1. Len(ue_queue) > 0 /\ Len(ue_queue') = Len(ue_queue) - 1 /\ UNCHANGED crypto
  BY DEF TakeUeTask, TypeOK, FlightTypeOK
<1>2. Owed' = Owed /\ UNCHANGED <<stopped, routine, buffering>>
  BY DEF TakeUeTask, Owed, ctrlVars, bufVars
<1>3. Cardinality(Busy') = Cardinality(Busy)
  BY <1>1 DEF Busy
<1>4. InFlight' = InFlight - 1 /\ InFlight > 0
  BY <1>1, <1>3, FlightFacts DEF InFlight
<1> QED
  BY <1>2, <1>4, ReturnTokenCounts DEF TakeUeTask

\* What is in flight stays when the tasks stay.
LEMMA SameFlight == UNCHANGED flight => InFlight' = InFlight
BY DEF flight, InFlight, Busy

LEMMA StopTokens ==
  ASSUME TypeOK, TokenInv, Stop, ~stopped, routine = "idle"
  PROVE  TokenInv'
<1>1. Owed = 0 /\ Owed' = 1 /\ InFlight' = InFlight
  BY SameFlight DEF Owed, Stop, Awaiting
<1>2. tokens' = InFlight' - 1 /\ tokens = InFlight /\ ~pending_crypto
  BY <1>1, FlightFacts DEF TokenInv, Stop, ReturnToken
<1>3. pending_crypto' => InFlight' = 0
  BY <1>1, <1>2 DEF Stop, ReturnToken
<1> QED
  BY <1>1, <1>2, <1>3 DEF TokenInv, Stop, Awaiting

LEMMA NextTokens ==
  ASSUME TypeOK, TokenInv, [Next]_vars
  PROVE  TokenInv'
<1>1. ASSUME NEW pdu \in Arriving, HandlePdu(pdu) PROVE TokenInv'
  <2>1. pdu \in Pdu /\ UNCHANGED <<ue_queue, buffering, stopped, routine>>
    BY <1>1 DEF Arriving, HandlePdu
  <2>2. CASE buffering
    <3>1. UNCHANGED flight /\ UNCHANGED mngrVars
      BY <1>1, <2>2 DEF HandlePdu, flight
    <3> QED
      BY <2>1, <3>1, SameFlight DEF TokenInv, Owed, mngrVars
  <2>3. CASE ~buffering
    <3>1. Owed = 0 /\ Owed' = 0
          /\ routine \notin {"modify", "end_buffering"} \cup Awaiting
      BY <1>1, <2>1, <2>3 DEF HandlePdu, TokenInv, Owed
    <3>2. tokens' = InFlight' /\ ~pending_crypto'
      BY <1>1, <2>1, <2>3, <3>1, HandleDataPduTokens DEF HandlePdu
    <3>3. tokens' = InFlight' - Owed'
      BY <1>1, <3>1, <3>2, NextType DEF Next, TypeOK, MngrTypeOK
    <3>4. ~stopped' /\ routine' \notin {"modify", "end_buffering"} \cup Awaiting
      BY <1>1, <2>1, <3>1 DEF HandlePdu
    <3> QED
      BY <3>2, <3>3, <3>4, Zenon DEF TokenInv
  <2> QED
    BY <2>2, <2>3
<1>2. CASE Flush
  <2>1. UNCHANGED <<ue_queue, buffering, stopped>> /\ ~stopped
        /\ routine = "flush" /\ routine' \in {"flush", "idle"}
    BY <1>2 DEF Flush, TokenInv
  <2>2. Owed = 0 /\ Owed' = 0
    BY <2>1 DEF Owed, Awaiting
  <2>3. CASE pdu_buffer = <<>>
    <3>1. UNCHANGED flight /\ UNCHANGED mngrVars
      BY <1>2, <2>3 DEF Flush, flight
    <3> QED
      BY <2>1, <2>2, <3>1, SameFlight DEF TokenInv, mngrVars, Awaiting
  <2>4. CASE pdu_buffer # <<>>
    <3>1. HandleDataPdu(Head(pdu_buffer)) /\ Head(pdu_buffer) \in Pdu
      BY <1>2, <2>4 DEF Flush, TypeOK, BufTypeOK
    <3>2. tokens' = InFlight' /\ ~pending_crypto'
      BY <2>1, <2>2, <3>1, HandleDataPduTokens
    <3>3. tokens' = InFlight' - Owed'
      BY <1>2, <2>2, <3>2, NextType DEF Next, TypeOK, MngrTypeOK
    <3>4. routine' \notin {"modify", "end_buffering"} \cup Awaiting
      BY <2>1 DEF Awaiting
    <3> QED
      BY <2>1, <3>2, <3>3, <3>4, Zenon DEF TokenInv
  <2> QED
    BY <2>3, <2>4
<1>3. ASSUME NEW s \in CryptoSlots, ApplySecurity(s) PROVE TokenInv'
  BY <1>3, ApplySecurityTokens
<1>4. CASE SecurityFailure \/ DropPdu \/ StorePdu
  BY <1>4, TakeUeTaskTokens DEF SecurityFailure, DropPdu, StorePdu
<1>5. CASE ReorderingExpire
  BY <1>5, SameFlight
     DEF ReorderingExpire, TokenInv, Owed, mngrVars, bufVars, ctrlVars
<1>6. ASSUME NEW kind \in {"suspend", "rekey", "resume"}, BeginRoutine(kind)
      PROVE  TokenInv'
  <2>1. /\ ~stopped /\ ~stopped' /\ routine = "idle" /\ routine' \in Awaiting
        /\ routine' \notin {"modify", "end_buffering"}
        /\ buffering' /\ InFlight' = InFlight /\ ReturnToken
    BY <1>6, SameFlight DEF BeginRoutine, BeginBuffering, Awaiting
  <2>2. Owed = 0 /\ Owed' = 1
    BY <2>1 DEF Owed, Awaiting
  <2>3. tokens' = InFlight' - 1 /\ tokens = InFlight /\ ~pending_crypto
    BY <2>1, <2>2, FlightFacts DEF TokenInv, ReturnToken
  <2>4. pending_crypto' => InFlight' = 0
    BY <2>1, <2>3 DEF ReturnToken
  <2> QED
    BY <2>1, <2>2, <2>3, <2>4 DEF TokenInv
<1>7. CASE Suspend \/ Rekey
  <2>1. /\ routine \in Awaiting /\ routine' \in {"idle", "modify"} /\ buffering
        /\ UNCHANGED <<stopped, buffering>> /\ InFlight' = InFlight
        /\ pending_crypto /\ tokens' = tokens + 1 /\ pending_crypto' = FALSE
    BY <1>7, SameFlight
       DEF Suspend, Rekey, Drained, StartTokens, bufVars, Awaiting, TokenInv
  <2>2. ~stopped /\ InFlight = 0 /\ Owed = 1 /\ Owed' = 0
    BY <2>1 DEF TokenInv, Owed, Awaiting
  <2> QED
    BY <2>1, <2>2 DEF TokenInv, Awaiting
<1>8. CASE ModifyBearer \/ EndBuffering
  <2>1. /\ routine \in {"modify", "end_buffering"}
        /\ routine' \in {"end_buffering", "flush"}
        /\ UNCHANGED <<stopped, mngrVars>> /\ InFlight' = InFlight
        /\ routine' = "end_buffering" => UNCHANGED buffering
    BY <1>8, SameFlight DEF ModifyBearer, EndBuffering, bufVars
  <2>2. ~stopped /\ Owed = 0 /\ Owed' = 0
    BY <2>1 DEF TokenInv, Owed, Awaiting
  <2> QED
    BY <2>1, <2>2 DEF TokenInv, mngrVars, Awaiting
<1>9. CASE ReestablishSrb
  BY <1>9, SameFlight DEF ReestablishSrb, TokenInv, Owed, mngrVars, bufVars
<1>10. CASE StopForRelease \/ RemoveSession
  BY <1>10, StopTokens DEF StopForRelease, RemoveSession
<1>11. CASE Destroy
  BY <1>11, SameFlight DEF Destroy, TokenInv, Owed, mngrVars, bufVars
<1>12. CASE UNCHANGED vars
  BY <1>12, SameFlight DEF vars, TokenInv, Owed, mngrVars, bufVars, ctrlVars
<1> QED
  BY <1>1, <1>2, <1>3, <1>4, <1>5, <1>6, <1>7, <1>8, <1>9, <1>10, <1>11,
     <1>12 DEF Next

\* Tasks and tokens agree in every reachable state.
THEOREM TokensCounted == Spec => [](TypeOK /\ TokenInv)
<1>1. Init => TokenInv
  <2> SUFFICES ASSUME Init PROVE TokenInv
    OBVIOUS
  <2>1. InFlight = 0
    BY InitType, FlightFacts DEF Init, NothingInFlight
  <2>2. Owed = 0
    BY DEF Init, Owed, Awaiting
  <2> QED
    BY <2>1, <2>2 DEF Init, TokenInv, Awaiting
<1>2. TypeOK /\ TokenInv /\ [Next]_vars => (TypeOK /\ TokenInv)'
  BY NextType, NextTokens
<1> QED
  BY <1>1, <1>2, InitType, PTL DEF Spec

\* When the event that the routines await is set, no task of the entity is
\* left on any executor (pdcp_crypto_token.h:38).
THEOREM Quiescence == Spec => []DrainedIsQuiescent
<1>1. TypeOK /\ TokenInv => DrainedIsQuiescent
  BY FlightFacts DEF TokenInv, DrainedIsQuiescent
<1> QED
  BY <1>1, TokensCounted, PTL

\* The security engines are replaced only while no crypto worker uses them
\* (pdu_session_manager_impl.cpp:654, rrc_ue_srb_context.h:120).
THEOREM KeysSafe == Spec => KeysReplacedWhenDrained
<1>1. TypeOK /\ TokenInv /\ [Next]_vars => [key' # key => NothingInFlight]_vars
  <2> SUFFICES ASSUME TypeOK, TokenInv, Next, key' # key PROVE NothingInFlight
    OBVIOUS
  <2>1. CASE Rekey
    BY <2>1, FlightFacts DEF Rekey, Drained, TokenInv
  <2>2. CASE ReestablishSrb
    BY <2>2 DEF ReestablishSrb, StrandIdle
  <2>3. Rekey \/ ReestablishSrb
    BY DEF Next, HandlePdu, Flush, ApplySecurity, SecurityFailure, DropPdu,
           StorePdu, TakeUeTask, ReorderingExpire, BeginRoutine, Suspend,
           ModifyBearer, EndBuffering, StopForRelease, Stop, Destroy,
           RemoveSession, ctrlVars
  <2> QED
    BY <2>1, <2>2, <2>3
<1> QED
  BY <1>1, TokensCounted, PTL DEF Spec, KeysReplacedWhenDrained

\* The release of a UE destroys the entity only when it has drained
\* (pdcp_entity_rx.h:200).  The removal of a PDU session does not wait.
THEOREM ReleaseSafe ==
  ASSUME "session_removal" \notin Removals
  PROVE  Spec => []DestroyedWhenDrained
<1>1. Init => DestroyedWhenDrained
  BY DEF Init, DestroyedWhenDrained
<1>2. TypeOK /\ TokenInv /\ DestroyedWhenDrained /\ [Next]_vars => DestroyedWhenDrained'
  <2> SUFFICES ASSUME TypeOK, TokenInv, DestroyedWhenDrained, [Next]_vars, destroyed'
               PROVE  NothingInFlight'
    BY DEF DestroyedWhenDrained
  <2>1. CASE Destroy
    BY <2>1, FlightFacts DEF Destroy, Drained, TokenInv, NothingInFlight, flight
  <2>2. CASE UNCHANGED vars
    BY <2>2 DEF vars, DestroyedWhenDrained, NothingInFlight, ctrlVars, flight
  <2>3. Destroy \/ UNCHANGED vars
    BY DEF Next, HandlePdu, Flush, ApplySecurity, SecurityFailure, DropPdu,
           StorePdu, TakeUeTask, ReorderingExpire, BeginRoutine, Suspend, Rekey,
           ModifyBearer, EndBuffering, ReestablishSrb, StopForRelease, RemoveSession,
           StrandIdle, StrandFree, ctrlVars
  <2> QED
    BY <2>1, <2>2, <2>3
<1> QED
  BY <1>1, <1>2, TokensCounted, PTL DEF Spec

-----------------------------------------------------------------------------
(* The window.  An HFN of 0 that is decremented gives a COUNT from          *)
(* WrapCount on.  The window is safe when the hard maximum refuses those,   *)
(* or when integrity protection does and the peer never sends one.          *)

WrapCount == HfnMod * SnMod - SnMod + Window

UnderflowRefused ==
  \/ MaxCountHard <= WrapCount
  \/ IntegrityEnabled /\ \A c \in PeerCounts : c < WrapCount

\* A task still in flight was accepted when RX_DELIV was no further on.
FlightInv ==
  /\ \A s \in CryptoSlots : crypto[s] # None =>
       crypto[s].count < rx_deliv + Window \/ crypto[s].count >= WrapCount
  /\ \A i \in 1 .. Len(ue_queue) : ue_queue[i].verdict = "success" =>
       ue_queue[i].count < rx_deliv + Window

WindowInv ==
  /\ WindowBounded /\ FirstMissing /\ ReorderingAhead /\ GapHasTimer /\ NoGapAtZero
  /\ FlightInv

\* The estimate is never a window or more ahead of RX_DELIV, unless its HFN
\* underflows.
LEMMA RcvdCountBound ==
  ASSUME NEW deliv \in Count, NEW sn \in 0 .. (SnMod - 1)
  PROVE  RcvdCount(deliv, sn) < deliv + Window \/ RcvdCount(deliv, sn) >= WrapCount
<1> DEFINE h == HFN(deliv)
           d == SN(deliv)
<1>1. h \in Nat /\ d \in 0 .. (SnMod - 1) /\ deliv = h * SnMod + d
  BY SplitCount, CountFacts
<1>2. h < HfnMod
  <2>1. SUFFICES ASSUME h >= HfnMod PROVE FALSE
    BY <1>1, WindowAssumption
  <2>2. h * SnMod >= HfnMod * SnMod
    BY <1>1, <2>1, WindowAssumption
  <2> QED
    BY <1>1, <2>2, WindowFacts DEF Count
<1>3. /\ (h + 1) * SnMod = h * SnMod + SnMod
      /\ (h - 1) * SnMod = h * SnMod - SnMod
      /\ (HfnMod - 1) * SnMod = HfnMod * SnMod - SnMod
      /\ h * SnMod \in Nat
  BY <1>1, WindowAssumption
<1> HIDE DEF h, d
<1>4. CASE sn < d - Window
  <2>1. RcvdCount(deliv, sn) = COUNT(h + 1, sn)
    BY <1>4 DEF RcvdCount, h, d
  <2>2. CASE h + 1 < HfnMod
    <3>1. (h + 1) % HfnMod = h + 1
      BY <1>1, <2>2, WindowAssumption
    <3> QED
      BY <1>1, <1>3, <1>4, <2>1, <3>1, WindowFacts DEF COUNT
  <2>3. CASE h + 1 = HfnMod
    <3>1. (h + 1) % HfnMod = 0
      BY <2>3, WindowAssumption
    <3>2. RcvdCount(deliv, sn) = sn
      BY <2>1, <3>1, WindowAssumption DEF COUNT
    <3> QED
      BY <1>1, <1>3, <1>4, <3>2, WindowFacts
  <2> QED
    BY <1>1, <1>2, <2>2, <2>3, WindowAssumption
<1>5. CASE sn >= d + Window
  <2>1. RcvdCount(deliv, sn) = COUNT(h - 1, sn)
    BY <1>1, <1>5, WindowFacts DEF RcvdCount, h, d
  <2>2. CASE h > 0
    <3>1. (h - 1) % HfnMod = h - 1
      BY <1>1, <1>2, <2>2, WindowAssumption
    <3> QED
      BY <1>1, <1>3, <1>5, <2>1, <3>1, WindowFacts DEF COUNT
  <2>3. CASE h = 0
    <3>1. (h - 1) % HfnMod = HfnMod - 1
      BY <2>3, WindowAssumption
    <3>2. RcvdCount(deliv, sn) = HfnMod * SnMod - SnMod + sn
      BY <1>3, <2>1, <3>1 DEF COUNT
    <3> QED
      BY <1>1, <1>5, <3>2, WindowFacts DEF WrapCount
  <2> QED
    BY <1>1, <2>2, <2>3
<1>6. CASE ~(sn < d - Window) /\ ~(sn >= d + Window)
  <2>1. RcvdCount(deliv, sn) = COUNT(h, sn)
    BY <1>6 DEF RcvdCount, h, d
  <2>2. h % HfnMod = h
    BY <1>1, <1>2, WindowAssumption
  <2> QED
    BY <1>1, <1>3, <1>6, <2>1, <2>2, WindowFacts DEF COUNT
<1> QED
  BY <1>4, <1>5, <1>6

\* Two COUNTs that share a slot are a window apart.
LEMMA SlotsApart ==
  ASSUME NEW a \in Nat, NEW b \in Nat, a % Window = b % Window, a < b
  PROVE  a + Window <= b
<1> DEFINE qa == a \div Window
           qb == b \div Window
           r  == a % Window
<1>1. /\ qa \in Nat /\ qb \in Nat /\ r \in 0 .. (Window - 1)
      /\ a = Window * qa + r /\ b = Window * qb + r
  BY WindowFacts
<1> HIDE DEF qa, qb, r
<1>2. qa < qb
  <2>1. SUFFICES ASSUME qb <= qa PROVE FALSE
    BY <1>1
  <2>2. Window * qb <= Window * qa
    BY <1>1, <2>1, WindowFacts
  <2> QED
    BY <1>1, <2>2, WindowFacts
<1>3. Window * (qa + 1) <= Window * qb /\ Window * (qa + 1) = Window * qa + Window
  BY <1>1, <1>2, WindowFacts
<1> QED
  BY <1>1, <1>3, WindowFacts

LEMMA CountArithmetic ==
  ASSUME TypeOK
  PROVE  /\ rx_next \in Nat /\ rx_deliv \in Nat /\ rx_reord \in Nat
         /\ Window \in Nat /\ Window > 0 /\ WrapCount \in Nat
BY CountFacts, WindowFacts DEF TypeOK, RxTypeOK, WrapCount

LEMMA HandleDataPduFlight ==
  ASSUME TypeOK, FlightInv, NEW pdu \in Pdu, HandleDataPdu(pdu),
         UNCHANGED <<ue_queue, rx_deliv>>
  PROVE  FlightInv'
<1> DEFINE count == RcvdCount(rx_deliv, SN(pdu.count))
<1>1. count < rx_deliv + Window \/ count >= WrapCount
  BY BoundAssumption, CountFacts, SplitCount, RcvdCountBound
     DEF Pdu, TypeOK, RxTypeOK
<1>2. \/ UNCHANGED crypto
      \/ \E s \in CryptoSlots :
           crypto' = [crypto EXCEPT ![s] = [count |-> count, pdu |-> pdu]]
  BY DEF HandleDataPdu
<1> HIDE DEF count
<1> QED
  BY <1>1, <1>2 DEF FlightInv, TypeOK, FlightTypeOK

\* A task passes the crypto worker with success only under a COUNT that
\* underflow did not give it.
LEMMA ApplySecurityFlight ==
  ASSUME TypeOK, FlightInv, UnderflowRefused, NEW s \in CryptoSlots, ApplySecurity(s)
  PROVE  FlightInv'
<1> DEFINE task == crypto[s]
<1>1. task \in CryptoTask /\ task # None
  BY DEF ApplySecurity, TypeOK, FlightTypeOK
<1>2. task.count \in Nat /\ task.count < MaxCountHard /\ task.pdu.count \in PeerCounts
      /\ task.pdu.count \in Nat
  BY <1>1, CountFacts, BoundAssumption DEF CryptoTask, Accepted, Pdu
<1>3. ASSUME Decipher(task) = "success" PROVE task.count < rx_deliv + Window
  <2>1. task.count < WrapCount
    BY <1>2, <1>3, MaxCountAssumption, CountArithmetic DEF UnderflowRefused, Decipher
  <2> QED
    BY <1>1, <1>2, <2>1, CountArithmetic DEF FlightInv
<1>4. \/ ue_queue' = ue_queue
      \/ ue_queue' = Append(ue_queue, [verdict |-> Decipher(task), count |-> task.count,
                                       pdu |-> task.pdu])
  BY DEF ApplySecurity
<1>5. UNCHANGED rx_deliv /\ crypto' = [crypto EXCEPT ![s] = None]
  BY DEF ApplySecurity, rxVars, st
<1> HIDE DEF task
<1>6. \A i \in 1 .. Len(ue_queue') : ue_queue'[i].verdict = "success" =>
         ue_queue'[i].count < rx_deliv + Window
  BY <1>3, <1>4 DEF FlightInv, TypeOK, FlightTypeOK
<1>7. \A t \in CryptoSlots : crypto'[t] # None =>
         crypto'[t].count < rx_deliv + Window \/ crypto'[t].count >= WrapCount
  BY <1>5 DEF FlightInv, TypeOK, FlightTypeOK
<1> QED
  BY <1>5, <1>6, <1>7 DEF FlightInv

\* RX_DELIV may go forward under the tasks in flight.
LEMMA FlightMonotone ==
  ASSUME TypeOK, FlightInv, rx_deliv' \in Count, rx_deliv <= rx_deliv', UNCHANGED crypto,
         \/ UNCHANGED ue_queue
         \/ ue_queue # <<>> /\ ue_queue' = Tail(ue_queue)
  PROVE  FlightInv'
<1>1. rx_deliv' \in Nat /\ rx_deliv \in Nat
  BY CountFacts, CountArithmetic
<1>2. \A s \in CryptoSlots : crypto[s] # None => crypto[s].count \in Nat
  BY CountFacts DEF TypeOK, FlightTypeOK, CryptoTask, Accepted
<1>3. \A i \in 1 .. Len(ue_queue) : ue_queue[i].count \in Nat
  <2>1. \A i \in 1 .. Len(ue_queue) : ue_queue[i] \in UeTask
    BY DEF TypeOK, FlightTypeOK
  <2> QED
    BY <2>1, CountFacts DEF UeTask, Accepted
<1>4. \A s \in CryptoSlots : crypto'[s] # None =>
         crypto'[s].count < rx_deliv' + Window \/ crypto'[s].count >= WrapCount
  BY <1>1, <1>2, CountArithmetic DEF FlightInv
<1>5. \A i \in 1 .. Len(ue_queue') :
         \E j \in 1 .. Len(ue_queue) : ue_queue'[i] = ue_queue[j]
  BY DEF TypeOK, FlightTypeOK
<1>6. \A i \in 1 .. Len(ue_queue') : ue_queue'[i].verdict = "success" =>
         ue_queue'[i].count < rx_deliv' + Window
  <2> SUFFICES ASSUME NEW i \in 1 .. Len(ue_queue'), ue_queue'[i].verdict = "success"
               PROVE  ue_queue'[i].count < rx_deliv' + Window
    OBVIOUS
  <2>1. PICK j \in 1 .. Len(ue_queue) : ue_queue'[i] = ue_queue[j]
    BY <1>5
  <2>2. ue_queue[j].count < rx_deliv + Window /\ ue_queue[j].count \in Nat
    BY <1>3, <2>1 DEF FlightInv
  <2> QED
    BY <1>1, <2>1, <2>2, CountArithmetic
<1> QED
  BY <1>4, <1>6 DEF FlightInv

LEMMA NoFlight ==
  ASSUME NothingInFlight, UNCHANGED flight
  PROVE  FlightInv'
BY DEF NothingInFlight, flight, FlightInv

\* Storing evicts nothing.
LEMMA AddSnKeeps ==
  ASSUME TypeOK, WindowBounded, NEW count \in Count, NEW sdu,
         rx_deliv <= count, count < rx_deliv + Window
  PROVE  \A c \in Count :
           AddSn(rx_window, count, sdu)[c] = IF c = count THEN sdu ELSE rx_window[c]
<1> SUFFICES ASSUME NEW c \in Count, c # count, c % Window = count % Window
             PROVE  rx_window[c] = None
  BY DEF AddSn
<1>1. SUFFICES ASSUME c \in rx_deliv .. (rx_next - 1) PROVE FALSE
  BY DEF WindowBounded, HasSn
<1>2. c \in Nat /\ count \in Nat /\ rx_deliv <= c /\ c < rx_deliv + Window
  BY <1>1, CountFacts, CountArithmetic DEF WindowBounded
<1>3. c + Window <= count \/ count + Window <= c
  BY <1>2, SlotsApart
<1> QED
  BY <1>2, <1>3, CountArithmetic

\* What storing a PDU does, with nothing evicted.
StoredAs(count, sdu, to) ==
  LET w    == [rx_window EXCEPT ![count] = sdu]
      next == IF count >= rx_next THEN count + 1 ELSE rx_next
  IN
  /\ rx_deliv <= count /\ count < rx_deliv + Window /\ ~HasSn(rx_window, count)
  /\ next \in Count /\ rx_next' = next /\ rx_deliv <= to /\ to <= next
  /\ NewDeliv(w, count, next, to)
  /\ DeliverUpTo(w, to)
  /\ HandleReorderingTimers(next, to)

LEMMA StoreFacts ==
  ASSUME TypeOK, WindowInv, StorePdu
  PROVE  \E count \in Count, sdu \in Pdu, to \in Count : StoredAs(count, sdu, to)
<1> DEFINE count == Head(ue_queue).count
           sdu   == Head(ue_queue).pdu
           w     == AddSn(rx_window, count, sdu)
           next  == IF count >= rx_next THEN count + 1 ELSE rx_next
<1>1. TakeUeTask("success") /\ Head(ue_queue) \in UeTask
  BY TakeUeTaskType DEF StorePdu
<1>2. count \in Count /\ count + 1 \in Count /\ count \in Nat /\ sdu \in Pdu
  BY <1>1, MaxCountAssumption, WindowFacts, CountFacts DEF UeTask, Accepted, Count
<1>3. count < rx_deliv + Window
  BY <1>1 DEF TakeUeTask, WindowInv, FlightInv, TypeOK, FlightTypeOK
<1>4. rx_deliv <= count /\ ~HasSn(rx_window, count)
  BY <1>2, CountArithmetic DEF StorePdu, RcvdBefore
<1>5. w = [rx_window EXCEPT ![count] = sdu]
  <2>1. \A c \in Count : w[c] = IF c = count THEN sdu ELSE rx_window[c]
    BY <1>2, <1>3, <1>4, AddSnKeeps DEF WindowInv
  <2>2. w = [c \in Count |-> w[c]]
    BY DEF AddSn
  <2> HIDE DEF count, sdu, w
  <2> QED
    BY <2>1, <2>2, <1>2 DEF TypeOK, RxTypeOK
<1>6. next \in Count /\ next \in Nat /\ rx_next' = next
  BY <1>2, CountFacts DEF StorePdu, TypeOK, RxTypeOK
<1>7. PICK to \in rx_deliv .. next : /\ NewDeliv(w, count, next, to)
                                     /\ DeliverUpTo(w, to)
                                     /\ HandleReorderingTimers(next, to)
  BY DEF StorePdu
<1>8. to \in Nat /\ rx_deliv <= to /\ to <= next
  <2> HIDE DEF next
  <2> QED
    BY <1>6, <1>7, CountArithmetic
<1>9. to \in Count
  <2> HIDE DEF next
  <2> QED
    BY <1>6, <1>8, CountFacts
<1>10. StoredAs(count, sdu, to)
  BY <1>3, <1>4, <1>5, <1>6, <1>7, <1>8 DEF StoredAs
<1> QED
  BY <1>2, <1>9, <1>10

LEMMA StoreWindow ==
  ASSUME TypeOK, WindowInv, StorePdu
  PROVE  WindowInv'
<1>1. PICK count \in Count, sdu \in Pdu, to \in Count : StoredAs(count, sdu, to)
  BY StoreFacts
<1> DEFINE w    == [rx_window EXCEPT ![count] = sdu]
           next == IF count >= rx_next THEN count + 1 ELSE rx_next
<1>2. /\ rx_deliv <= count /\ count < rx_deliv + Window /\ ~HasSn(rx_window, count)
      /\ next \in Count /\ rx_next' = next /\ rx_deliv <= to /\ to <= next
      /\ NewDeliv(w, count, next, to) /\ HandleReorderingTimers(next, to)
      /\ rx_deliv' = to /\ rx_window' = RemoveAll(w, rx_deliv .. (to - 1))
  BY <1>1 DEF StoredAs, DeliverUpTo
<1>3. count \in Nat /\ to \in Nat /\ next \in Nat
  BY <1>2, CountFacts
<1>4. count < next /\ rx_next <= next /\ next <= rx_deliv + Window
  BY <1>2, <1>3, CountArithmetic DEF WindowInv, WindowBounded
<1>5. \A c \in Count : HasSn(w, c) => c = count \/ HasSn(rx_window, c)
  BY DEF HasSn, TypeOK, RxTypeOK
<1> HIDE DEF next, w
<1>6. \A c \in Count : HasSn(w, c) => c \in rx_deliv .. (next - 1)
  BY <1>2, <1>3, <1>4, <1>5, CountArithmetic DEF WindowInv, WindowBounded
<1>7. \A c \in Count : HasSn(rx_window', c) => HasSn(w, c) /\ c \notin rx_deliv .. (to - 1)
  BY <1>2 DEF HasSn, RemoveAll
<1>8. WindowBounded'
  <2>1. \A c \in Count : HasSn(rx_window', c) => c \in to .. (next - 1)
    BY <1>2, <1>3, <1>6, <1>7, CountArithmetic, CountFacts
  <2> QED
    BY <1>2, <1>3, <1>4, <2>1, CountArithmetic DEF WindowBounded
<1>9. ~HasSn(w, to)
  <2>1. to = next => ~HasSn(w, to)
    BY <1>3, <1>6, CountArithmetic
  <2>2. ~HasSn(rx_window, rx_deliv)
    BY DEF WindowInv, FirstMissing
  <2>3. count # rx_deliv => ~HasSn(w, rx_deliv)
    BY <2>2, <1>5 DEF TypeOK, RxTypeOK
  <2> QED
    BY <1>2, <2>1, <2>3 DEF NewDeliv, ConsecutiveUpTo
<1>10. FirstMissing'
  BY <1>2, <1>7, <1>9 DEF FirstMissing
<1>11. ReorderingAhead' /\ NoGapAtZero'
  <2>1. reordering_timer => rx_reord <= next
    BY <1>3, <1>4, CountArithmetic DEF WindowInv, ReorderingAhead
  <2>2. TReordering = "ms0" => to = next
    BY <1>2 DEF NewDeliv
  <2>3. ASSUME reordering_timer'
        PROVE  \/ to < next /\ rx_reord' = next
               \/ reordering_timer /\ to < rx_reord /\ rx_reord' \in {next, rx_reord}
    <3> DEFINE running == reordering_timer /\ to < rx_reord
               start   == TReordering = "finite" /\ ~running /\ to < next
    <3>1. reordering_timer' = (running \/ start)
      BY <1>2 DEF HandleReorderingTimers
    <3>2. rx_reord' = IF start \/ TReordering = "ms0" THEN next ELSE rx_reord
      BY <1>2 DEF HandleReorderingTimers
    <3>3. running \/ start
      BY <2>3, <3>1
    <3> QED
      BY <3>2, <3>3
  <2>4. reordering_timer' => to < rx_reord' /\ rx_reord' <= next
    BY <1>3, <2>1, <2>2, <2>3, CountArithmetic
  <2>5. ReorderingAhead'
    BY <1>2, <2>4 DEF ReorderingAhead
  <2> QED
    BY <1>2, <2>2, <2>5 DEF NoGapAtZero
<1>12. GapHasTimer'
  BY <1>2 DEF HandleReorderingTimers, GapHasTimer
<1>13. FlightInv'
  BY <1>2, FlightMonotone DEF StorePdu, TakeUeTask, WindowInv
<1> QED
  BY <1>8, <1>10, <1>11, <1>12, <1>13 DEF WindowInv

LEMMA ExpireWindow ==
  ASSUME TypeOK, WindowInv, ReorderingExpire
  PROVE  WindowInv'
<1>1. reordering_timer /\ rx_deliv < rx_reord /\ rx_reord <= rx_next
  BY DEF ReorderingExpire, WindowInv, ReorderingAhead
<1>2. CASE stopped
  <2>1. UNCHANGED <<st, rx_window, flight>> /\ reordering_timer' = FALSE /\ stopped'
    BY <1>2 DEF ReorderingExpire, ctrlVars
  <2> QED
    BY <2>1 DEF WindowInv, WindowBounded, FirstMissing, ReorderingAhead,
                GapHasTimer, NoGapAtZero, FlightInv, st, flight
<1>3. CASE ~stopped
  <2>1. PICK to \in rx_reord .. rx_next :
          /\ ConsecutiveUpTo(rx_window, rx_reord, rx_next, to)
          /\ DeliverUpTo(rx_window, to)
          /\ reordering_timer' = (to < rx_next)
          /\ rx_reord' = IF to < rx_next THEN rx_next ELSE rx_reord
    BY <1>3 DEF ReorderingExpire
  <2>2. UNCHANGED rx_next /\ UNCHANGED flight
    BY <1>3 DEF ReorderingExpire
  <2>3. to \in Nat /\ rx_deliv < to /\ to <= rx_next /\ rx_next \in Count
    BY <1>1, <2>1, CountArithmetic DEF TypeOK, RxTypeOK
  <2>4. to \in Count
    BY <2>3, CountArithmetic, CountFacts
  <2>5. rx_deliv' = to /\ rx_window' = RemoveAll(rx_window, rx_deliv .. (to - 1))
    BY <2>1 DEF DeliverUpTo
  <2>6. \A c \in Count : HasSn(rx_window', c) =>
           HasSn(rx_window, c) /\ c \notin rx_deliv .. (to - 1)
    BY <2>5 DEF HasSn, RemoveAll
  <2>7. \A c \in Count : HasSn(rx_window, c) => c \in rx_deliv .. (rx_next - 1)
    BY DEF WindowInv, WindowBounded
  <2>8. WindowBounded'
    <3>1. \A c \in Count : HasSn(rx_window', c) => c \in to .. (rx_next - 1)
      BY <2>3, <2>6, <2>7, CountArithmetic, CountFacts
    <3>2. rx_next <= rx_deliv + Window
      BY DEF WindowInv, WindowBounded
    <3> QED
      BY <2>2, <2>3, <2>5, <3>1, <3>2, CountArithmetic DEF WindowBounded
  <2>9. FirstMissing'
    <3>1. to = rx_next => ~HasSn(rx_window, to)
      BY <2>3, <2>7, CountArithmetic
    <3>2. ~HasSn(rx_window, to)
      BY <2>1, <3>1 DEF ConsecutiveUpTo
    <3> QED
      BY <2>4, <2>5, <2>6, <3>2 DEF FirstMissing
  <2>10. ReorderingAhead'
    <3>1. CASE to < rx_next
      <4>1. rx_reord' = rx_next
        BY <2>1, <3>1
      <4> QED
        BY <2>2, <2>3, <2>5, <3>1, <4>1, CountArithmetic DEF ReorderingAhead
    <3>2. CASE ~(to < rx_next)
      BY <2>1, <3>2 DEF ReorderingAhead
    <3> QED
      BY <3>1, <3>2
  <2>11. GapHasTimer'
    BY <2>1, <2>2, <2>5 DEF GapHasTimer
  <2>12. NoGapAtZero'
    BY <1>1, <2>3, CountArithmetic DEF WindowInv, NoGapAtZero
  <2>13. FlightInv'
    BY <2>2, <2>3, <2>4, <2>5, FlightMonotone, CountArithmetic DEF flight, WindowInv
  <2> QED
    BY <2>8, <2>9, <2>10, <2>11, <2>12, <2>13 DEF WindowInv
<1> QED
  BY <1>2, <1>3

LEMMA ResetWindow ==
  ASSUME TypeOK, WindowInv, ResetState, NothingInFlight, UNCHANGED flight
  PROVE  WindowInv'
<1>1. \A c \in Count : ~HasSn(rx_window', c)
  BY DEF ResetState, RemoveAll, HasSn, WindowInv, WindowBounded
<1>2. rx_next' = 0 /\ rx_deliv' = 0 /\ reordering_timer' = FALSE
  BY DEF ResetState
<1>3. WindowBounded'
  BY <1>1, <1>2, CountArithmetic DEF WindowBounded
<1>4. FirstMissing' /\ ReorderingAhead' /\ GapHasTimer' /\ NoGapAtZero'
  BY <1>1, <1>2, CountFacts DEF FirstMissing, ReorderingAhead, GapHasTimer, NoGapAtZero
<1> QED
  BY <1>3, <1>4, NoFlight DEF WindowInv

LEMMA SetCountWindow ==
  ASSUME TypeOK, WindowInv, NEW c \in PeerCounts, SetCount(c), NothingInFlight,
         UNCHANGED flight
  PROVE  WindowInv'
<1>1. rx_next = 0 /\ rx_deliv = 0 /\ c \in Nat /\ c \in Count
  BY CountArithmetic, BoundAssumption, CountFacts DEF SetCount, WindowInv, WindowBounded
<1>2. /\ rx_next' = c /\ rx_deliv' = c /\ UNCHANGED <<rx_window, reordering_timer>>
  BY DEF SetCount
<1>3. ~reordering_timer
  BY <1>1, CountArithmetic DEF WindowInv, ReorderingAhead
<1>4. \A d \in Count : ~HasSn(rx_window, d)
  BY <1>1, CountFacts DEF WindowInv, WindowBounded
<1>5. WindowBounded' /\ FirstMissing'
  BY <1>1, <1>2, <1>4, CountArithmetic DEF WindowBounded, FirstMissing, HasSn
<1>6. ReorderingAhead' /\ GapHasTimer' /\ NoGapAtZero'
  BY <1>1, <1>2, <1>3 DEF ReorderingAhead, GapHasTimer, NoGapAtZero
<1> QED
  BY <1>5, <1>6, NoFlight DEF WindowInv

\* Actions that leave the receiver's state and its tasks alone.
LEMMA SameWindow ==
  ASSUME WindowInv, UNCHANGED <<rxVars, flight, stopped>>
  PROVE  WindowInv'
BY DEF WindowInv, WindowBounded, FirstMissing, ReorderingAhead, GapHasTimer,
       NoGapAtZero, FlightInv, HasSn, rxVars, st, flight

LEMMA StopWindow ==
  ASSUME WindowInv, Stop
  PROVE  WindowInv'
BY DEF Stop, WindowInv, WindowBounded, FirstMissing, ReorderingAhead, GapHasTimer,
       NoGapAtZero, FlightInv, HasSn, st, flight

LEMMA NextWindow ==
  ASSUME UnderflowRefused, TypeOK, TokenInv, WindowInv, [Next]_vars
  PROVE  WindowInv'
<1> DEFINE Kept == WindowBounded /\ FirstMissing /\ ReorderingAhead /\ GapHasTimer /\ NoGapAtZero
<1>1. ASSUME UNCHANGED <<rxVars, stopped>> PROVE Kept'
  BY <1>1 DEF rxVars, st, WindowInv, WindowBounded, FirstMissing, ReorderingAhead,
              GapHasTimer, NoGapAtZero, HasSn
<1>2. ASSUME NEW pdu \in Arriving, HandlePdu(pdu) PROVE WindowInv'
  <2>1. pdu \in Pdu /\ UNCHANGED <<rxVars, stopped, ue_queue>>
    BY <1>2 DEF Arriving, HandlePdu
  <2>2. UNCHANGED crypto \/ HandleDataPdu(pdu)
    BY <1>2 DEF HandlePdu
  <2>3. FlightInv'
    BY <2>1, <2>2, HandleDataPduFlight DEF WindowInv, rxVars, st, FlightInv
  <2> QED
    BY <1>1, <2>1, <2>3 DEF WindowInv
<1>3. CASE Flush
  <2>1. UNCHANGED <<rxVars, stopped, ue_queue>>
    BY <1>3 DEF Flush
  <2>2. UNCHANGED crypto \/ (HandleDataPdu(Head(pdu_buffer)) /\ Head(pdu_buffer) \in Pdu)
    BY <1>3 DEF Flush, TypeOK, BufTypeOK
  <2>3. FlightInv'
    BY <2>1, <2>2, HandleDataPduFlight DEF WindowInv, rxVars, st, FlightInv
  <2> QED
    BY <1>1, <2>1, <2>3 DEF WindowInv
<1>4. ASSUME NEW s \in CryptoSlots, ApplySecurity(s) PROVE WindowInv'
  BY <1>1, <1>4, ApplySecurityFlight DEF ApplySecurity, ctrlVars, WindowInv
<1>5. CASE SecurityFailure \/ DropPdu
  <2>1. UNCHANGED <<rxVars, stopped, crypto>> /\ ue_queue # <<>> /\ ue_queue' = Tail(ue_queue)
    BY <1>5 DEF SecurityFailure, DropPdu, TakeUeTask, ctrlVars
  <2>2. FlightInv'
    BY <2>1, FlightMonotone, CountArithmetic DEF rxVars, st, WindowInv, TypeOK, RxTypeOK
  <2> QED
    BY <1>1, <2>1, <2>2 DEF WindowInv
<1>6. CASE StorePdu
  BY <1>6, StoreWindow
<1>7. CASE ReorderingExpire
  BY <1>7, ExpireWindow
<1>8. ASSUME NEW kind \in {"suspend", "rekey", "resume"}, BeginRoutine(kind)
      PROVE  WindowInv'
  BY <1>8, SameWindow DEF BeginRoutine
<1>9. CASE Suspend
  BY <1>9, ResetWindow, FlightFacts DEF Suspend, Drained, TokenInv
<1>10. CASE Rekey \/ EndBuffering \/ Destroy
  BY <1>10, SameWindow DEF Rekey, EndBuffering, Destroy
<1>11. CASE ModifyBearer
  <2>1. NothingInFlight /\ UNCHANGED flight /\ UNCHANGED stopped
    BY <1>11, FlightFacts DEF ModifyBearer, TokenInv
  <2>2. CASE ResetState
    BY <2>1, <2>2, ResetWindow
  <2>3. CASE UNCHANGED rxVars
    BY <2>1, <2>3, SameWindow
  <2>4. ASSUME NEW c \in PeerCounts, SetCount(c) PROVE WindowInv'
    BY <2>1, <2>4, SetCountWindow
  <2> QED
    BY <1>11, <2>2, <2>3, <2>4 DEF ModifyBearer, Reestablish
<1>12. CASE ReestablishSrb
  BY <1>12, ResetWindow DEF ReestablishSrb, StrandIdle
<1>13. CASE StopForRelease \/ RemoveSession
  BY <1>13, StopWindow DEF StopForRelease, RemoveSession
<1>14. CASE UNCHANGED vars
  BY <1>14, SameWindow DEF vars, ctrlVars
<1> QED
  BY <1>2, <1>3, <1>4, <1>5, <1>6, <1>7, <1>8, <1>9, <1>10, <1>11, <1>12,
     <1>13, <1>14 DEF Next

\* Types, tokens and window together are inductive.
IInv == TypeOK /\ TokenInv /\ WindowInv

\* Every step of the entity (pdcp_entity_rx.cpp) keeps the three together.
THEOREM Inductive ==
  ASSUME UnderflowRefused
  PROVE  Spec => []IInv
<1>1. Init => WindowInv
  <2> SUFFICES ASSUME Init PROVE WindowInv
    OBVIOUS
  <2>1. \A c \in Count : ~HasSn(rx_window, c)
    BY DEF Init, Empty, HasSn
  <2>2. WindowBounded /\ FirstMissing
    BY <2>1, WindowFacts, CountFacts DEF Init, WindowBounded, FirstMissing
  <2>3. ReorderingAhead /\ GapHasTimer /\ NoGapAtZero
    BY DEF Init, ReorderingAhead, GapHasTimer, NoGapAtZero
  <2>4. FlightInv
    BY DEF Init, FlightInv
  <2> QED
    BY <2>2, <2>3, <2>4 DEF WindowInv
<1>2. IInv /\ [Next]_vars => WindowInv'
  BY NextWindow DEF IInv
<1> QED
  BY <1>1, <1>2, TokensCounted, PTL DEF Spec, IInv

\* The window never outgrows its ring of slots and the loops of the expiry end
\* (pdcp_entity_rx.cpp:490, 837), whatever is lost, repeated, reordered or reset.
THEOREM WindowSafe ==
  ASSUME UnderflowRefused
  PROVE  Spec => [](WindowBounded /\ ReorderingAhead)
<1>1. IInv => WindowBounded /\ ReorderingAhead
  BY DEF IInv, WindowInv
<1> QED
  BY <1>1, Inductive, PTL

\* RX_DELIV is a COUNT still missing, across discarded tokens, expiries and
\* reestablishments: what is below it was handed up (pdcp_entity_rx.cpp:624).
THEOREM FirstIsMissing ==
  ASSUME UnderflowRefused
  PROVE  Spec => []FirstMissing
<1>1. IInv => FirstMissing
  BY DEF IInv, WindowInv
<1> QED
  BY <1>1, Inductive, PTL

\* No gap waits without a timer, and with a t-Reordering of 0 ms there is none.
THEOREM GapsClose ==
  ASSUME UnderflowRefused
  PROVE  Spec => [](GapHasTimer /\ NoGapAtZero)
<1>1. IInv => GapHasTimer /\ NoGapAtZero
  BY DEF IInv, WindowInv
<1> QED
  BY <1>1, Inductive, PTL

=============================================================================
