----------------------- MODULE PdcpRxDelivery_proofs -----------------------
(***************************************************************************)
(* What the receiving PDCP entity hands up: it implements SduDelivery, no  *)
(* COUNT is handed up twice, nothing stored is lost, and what integrity    *)
(* protection lets through goes up under the COUNT the peer sent.          *)
(***************************************************************************)
EXTENDS PdcpRx_proofs

-----------------------------------------------------------------------------
(* What was handed up.  The entity is open except from a suspension or a    *)
(* change of keys to the end of the buffering; while it is, or as long as   *)
(* its COUNTs have not started again at zero, all it handed up lies below   *)
(* RX_DELIV.                                                               *)

Open  == ~suspended /\ routine \notin {"resume", "modify", "end_buffering"}
Below == \A c \in Count : delivered[c] # <<>> => c < rx_deliv

HistoryInv ==
  /\ suspended => routine = "idle" /\ buffering /\ ~IsSrb
  /\ suspended \/ routine = "resume" => InFlight = 0 /\ rx_next = 0
  /\ NoCountReuse
  /\ Open \/ rx_next # 0 => Below

\* Handing up the stored SDUs up to "to" is what SduDelivery calls HandUp.
LEMMA DeliverHandsUp ==
  ASSUME TypeOK, HistoryInv, rx_next # 0 \/ Open,
         NEW w \in [Count -> Pdu \cup {None}], NEW to \in Count,
         Deliver(w, rx_deliv .. (to - 1))
  PROVE  /\ delivered' \in [Count -> Seq(Pdu)]
         /\ NoCountReuse'
         /\ \A c \in Count : delivered'[c] # delivered[c] =>
              /\ rx_deliv <= c /\ c < to
              /\ delivered[c] = <<>> /\ Len(delivered'[c]) = 1
<1>1. delivered' \in [Count -> Seq(Pdu)]
  BY DeliverType DEF TypeOK, RxTypeOK
<1>2. Below
  BY DEF HistoryInv
<1>3. ASSUME NEW c \in Count, delivered'[c] # delivered[c]
      PROVE  /\ rx_deliv <= c /\ c < to
             /\ delivered[c] = <<>> /\ Len(delivered'[c]) = 1
  <2>1. c \in rx_deliv .. (to - 1) /\ delivered'[c] = Append(delivered[c], w[c]) /\ w[c] \in Pdu
    BY <1>3 DEF Deliver, HasSn
  <2>2. c \in Nat /\ to \in Nat /\ rx_deliv <= c /\ c < to
    BY <2>1, CountFacts, CountArithmetic
  <2>3. delivered[c] = <<>>
    BY <1>2, <2>2, CountArithmetic DEF Below
  <2>4. Len(delivered'[c]) = 1
    BY <2>1, <2>3
  <2> QED
    BY <2>2, <2>3, <2>4
<1>4. NoCountReuse'
  <2>1. \A c \in Count : Len(delivered[c]) <= 1
    BY DEF HistoryInv, NoCountReuse
  <2>2. ASSUME NEW c \in Count PROVE Len(delivered'[c]) <= 1
    <3>1. CASE delivered'[c] = delivered[c]
      BY <2>1, <3>1
    <3>2. CASE delivered'[c] # delivered[c]
      <4>1. Len(delivered'[c]) = 1
        BY <1>3, <3>2
      <4> QED
        BY <4>1
    <3> QED
      BY <3>1, <3>2
  <2> QED
    BY <2>2 DEF NoCountReuse
<1> QED
  BY <1>1, <1>3, <1>4

\* The same with RX_DELIV moved on.
LEMMA DeliverUpToHandsUp ==
  ASSUME TypeOK, HistoryInv, rx_next # 0 \/ Open,
         NEW w \in [Count -> Pdu \cup {None}], NEW to \in Count, rx_deliv <= to,
         DeliverUpTo(w, to)
  PROVE  /\ delivered' \in [Count -> Seq(Pdu)] /\ rx_deliv' = to
         /\ NoCountReuse' /\ Below'
         /\ \A c \in Count : delivered'[c] # delivered[c] =>
              /\ rx_deliv <= c /\ c < to
              /\ delivered[c] = <<>> /\ Len(delivered'[c]) = 1
<1>1. rx_deliv' = to /\ Deliver(w, rx_deliv .. (to - 1))
  BY DEF DeliverUpTo
<1>2. Below
  BY DEF HistoryInv
<1>3. Below'
  BY <1>1, <1>2, DeliverHandsUp, CountFacts, CountArithmetic DEF Below
<1> QED
  BY <1>1, <1>3, DeliverHandsUp

\* A task in flight says that the entity is open.
LEMMA TakeUeTaskOpen ==
  ASSUME TypeOK, HistoryInv, NEW verdict, TakeUeTask(verdict)
  PROVE  /\ Open /\ ~suspended /\ routine # "resume"
         /\ UNCHANGED <<suspended, routine, buffering>> /\ InFlight > 0
<1>1. Len(ue_queue) > 0
  BY DEF TakeUeTask, TypeOK, FlightTypeOK
<1>2. InFlight > 0
  BY <1>1, FlightFacts DEF InFlight
<1> QED
  BY <1>2, FlightFacts
     DEF HistoryInv, Open, TakeUeTask, StrandFree, Awaiting, ctrlVars, bufVars

LEMMA StoreHistory ==
  ASSUME IInv, HistoryInv, StorePdu
  PROVE  /\ HistoryInv' /\ Delivery!Advance
<1>1. PICK count \in Count, sdu \in Pdu, to \in Count : StoredAs(count, sdu, to)
  BY StoreFacts DEF IInv
<1> DEFINE w == [rx_window EXCEPT ![count] = sdu]
<1>2. w \in [Count -> Pdu \cup {None}]
  BY DEF IInv, TypeOK, RxTypeOK
<1>3. rx_deliv <= to /\ DeliverUpTo(w, to)
  BY <1>1 DEF StoredAs
<1> HIDE DEF w
<1>4. Open /\ ~suspended /\ routine # "resume" /\ UNCHANGED <<suspended, routine, buffering>>
  BY TakeUeTaskOpen DEF StorePdu, IInv
<1>5. /\ delivered' \in [Count -> Seq(Pdu)] /\ rx_deliv' = to
      /\ NoCountReuse' /\ Below'
      /\ \A c \in Count : delivered'[c] # delivered[c] =>
           rx_deliv <= c /\ c < to /\ delivered[c] = <<>> /\ Len(delivered'[c]) = 1
  BY <1>2, <1>3, <1>4, DeliverUpToHandsUp DEF IInv
<1>6. HistoryInv'
  BY <1>4, <1>5 DEF HistoryInv
<1>7. Delivery!Advance
  BY <1>3, <1>4, <1>5 DEF Delivery!Advance, Delivery!HandUp, Open
<1> QED
  BY <1>6, <1>7

LEMMA ExpireHistory ==
  ASSUME IInv, HistoryInv, ReorderingExpire
  PROVE  HistoryInv' /\ (Delivery!Advance \/ UNCHANGED <<rx_deliv, delivered, suspended, routine>>)
<1>1. /\ UNCHANGED <<suspended, routine, buffering, flight, rx_next>>
      /\ rx_next # 0 /\ routine \in {"idle"} \cup Awaiting
      /\ rx_deliv < rx_reord /\ rx_reord <= rx_next
  BY CountArithmetic
     DEF ReorderingExpire, StrandIdle, StrandFree, IInv, WindowInv, ReorderingAhead,
         ctrlVars, bufVars, st
<1>2. Open /\ ~suspended /\ routine # "resume"
  BY <1>1 DEF HistoryInv, Open, Awaiting
<1>3. CASE stopped
  <2>1. UNCHANGED <<rx_deliv, delivered>>
    BY <1>3 DEF ReorderingExpire, st
  <2> QED
    BY <1>1, <1>2, <2>1 DEF HistoryInv, NoCountReuse, Open, Below
<1>4. CASE ~stopped
  <2>1. PICK to \in rx_reord .. rx_next : DeliverUpTo(rx_window, to)
    BY <1>4 DEF ReorderingExpire
  <2>2. to \in Count /\ rx_deliv <= to
    BY <1>1, <2>1, CountArithmetic, CountFacts DEF IInv, TypeOK, RxTypeOK
  <2>3. /\ delivered' \in [Count -> Seq(Pdu)] /\ rx_deliv' = to
        /\ NoCountReuse' /\ Below'
        /\ \A c \in Count : delivered'[c] # delivered[c] =>
             rx_deliv <= c /\ c < to /\ delivered[c] = <<>> /\ Len(delivered'[c]) = 1
    BY <1>1, <2>1, <2>2, DeliverUpToHandsUp DEF IInv, TypeOK, RxTypeOK
  <2>4. HistoryInv'
    BY <1>1, <1>2, <2>3 DEF HistoryInv
  <2>5. Delivery!Advance
    BY <1>1, <1>2, <2>2, <2>3 DEF Delivery!Advance, Delivery!HandUp, Open
  <2> QED
    BY <2>4, <2>5
<1> QED
  BY <1>3, <1>4

\* What reestablish() and suspend() hand up before they start again at zero.
LEMMA DeliverAllHandsUp ==
  ASSUME IInv, HistoryInv, Deliver(rx_window, rx_deliv .. (rx_next - 1))
  PROVE  /\ delivered' \in [Count -> Seq(Pdu)] /\ NoCountReuse'
         /\ Delivery!HandUp(rx_next)
<1>1. rx_next \in Count /\ rx_window \in [Count -> Pdu \cup {None}]
  BY DEF IInv, TypeOK, RxTypeOK
<1>2. CASE rx_next # 0 \/ Open
  BY <1>1, <1>2, DeliverHandsUp DEF IInv, Delivery!HandUp
<1>3. CASE rx_next = 0
  <2>1. \A c \in Count : ~HasSn(rx_window, c)
    BY <1>3, CountFacts, CountArithmetic DEF IInv, WindowInv, WindowBounded
  <2>2. delivered' = [c \in Count |-> delivered[c]]
    BY <2>1 DEF Deliver
  <2>3. delivered' = delivered
    BY <2>2 DEF IInv, TypeOK, RxTypeOK
  <2> QED
    BY <2>3 DEF Delivery!HandUp, IInv, TypeOK, RxTypeOK, HistoryInv, NoCountReuse
<1> QED
  BY <1>2, <1>3

\* Closed to closed, or open to closed.
LEMMA SuspendHistory ==
  ASSUME IInv, HistoryInv, Suspend
  PROVE  HistoryInv' /\ Delivery!Close
<1>1. /\ suspended' = TRUE /\ routine' = "idle" /\ rx_next' = 0 /\ rx_deliv' = 0
      /\ routine = "suspend" /\ UNCHANGED buffering /\ UNCHANGED flight
      /\ pending_crypto
  BY DEF Suspend, ResetState, Drained, bufVars
<1>2. InFlight' = 0 /\ buffering /\ ~IsSrb
  BY <1>1, SameFlight DEF IInv, TokenInv, TypeOK, CtrlTypeOK, Awaiting
<1>3. NoCountReuse' /\ Delivery!HandUp(rx_next)
  BY DeliverAllHandsUp DEF Suspend
<1>4. HistoryInv'
  BY <1>1, <1>2, <1>3 DEF HistoryInv, Open
<1>5. Delivery!Close
  BY <1>1, <1>3, CountFacts DEF Delivery!Close, IInv, TypeOK, RxTypeOK
<1> QED
  BY <1>4, <1>5

LEMMA ModifyHistory ==
  ASSUME IInv, HistoryInv, ModifyBearer
  PROVE  HistoryInv' /\ Delivery!Close
<1>1. /\ routine = "modify" /\ routine' = "end_buffering" /\ ~suspended
      /\ UNCHANGED suspended
  BY DEF ModifyBearer, HistoryInv
<1>2. CASE Deliver(rx_window, rx_deliv .. (rx_next - 1)) /\ ResetState
  <2>1. rx_next' = 0 /\ rx_deliv' \in Count
    BY <1>2, CountFacts DEF ResetState
  <2>2. NoCountReuse' /\ Delivery!HandUp(rx_next)
    BY <1>2, DeliverAllHandsUp
  <2> QED
    BY <1>1, <2>1, <2>2
       DEF HistoryInv, Open, Delivery!Close, IInv, TypeOK, RxTypeOK
<1>3. CASE UNCHANGED <<rxVars, delivered>>
  <2>1. Delivery!HandUp(rx_next)
    BY <1>3 DEF Delivery!HandUp, IInv, TypeOK, RxTypeOK
  <2>2. HistoryInv'
    BY <1>1, <1>3 DEF HistoryInv, Open, Below, NoCountReuse, rxVars, st
  <2> QED
    BY <1>1, <1>3, <2>1, <2>2
       DEF Delivery!Close, IInv, TypeOK, RxTypeOK, rxVars, st
<1>4. ASSUME NEW c \in PeerCounts, SetCount(c) PROVE HistoryInv' /\ Delivery!Close
  <2>1. delivered = NothingDelivered /\ delivered' = delivered /\ rx_deliv' = c /\ c \in Count
    BY <1>4, BoundAssumption DEF SetCount
  <2>2. Delivery!HandUp(rx_next)
    BY <2>1 DEF Delivery!HandUp, IInv, TypeOK, RxTypeOK
  <2>3. NoCountReuse' /\ Below'
    BY <2>1 DEF NoCountReuse, Below, NothingDelivered
  <2> QED
    BY <1>1, <2>1, <2>2, <2>3
       DEF HistoryInv, Open, Delivery!Close, IInv, TypeOK, RxTypeOK
<1> QED
  BY <1>2, <1>3, <1>4 DEF ModifyBearer, Reestablish

LEMMA EndBufferingHistory ==
  ASSUME IInv, HistoryInv, EndBuffering
  PROVE  HistoryInv' /\ Delivery!Next
<1>1. /\ routine = "end_buffering" /\ routine' = "flush" /\ ~suspended
      /\ UNCHANGED <<suspended, rx_next, rx_deliv>>
      /\ delivered' = IF rx_next = 0 THEN NothingDelivered ELSE delivered
  BY DEF EndBuffering, HistoryInv, rxVars, st
<1>2. Open' /\ rx_deliv \in Count
  BY <1>1 DEF Open, IInv, TypeOK, RxTypeOK
<1>3. CASE rx_next = 0
  <2>1. rx_deliv = 0 /\ delivered' = NothingDelivered
    BY <1>1, <1>3, CountArithmetic DEF IInv, WindowInv, WindowBounded
  <2>2. NoCountReuse' /\ Below'
    BY <2>1 DEF NoCountReuse, Below, NothingDelivered
  <2>3. Delivery!Renew
    BY <1>1, <1>2, <2>1 DEF Delivery!Renew, Delivery!Nothing, NothingDelivered, Open
  <2> QED
    BY <1>1, <2>2, <2>3 DEF HistoryInv, Delivery!Next
<1>4. CASE rx_next # 0
  <2>1. Below /\ UNCHANGED delivered
    BY <1>1, <1>4 DEF HistoryInv
  <2>2. HistoryInv'
    BY <1>1, <2>1 DEF HistoryInv, NoCountReuse, Below
  <2>3. Delivery!Reopen
    BY <1>1, <1>2, <2>1 DEF Delivery!Reopen, Below, Open
  <2> QED
    BY <2>2, <2>3 DEF Delivery!Next
<1> QED
  BY <1>3, <1>4

\* The actions that neither deliver nor open nor close.
LEMMA SameHistory ==
  ASSUME IInv, HistoryInv,
         UNCHANGED <<rx_next, rx_deliv, delivered, suspended>>,
         Open' = Open, suspended => UNCHANGED <<routine, buffering>>,
         suspended \/ routine' = "resume" => InFlight' = 0 /\ rx_next = 0
  PROVE  HistoryInv' /\ UNCHANGED Delivery!vars
<1>1. HistoryInv'
  BY DEF HistoryInv, NoCountReuse, Below
<1>2. UNCHANGED Delivery!vars
  BY DEF Delivery!vars, Open
<1> QED
  BY <1>1, <1>2

LEMMA NextHistory ==
  ASSUME IInv, HistoryInv, [Next]_vars
  PROVE  HistoryInv' /\ [Delivery!Next]_(Delivery!vars)
<1> DEFINE Result == HistoryInv' /\ [Delivery!Next]_(Delivery!vars)
<1> SUFFICES Result
  OBVIOUS
<1>1. ASSUME UNCHANGED <<rxVars, delivered, suspended, routine, buffering>>,
             suspended \/ routine = "resume" => InFlight' = 0
      PROVE  Result
  BY <1>1, SameHistory DEF rxVars, st, Open, HistoryInv
<1>2. ASSUME NEW pdu \in Arriving, HandlePdu(pdu) PROVE Result
  <2>1. UNCHANGED <<rxVars, delivered, suspended, routine, buffering>>
    BY <1>2 DEF HandlePdu
  <2>2. suspended \/ routine = "resume" => UNCHANGED flight
    BY <1>2 DEF HandlePdu, HistoryInv, IInv, TokenInv, Awaiting, flight
  <2> QED
    BY <1>1, <2>1, <2>2, SameFlight DEF HistoryInv
<1>3. CASE Flush
  <2>1. /\ UNCHANGED <<rx_next, rx_deliv, delivered, suspended>>
        /\ routine = "flush" /\ routine' \in {"flush", "idle"} /\ ~suspended
    BY <1>3 DEF Flush, HistoryInv, rxVars, st
  <2> QED
    BY <2>1, SameHistory DEF Open
<1>4. ASSUME NEW s \in CryptoSlots, ApplySecurity(s) PROVE Result
  <2>1. UNCHANGED <<rxVars, delivered, suspended, routine, buffering>>
    BY <1>4 DEF ApplySecurity, bufVars, ctrlVars
  <2>2. InFlight # 0
    BY <1>4, FlightFacts DEF ApplySecurity, NothingInFlight, IInv
  <2> QED
    BY <1>1, <2>1, <2>2 DEF HistoryInv
<1>5. CASE SecurityFailure \/ DropPdu
  <2>1. PICK verdict : TakeUeTask(verdict)
    BY <1>5 DEF SecurityFailure, DropPdu
  <2>2. UNCHANGED <<rxVars, delivered>>
    BY <1>5 DEF SecurityFailure, DropPdu
  <2> QED
    BY <1>1, <2>1, <2>2, TakeUeTaskOpen DEF IInv
<1>6. CASE StorePdu
  BY <1>6, StoreHistory DEF Delivery!Next
<1>7. CASE ReorderingExpire
  BY <1>7, ExpireHistory DEF Delivery!Next, Delivery!vars
<1>8. ASSUME NEW kind \in {"suspend", "rekey", "resume"}, BeginRoutine(kind)
      PROVE  Result
  <2>1. /\ UNCHANGED <<rx_next, rx_deliv, delivered, flight>>
        /\ routine = "idle" /\ routine' = kind /\ ~IsSrb
        /\ suspended' = (suspended /\ kind # "resume")
        /\ kind = "resume" <=> suspended
    BY <1>8 DEF BeginRoutine, rxVars, st
  <2>2. Open' = Open /\ ~suspended'
    BY <2>1 DEF Open
  <2>3. routine' = "resume" => InFlight' = 0 /\ rx_next = 0
    BY <2>1, SameFlight DEF HistoryInv
  <2>4. HistoryInv'
    BY <2>1, <2>2, <2>3 DEF HistoryInv, NoCountReuse, Below
  <2> QED
    BY <2>1, <2>2, <2>4 DEF Delivery!vars, Open
<1>9. CASE Suspend
  BY <1>9, SuspendHistory DEF Delivery!Next
<1>10. CASE Rekey
  <2>1. /\ UNCHANGED <<rx_next, rx_deliv, delivered, suspended>>
        /\ routine \in {"rekey", "resume"} /\ routine' = "modify" /\ ~suspended
    BY <1>10 DEF Rekey, HistoryInv, rxVars, st
  <2>2. HistoryInv'
    BY <2>1 DEF HistoryInv, Open, NoCountReuse, Below
  <2>3. Delivery!Close
    BY <2>1 DEF Delivery!Close, Delivery!HandUp, Open, IInv, TypeOK, RxTypeOK
  <2> QED
    BY <2>2, <2>3 DEF Delivery!Next
<1>11. CASE ModifyBearer
  BY <1>11, ModifyHistory DEF Delivery!Next
<1>12. CASE EndBuffering
  BY <1>12, EndBufferingHistory
<1>13. CASE ReestablishSrb
  <2>1. /\ delivered' = NothingDelivered /\ rx_deliv' = 0 /\ IsSrb
        /\ UNCHANGED <<suspended, routine>>
    BY <1>13 DEF ReestablishSrb, ResetState
  <2>2. ~suspended /\ routine = "idle"
    BY <2>1 DEF HistoryInv, IInv, TypeOK, CtrlTypeOK
  <2>3. NoCountReuse' /\ Below'
    BY <2>1 DEF NoCountReuse, Below, NothingDelivered
  <2>4. Delivery!Renew
    BY <2>1, <2>2 DEF Delivery!Renew, Delivery!Nothing, NothingDelivered
  <2> QED
    BY <2>1, <2>2, <2>3, <2>4 DEF HistoryInv, Delivery!Next
<1>14. CASE StopForRelease \/ RemoveSession
  <2>1. UNCHANGED <<rx_next, rx_deliv, delivered, suspended, routine, buffering, flight>>
    BY <1>14 DEF StopForRelease, RemoveSession, Stop, st, bufVars
  <2> QED
    BY <2>1, SameHistory, SameFlight DEF Open, HistoryInv
<1>15. CASE Destroy
  BY <1>1, <1>15, SameFlight DEF Destroy, HistoryInv, bufVars
<1>16. CASE UNCHANGED vars
  BY <1>1, <1>16, SameFlight DEF vars, HistoryInv, bufVars, ctrlVars
<1> QED
  BY <1>2, <1>3, <1>4, <1>5, <1>6, <1>7, <1>8, <1>9, <1>10, <1>11, <1>12,
     <1>13, <1>14, <1>15, <1>16 DEF Next

LEMMA InitHistory == Init => HistoryInv /\ Delivery!Init
<1> SUFFICES ASSUME Init PROVE HistoryInv /\ Delivery!Init
  OBVIOUS
<1>1. delivered = NothingDelivered /\ ~suspended /\ routine = "idle" /\ rx_deliv = 0
  BY DEF Init
<1>2. NoCountReuse /\ Below
  BY <1>1 DEF NoCountReuse, Below, NothingDelivered
<1> QED
  BY <1>1, <1>2 DEF HistoryInv, Delivery!Init, Delivery!Nothing, NothingDelivered

\* The inductive invariant of the deliveries, which the theorems below rest on:
\* what was handed up lies below RX_DELIV (pdcp_entity_rx.cpp:379).
THEOREM HistoryInductive ==
  ASSUME UnderflowRefused
  PROVE  Spec => [](IInv /\ HistoryInv)
<1>1. IInv /\ HistoryInv /\ [Next]_vars => HistoryInv'
  BY NextHistory
<1> QED
  BY <1>1, InitHistory, Inductive, PTL DEF Spec

\* No COUNT is handed up twice under one key (TS 38.323; the reset of suspend,
\* pdcp_entity_rx.cpp:161, included).
THEOREM NoReuse ==
  ASSUME UnderflowRefused
  PROVE  Spec => []NoCountReuse
<1>1. HistoryInv => NoCountReuse
  BY DEF HistoryInv
<1> QED
  BY <1>1, HistoryInductive, PTL

\* The receiving entity implements what SduDelivery promises.
THEOREM Implements ==
  ASSUME UnderflowRefused
  PROVE  Spec => KeepsDeliveryPromise
<1>1. Init => Delivery!Init
  BY InitHistory
<1>2. IInv /\ HistoryInv /\ [Next]_vars => [Delivery!Next]_(Delivery!vars)
  BY NextHistory
<1> QED
  BY <1>1, <1>2, HistoryInductive, PTL DEF Spec, KeepsDeliveryPromise, Delivery!Spec

-----------------------------------------------------------------------------
(* Nothing stored is lost.                                                 *)

LossFree == \A c \in Count :
  HasSn(rx_window, c) /\ ~HasSn(rx_window', c) =>
    \/ IsSrb /\ key' # key
    \/ delivered'[c] = Append(delivered[c], rx_window[c])

\* What leaves the window within S is handed up when S is delivered from it.
LEMMA RemovedIsDelivered ==
  ASSUME NEW S, Deliver(rx_window, S), rx_window' = RemoveAll(rx_window, S)
  PROVE  LossFree
BY DEF Deliver, RemoveAll, HasSn, LossFree

LEMMA StoreLossFree ==
  ASSUME TypeOK, WindowInv, StorePdu
  PROVE  LossFree
<1>1. PICK count \in Count, sdu \in Pdu, to \in Count : StoredAs(count, sdu, to)
  BY StoreFacts
<1> DEFINE w == [rx_window EXCEPT ![count] = sdu]
<1>2. /\ ~HasSn(rx_window, count)
      /\ Deliver(w, rx_deliv .. (to - 1))
      /\ rx_window' = RemoveAll(w, rx_deliv .. (to - 1))
  BY <1>1 DEF StoredAs, DeliverUpTo
<1>3. \A c \in Count : c # count => w[c] = rx_window[c]
  BY DEF TypeOK, RxTypeOK
<1> HIDE DEF w
<1> QED
  BY <1>2, <1>3 DEF LossFree, Deliver, RemoveAll, HasSn

LEMMA NextLossFree ==
  ASSUME IInv, [Next]_vars
  PROVE  LossFree
<1>1. CASE UNCHANGED rx_window
  BY <1>1 DEF LossFree
<1>2. CASE StorePdu
  BY <1>2, StoreLossFree DEF IInv
<1>3. CASE ReorderingExpire
  <2>1. CASE ~stopped
    BY <1>3, <2>1, RemovedIsDelivered DEF ReorderingExpire, DeliverUpTo
  <2> QED
    BY <1>1, <1>3, <2>1 DEF ReorderingExpire
<1>4. CASE Suspend \/ ModifyBearer
  BY <1>1, <1>4, RemovedIsDelivered
     DEF Suspend, ModifyBearer, Reestablish, SetCount, ResetState, rxVars
<1>5. CASE ReestablishSrb
  <2>1. IsSrb /\ key' # key
    BY <1>5 DEF ReestablishSrb, IInv, TypeOK, CtrlTypeOK
  <2> QED
    BY <2>1 DEF LossFree
<1>6. \/ UNCHANGED rx_window \/ StorePdu \/ ReorderingExpire \/ Suspend
      \/ ModifyBearer \/ ReestablishSrb
  BY DEF Next, HandlePdu, Flush, ApplySecurity, SecurityFailure, DropPdu, BeginRoutine,
         Rekey, EndBuffering, StopForRelease, Destroy, RemoveSession, Stop, rxVars, vars
<1> QED
  BY <1>1, <1>2, <1>3, <1>4, <1>5, <1>6

\* A stored SDU leaves the window only upwards (pdcp_entity_rx.cpp:490 and 587),
\* except on an SRB that is re-established.
THEOREM NothingLost ==
  ASSUME UnderflowRefused
  PROVE  Spec => NoSilentLoss
<1>1. IInv /\ [Next]_vars => [LossFree]_vars
  BY NextLossFree
<1> QED
  BY <1>1, Inductive, PTL DEF Spec, NoSilentLoss, LossFree

-----------------------------------------------------------------------------
(* With integrity protection the receiver's COUNT is the peer's.           *)

AuthenticInv ==
  /\ \A c \in Count : HasSn(rx_window, c) => rx_window[c].count = c
  /\ \A i \in 1 .. Len(ue_queue) : ue_queue[i].verdict = "success" =>
       ue_queue[i].pdu.count = ue_queue[i].count
  /\ \A c \in Count : \A i \in 1 .. Len(delivered[c]) : delivered[c][i].count = c

LEMMA DeliverAuthentic ==
  ASSUME TypeOK, AuthenticInv, NEW S, NEW w \in [Count -> Pdu \cup {None}], Deliver(w, S),
         \A c \in Count : HasSn(w, c) => w[c].count = c
  PROVE  \A c \in Count : \A i \in 1 .. Len(delivered'[c]) : delivered'[c][i].count = c
<1> SUFFICES ASSUME NEW c \in Count, NEW i \in 1 .. Len(delivered'[c])
             PROVE  delivered'[c][i].count = c
  OBVIOUS
<1>1. delivered[c] \in Seq(Pdu)
  BY DEF TypeOK, RxTypeOK
<1>2. CASE delivered'[c] = delivered[c]
  BY <1>2 DEF AuthenticInv
<1>3. CASE HasSn(w, c) /\ delivered'[c] = Append(delivered[c], w[c])
  <2>1. delivered'[c][i] = w[c] \/ (i \in 1 .. Len(delivered[c]) /\ delivered'[c][i] = delivered[c][i])
    BY <1>1, <1>3 DEF HasSn
  <2> QED
    BY <1>3, <2>1 DEF AuthenticInv
<1> QED
  BY <1>2, <1>3 DEF Deliver

LEMMA NextAuthentic ==
  ASSUME IntegrityEnabled, TypeOK, AuthenticInv, [Next]_vars
  PROVE  AuthenticInv'
<1> DEFINE InWindow  == \A c \in Count : HasSn(rx_window, c) => rx_window[c].count = c
           InQueue   == \A i \in 1 .. Len(ue_queue) : ue_queue[i].verdict = "success" =>
                          ue_queue[i].pdu.count = ue_queue[i].count
           HandedUp  == \A c \in Count : \A i \in 1 .. Len(delivered[c]) :
                          delivered[c][i].count = c
<1>1. InWindow /\ InQueue /\ HandedUp /\ rx_window \in [Count -> Pdu \cup {None}]
  BY DEF AuthenticInv, TypeOK, RxTypeOK
<1>2. UNCHANGED rx_window => InWindow'
  BY <1>1 DEF HasSn
<1>3. UNCHANGED ue_queue => InQueue'
  BY <1>1
<1>4. UNCHANGED delivered => HandedUp'
  BY <1>1
<1>5. ASSUME UNCHANGED <<rx_window, ue_queue, delivered>> PROVE AuthenticInv'
  BY <1>2, <1>3, <1>4, <1>5 DEF AuthenticInv
<1>6. ASSUME NEW s \in CryptoSlots, ApplySecurity(s) PROVE AuthenticInv'
  <2>1. UNCHANGED <<rx_window, delivered>>
    BY <1>6 DEF ApplySecurity, rxVars
  <2>2. \/ UNCHANGED ue_queue
        \/ ue_queue' = Append(ue_queue, [verdict |-> Decipher(crypto[s]),
                                         count |-> crypto[s].count, pdu |-> crypto[s].pdu])
    BY <1>6 DEF ApplySecurity
  <2>3. Decipher(crypto[s]) = "success" => crypto[s].pdu.count = crypto[s].count
    BY DEF Decipher
  <2> DEFINE r == [verdict |-> Decipher(crypto[s]), count |-> crypto[s].count,
                   pdu |-> crypto[s].pdu]
  <2>4. r.verdict = "success" => r.pdu.count = r.count
    BY <2>3
  <2> HIDE DEF r
  <2>5. ASSUME NEW i \in 1 .. Len(ue_queue'), ue_queue' = Append(ue_queue, r)
        PROVE  ue_queue'[i] = r \/ (i \in 1 .. Len(ue_queue) /\ ue_queue'[i] = ue_queue[i])
    BY <2>5 DEF TypeOK, FlightTypeOK
  <2>6. InQueue'
    BY <1>1, <1>3, <2>2, <2>4, <2>5 DEF r
  <2> QED
    BY <1>2, <1>4, <2>1, <2>6 DEF AuthenticInv
<1>7. ASSUME NEW verdict, TakeUeTask(verdict) PROVE InQueue'
  <2>1. \A i \in 1 .. Len(ue_queue') :
           \E j \in 1 .. Len(ue_queue) : ue_queue'[i] = ue_queue[j]
    BY <1>7 DEF TakeUeTask, TypeOK, FlightTypeOK
  <2> QED
    BY <1>1, <2>1
<1>8. CASE SecurityFailure \/ DropPdu
  BY <1>2, <1>4, <1>7, <1>8 DEF SecurityFailure, DropPdu, AuthenticInv, rxVars
<1>9. ASSUME NEW w \in [Count -> Pdu \cup {None}], NEW S, Deliver(w, S),
             \A c \in Count : HasSn(w, c) => w[c].count = c,
             rx_window' = RemoveAll(w, S)
      PROVE  InWindow' /\ HandedUp'
  <2>1. HandedUp'
    BY <1>9, DeliverAuthentic
  <2>2. InWindow'
    BY <1>9 DEF RemoveAll, HasSn
  <2> QED
    BY <2>1, <2>2
<1>10. CASE StorePdu
  <2> DEFINE task == Head(ue_queue)
             w    == AddSn(rx_window, task.count, task.pdu)
  <2>1. TakeUeTask("success") /\ task.verdict = "success" /\ ue_queue # <<>>
    BY <1>10 DEF StorePdu, TakeUeTask
  <2>2. task \in UeTask /\ task.pdu.count = task.count
    BY <1>1, <2>1, TakeUeTaskType DEF TypeOK, FlightTypeOK
  <2>3. PICK to : DeliverUpTo(w, to)
    BY <1>10 DEF StorePdu
  <2>4. w \in [Count -> Pdu \cup {None}]
    BY <1>1, <2>2 DEF AddSn, UeTask
  <2>5. \A c \in Count : HasSn(w, c) => w[c].count = c
    BY <1>1, <2>2 DEF AddSn, HasSn
  <2> HIDE DEF w
  <2>6. InWindow' /\ HandedUp'
    BY <1>9, <2>3, <2>4, <2>5 DEF DeliverUpTo
  <2> QED
    BY <1>7, <2>1, <2>6 DEF AuthenticInv
<1>11. CASE ReorderingExpire
  <2>1. UNCHANGED ue_queue
    BY <1>11 DEF ReorderingExpire, flight
  <2>2. CASE stopped
    BY <1>5, <1>11, <2>1, <2>2 DEF ReorderingExpire
  <2>3. CASE ~stopped
    <3>1. PICK to : DeliverUpTo(rx_window, to)
      BY <1>11, <2>3 DEF ReorderingExpire
    <3> QED
      BY <1>1, <1>3, <1>9, <2>1, <3>1 DEF DeliverUpTo, AuthenticInv
  <2> QED
    BY <2>2, <2>3
<1>12. ASSUME Deliver(rx_window, rx_deliv .. (rx_next - 1)), ResetState, UNCHANGED flight
       PROVE  AuthenticInv'
  BY <1>1, <1>3, <1>9, <1>12 DEF ResetState, flight, AuthenticInv
<1>13. CASE Suspend \/ ModifyBearer
  BY <1>5, <1>12, <1>13 DEF Suspend, ModifyBearer, Reestablish, SetCount, rxVars, flight
<1>14. ASSUME delivered' = NothingDelivered, UNCHANGED flight,
              UNCHANGED rx_window \/ ResetState
       PROVE  AuthenticInv'
  <2>1. HandedUp'
    BY <1>14 DEF NothingDelivered
  <2>2. InWindow'
    BY <1>1, <1>2, <1>14 DEF ResetState, RemoveAll, HasSn
  <2> QED
    BY <1>3, <1>14, <2>1, <2>2 DEF flight, AuthenticInv
<1>15. CASE EndBuffering \/ ReestablishSrb
  BY <1>5, <1>14, <1>15 DEF EndBuffering, ReestablishSrb, rxVars, flight
<1>16. CASE (\E pdu \in Arriving : HandlePdu(pdu)) \/ Flush
  BY <1>5, <1>16 DEF HandlePdu, Flush, rxVars
<1>17. CASE (\E kind \in {"suspend", "rekey", "resume"} : BeginRoutine(kind))
            \/ Rekey \/ StopForRelease \/ Destroy \/ RemoveSession \/ UNCHANGED vars
  BY <1>5, <1>17 DEF BeginRoutine, Rekey, StopForRelease, Destroy, RemoveSession, Stop,
                     rxVars, flight, vars
<1> QED
  BY <1>6, <1>8, <1>10, <1>11, <1>13, <1>15, <1>16, <1>17 DEF Next

\* With integrity protection an SDU goes up only under the COUNT at which the
\* peer sent it (pdcp_entity_rx.cpp:331 and 689), for any COUNTs and any order.
THEOREM AuthenticCount ==
  ASSUME IntegrityEnabled
  PROVE  Spec => []Authentic
<1>1. Init => AuthenticInv
  BY DEF Init, AuthenticInv, Empty, NothingDelivered, HasSn
<1>2. TypeOK /\ AuthenticInv /\ [Next]_vars => AuthenticInv'
  BY NextAuthentic
<1>3. AuthenticInv => Authentic
  BY DEF AuthenticInv, Authentic
<1> QED
  BY <1>1, <1>2, <1>3, TypeCorrect, PTL DEF Spec

-----------------------------------------------------------------------------
(* The order of what is handed up.                                         *)

UpInOrder ==
  \A c \in Count : Len(delivered'[c]) > Len(delivered[c]) =>
    \A d \in Count : delivered[d] # <<>> => d < c

\* What is handed up from RX_DELIV on comes after all that lies below it.
LEMMA DeliverInOrder ==
  ASSUME TypeOK, Below, NEW w, NEW to, Deliver(w, rx_deliv .. (to - 1))
  PROVE  UpInOrder
<1>1. \A c \in Count : c \in Nat
  BY CountFacts
<1>2. ASSUME NEW c \in Count, Len(delivered'[c]) > Len(delivered[c]) PROVE rx_deliv <= c
  <2>1. delivered'[c] # delivered[c]
    BY <1>2, DeliverType DEF TypeOK, RxTypeOK, Deliver
  <2> QED
    BY <2>1 DEF Deliver
<1> QED
  BY <1>1, <1>2, CountFacts DEF UpInOrder, Below, TypeOK, RxTypeOK

\* Before the COUNTs start again at zero nothing, or all that is stored, goes up.
LEMMA DeliverAllInOrder ==
  ASSUME IInv, HistoryInv, Deliver(rx_window, rx_deliv .. (rx_next - 1))
  PROVE  UpInOrder
<1>1. CASE rx_next # 0
  BY <1>1, DeliverInOrder DEF IInv, HistoryInv
<1>2. CASE rx_next = 0
  <2>1. \A c \in Count : ~HasSn(rx_window, c)
    BY <1>2, CountFacts, CountArithmetic DEF IInv, WindowInv, WindowBounded
  <2>2. \A c \in Count : delivered'[c] = delivered[c]
    BY <2>1 DEF Deliver
  <2>3. \A c \in Count : Len(delivered[c]) \in Nat
    BY DEF IInv, TypeOK, RxTypeOK
  <2> QED
    BY <2>2, <2>3 DEF UpInOrder
<1> QED
  BY <1>1, <1>2

LEMMA NextInOrder ==
  ASSUME IInv, HistoryInv, [Next]_vars
  PROVE  UpInOrder
<1>1. \A c \in Count : Len(delivered[c]) \in Nat
  BY DEF IInv, TypeOK, RxTypeOK
<1>2. CASE UNCHANGED delivered
  BY <1>1, <1>2 DEF UpInOrder
<1>3. CASE delivered' = NothingDelivered
  BY <1>1, <1>3 DEF UpInOrder, NothingDelivered
<1>4. CASE StorePdu
  <2>1. Below
    BY <1>4, TakeUeTaskOpen DEF StorePdu, IInv, HistoryInv
  <2>2. PICK w, to : DeliverUpTo(w, to)
    BY <1>4 DEF StorePdu
  <2> QED
    BY <2>1, <2>2, DeliverInOrder DEF DeliverUpTo, IInv
<1>5. CASE ReorderingExpire
  <2>1. CASE stopped
    BY <1>2, <1>5, <2>1 DEF ReorderingExpire
  <2>2. CASE ~stopped
    <3>1. PICK to \in rx_reord .. rx_next : DeliverUpTo(rx_window, to)
      BY <1>5, <2>2 DEF ReorderingExpire
    <3>2. rx_next # 0
      BY <1>5, CountArithmetic
         DEF ReorderingExpire, IInv, WindowInv, ReorderingAhead
    <3> QED
      BY <3>1, <3>2, DeliverInOrder DEF DeliverUpTo, HistoryInv, IInv
  <2> QED
    BY <2>1, <2>2
<1>6. CASE Suspend \/ ModifyBearer
  BY <1>2, <1>6, DeliverAllInOrder DEF Suspend, ModifyBearer, Reestablish, SetCount
<1>7. CASE EndBuffering \/ ReestablishSrb
  BY <1>2, <1>3, <1>7 DEF EndBuffering, ReestablishSrb
<1>8. \/ UNCHANGED delivered \/ StorePdu \/ ReorderingExpire \/ Suspend \/ ModifyBearer
      \/ EndBuffering \/ ReestablishSrb
  BY DEF Next, HandlePdu, Flush, ApplySecurity, SecurityFailure, DropPdu, BeginRoutine,
         Rekey, StopForRelease, Destroy, RemoveSession, Stop, rxVars, vars
<1> QED
  BY <1>2, <1>4, <1>5, <1>6, <1>7, <1>8

\* Within one COUNT space SDUs are handed up in ascending order of COUNT, in whatever
\* order the crypto workers finish and whatever the timer gives up
\* (pdcp_entity_rx.cpp:379).
THEOREM DeliveredInOrder ==
  ASSUME UnderflowRefused
  PROVE  Spec => InOrder
<1>1. IInv /\ HistoryInv /\ [Next]_vars => [UpInOrder]_vars
  BY NextInOrder
<1> QED
  BY <1>1, HistoryInductive, PTL DEF Spec, InOrder, UpInOrder
=============================================================================
