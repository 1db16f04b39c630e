---------------------------- MODULE PdcpTx_proofs ----------------------------
(***************************************************************************)
(* Proofs about the transmitting PDCP entity, for both RLC modes, every SN *)
(* and HFN size, every discard time, number of crypto workers and queue    *)
(* capacity, with or without failures, suspensions and releases.           *)
(*                                                                         *)
(* Invariants, each of which rests on those before it:                     *)
(*   TypeOK and CtrlInv       where a routine may be, and when it buffers; *)
(*   WindowOrdered, AgeInv    what the window holds, and how old it is;    *)
(*   TokenInv                 the tokens against the tasks in flight;      *)
(*   EdgeInv                  the lower edge and the discard timer;        *)
(*   WholeInv, TimelyInv      the rest of the window, and the deadline.    *)
(***************************************************************************)
EXTENDS PdcpTx, FiniteSetTheorems, TLAPS

-----------------------------------------------------------------------------
(* The invariants.                                                         *)

\* The engines are replaced only from the routines that have checked the
\* bound; a stopped entity runs no routine; the entity buffers from the start
\* of a routine to its end_buffering, and after the keys were replaced no
\* COUNT is used before.
CtrlInv ==
  /\ routine \in {"rekey", "resume"} => key < MaxKey
  /\ stopped => routine = "idle"
  /\ routine \in Awaiting \cup {"modify", "retransmit", "end_buffering"} => buffering
  /\ routine \in {"modify", "retransmit", "end_buffering"} => used = {}
  /\ ~buffering => \A c \in used : c < tx_next

\* SDUs enter the window in the order of their COUNTs.
AgeInv ==
  /\ \A c \in Count : HasSn(tx_window, c) => tx_window[c].tick <= now
  /\ \A c, d \in Count :
       c < d /\ HasSn(tx_window, c) /\ HasSn(tx_window, d)
         => tx_window[c].tick <= tx_window[d].tick

Busy     == {s \in CryptoSlots : crypto[s] # None}
InFlight == Cardinality(Busy) + Len(ue_queue)
\* The manager's own token, while it is given back.
Owed     == IF stopped \/ routine \in Awaiting THEN 1 ELSE 0

TokenInv ==
  /\ tokens = InFlight - Owed
  /\ pending_crypto => Owed = 1 /\ InFlight = 0

-----------------------------------------------------------------------------
(* COUNTs.                                                                 *)

LEMMA WindowFacts ==
  /\ Window \in Nat /\ Window > 0 /\ SnMod = 2 * Window
  /\ HfnMod * SnMod \in Nat /\ HfnMod * SnMod >= SnMod
BY WindowAssumption DEF Window

\* COUNTs are an initial interval of the natural numbers, and the successor
\* of one that an SDU may get is one of them.
LEMMA CountFacts ==
  /\ 0 \in Count /\ Count \subseteq Nat
  /\ \A c \in Count : \A d \in Nat : d <= c => d \in Count
  /\ \A c \in Count : c < MaxCountHard => c + 1 \in Count
BY WindowFacts, WindowAssumption, MaxCountAssumption DEF Count

LEMMA SplitCount ==
  ASSUME NEW c \in Nat
  PROVE  SN(c) \in 0 .. (SnMod - 1) /\ HFN(c) \in Nat
BY WindowAssumption DEF SN, HFN

LEMMA CountType ==
  ASSUME NEW hfn \in Int, NEW sn \in 0 .. (SnMod - 1)
  PROVE  COUNT(hfn, sn) \in Count
<1> DEFINE h == hfn % HfnMod
<1>1. h \in 0 .. (HfnMod - 1)
  BY WindowAssumption
<1>2. h * SnMod \in Nat /\ h * SnMod <= (HfnMod - 1) * SnMod
  BY <1>1, WindowAssumption
<1>3. (HfnMod - 1) * SnMod = HfnMod * SnMod - SnMod
  BY WindowAssumption
<1> QED
  BY <1>2, <1>3, WindowFacts DEF COUNT, Count

\* Whatever SN lower layers report, it stands for a COUNT.
LEMMA NotifiedCountType ==
  ASSUME NEW lower \in Count, NEW c \in Count
  PROVE  NotifiedCount(lower, SN(c)) \in Count
<1>1. lower \in Nat /\ c \in Nat /\ HFN(lower) \in Int /\ SN(c) \in 0 .. (SnMod - 1)
  BY SplitCount, CountFacts
<1> QED
  BY <1>1, CountType DEF NotifiedCount

LEMMA UpToIsCounts ==
  ASSUME NEW c \in Count, NEW d \in Nat
  PROVE  d .. c \subseteq Count /\ d .. (c - 1) \subseteq Count
BY CountFacts

-----------------------------------------------------------------------------
(* The procedures: where the strand is, and which COUNTs are used.         *)

\* What TransmitSdu does to the variables of the procedures.
LEMMA TransmitSduControl ==
  ASSUME TypeOK, TransmitSdu
  PROVE  /\ tx_next' \in Count
         /\ max_count_notified' \in BOOLEAN /\ max_count_overflow' \in BOOLEAN
         /\ used' \subseteq Count
         /\ (\A c \in used : c < tx_next) => (\A c \in used' : c < tx_next')
         /\ tx_next <= tx_next'
<1>1. tx_next \in Count /\ tx_next \in Nat /\ used \subseteq Count
  BY CountFacts DEF TypeOK, StTypeOK, CtrlTypeOK
<1>2. max_count_notified \in BOOLEAN /\ max_count_overflow \in BOOLEAN
  BY DEF TypeOK, CtrlTypeOK
<1>3. CASE WindowFull \/ tx_next >= MaxCountHard
  <2>1. UNCHANGED <<tx_next, max_count_notified, used>>
        /\ max_count_overflow' = (max_count_overflow \/ ~WindowFull)
    BY <1>1, <1>3, MaxCountAssumption DEF TransmitSdu
  <2>2. max_count_overflow' \in BOOLEAN
    BY <1>2, <2>1
  <2> QED
    BY <1>1, <1>2, <2>1, <2>2
<1>4. CASE ~WindowFull /\ tx_next < MaxCountHard
  <2>1. /\ tx_next' = tx_next + 1 /\ used' = used \cup {tx_next}
        /\ max_count_notified' = (max_count_notified \/ tx_next >= MaxCountNotify)
        /\ UNCHANGED max_count_overflow
    BY <1>1, <1>4, MaxCountAssumption DEF TransmitSdu
  <2>2. max_count_notified' \in BOOLEAN
    BY <1>2, <2>1
  <2>3. /\ tx_next' \in Count /\ used' \subseteq Count
        /\ (\A c \in used : c < tx_next) => (\A c \in used' : c < tx_next')
        /\ tx_next <= tx_next'
    BY <1>1, <1>4, <2>1, CountFacts
  <2> QED
    BY <1>2, <2>1, <2>2, <2>3
<1> QED
  BY <1>1, <1>3, <1>4, MaxCountAssumption

\* The steps that leave the procedures, TX_NEXT and the used COUNTs alone.
LEMMA SameControl ==
  ASSUME CtrlTypeOK, CtrlInv,
         UNCHANGED <<maxVars, bufVars, lifeVars, ctrlVars, used>>, tx_next' = tx_next,
         failure' \in {"none", "absent_element", "timer_duration"},
         sent' \subseteq Count, acked' \subseteq Count
  PROVE  CtrlTypeOK' /\ CtrlInv'
<1>1. CtrlTypeOK'
  BY DEF CtrlTypeOK, maxVars, bufVars, lifeVars, ctrlVars
<1>2. CtrlInv'
  BY DEF CtrlInv, bufVars, lifeVars, ctrlVars
<1> QED
  BY <1>1, <1>2

LEMMA FailControl ==
  ASSUME TypeOK, CtrlInv, NEW a \in {"absent_element", "timer_duration"}, Fail(a)
  PROVE  CtrlTypeOK' /\ CtrlInv'
<1>1. sent \subseteq Count /\ acked \subseteq Count /\ CtrlTypeOK
  BY DEF TypeOK, CtrlTypeOK
<1> QED
  BY <1>1, SameControl, Zenon DEF Fail

LEMMA ReceiveControl ==
  ASSUME TypeOK, CtrlInv, SecurityFailure \/ DropPdu \/ StorePdu \/ CryptoTimeout
  PROVE  CtrlTypeOK' /\ CtrlInv'
<1>1. /\ sent \subseteq Count /\ acked \subseteq Count /\ CtrlTypeOK
      /\ failure \in {"none", "absent_element", "timer_duration"}
      /\ tx_trans_crypto \in Nat /\ tx_reord_crypto \in Nat
  BY CountFacts DEF TypeOK, StTypeOK, CtrlTypeOK
<1>2. CASE SecurityFailure \/ DropPdu
  BY <1>1, <1>2, SameControl DEF SecurityFailure, DropPdu, TakeUeTask
<1>3. CASE StorePdu
  <2>1. PICK to \in Count :
          \/ Fail("absent_element")
          \/ TakeUeTask("success") /\ sent' = sent \cup (tx_trans_crypto .. (to - 1))
    BY <1>3 DEF StorePdu
  <2>2. CASE Fail("absent_element")
    BY <2>2, FailControl
  <2>3. CASE TakeUeTask("success") /\ sent' = sent \cup (tx_trans_crypto .. (to - 1))
    <3>1. sent' \subseteq Count
      BY <1>1, <2>3, UpToIsCounts
    <3> QED
      BY <1>1, <2>3, <3>1, SameControl DEF TakeUeTask
  <2> QED
    BY <2>1, <2>2, <2>3
<1>4. CASE CryptoTimeout
  <2>1. PICK to \in Count :
          \/ Fail("absent_element")
          \/ /\ sent' = sent \cup PdusIn(tx_window, GivenUp)
                             \cup (tx_reord_crypto .. (to - 1))
             /\ UNCHANGED <<tx_next, maxVars, bufVars, lifeVars, ctrlVars, used,
                            failure, acked>>
    BY <1>4 DEF CryptoTimeout
  <2>2. CASE Fail("absent_element")
    BY <2>2, FailControl
  <2>3. CASE ~Fail("absent_element")
    <3>1. GivenUp \subseteq Count
      BY <1>1, UpToIsCounts DEF GivenUp, TypeOK, StTypeOK
    <3>2. sent' \subseteq Count
      BY <1>1, <2>1, <2>3, <3>1, UpToIsCounts DEF PdusIn
    <3> QED
      BY <1>1, <2>1, <2>3, <3>2, SameControl
  <2> QED
    BY <2>2, <2>3
<1> QED
  BY <1>2, <1>3, <1>4

LEMMA NotifyControl ==
  ASSUME TypeOK, CtrlInv,
         \/ \E c \in Notifiable : TransmitNotification(c) \/ DeliveryNotification(c)
         \/ \E fmc \in Reportable :
              \E bitmap \in SUBSET {c \in sent : c > fmc} : StatusReport(fmc, bitmap)
  PROVE  CtrlTypeOK' /\ CtrlInv'
<1>1. /\ sent \subseteq Count /\ acked \subseteq Count /\ CtrlTypeOK
      /\ failure \in {"none", "absent_element", "timer_duration"}
      /\ tx_next_ack \in Count
  BY DEF TypeOK, StTypeOK, CtrlTypeOK
<1>2. ASSUME NEW n, NEW c \in Notifiable,
             \/ StopAssertion(n) # "none" /\ Fail(StopAssertion(n))
             \/ ByNotification /\ acked' \in {acked, acked \cup (0 .. c)}
      PROVE  CtrlTypeOK' /\ CtrlInv'
  <2>1. StopAssertion(n) \in {"none", "absent_element", "timer_duration"}
    BY DEF StopAssertion
  <2>2. CASE Fail(StopAssertion(n)) /\ StopAssertion(n) # "none"
    BY <2>1, <2>2, FailControl
  <2>3. CASE ByNotification /\ acked' \in {acked, acked \cup (0 .. c)}
    <3>1. acked' \subseteq Count
      BY <1>1, <2>3, UpToIsCounts DEF Notifiable
    <3> QED
      BY <1>1, <2>3, <3>1, SameControl DEF ByNotification
  <2> QED
    BY <1>2, <2>2, <2>3
<1>3. ASSUME NEW c \in Notifiable, TransmitNotification(c) \/ DeliveryNotification(c)
      PROVE  CtrlTypeOK' /\ CtrlInv'
  <2> DEFINE n == NotifiedCount(tx_next_ack, SN(c))
  <2>1. \/ StopAssertion(n) # "none" /\ Fail(StopAssertion(n))
        \/ ByNotification /\ acked' \in {acked, acked \cup (0 .. c)}
    BY <1>3 DEF TransmitNotification, DeliveryNotification
  <2> HIDE DEF n
  <2> QED
    BY <1>2, <2>1
<1>4. ASSUME NEW fmc \in Reportable, NEW bitmap \in SUBSET {c \in sent : c > fmc},
             StatusReport(fmc, bitmap)
      PROVE  CtrlTypeOK' /\ CtrlInv'
  <2>1. /\ ByNotification
        /\ acked' = acked \cup (0 .. (fmc - 1)) \cup bitmap
    BY <1>4 DEF StatusReport
  <2>2. 0 .. (fmc - 1) \subseteq Count
    <3>1. CASE fmc = tx_next_ack
      BY <1>1, <3>1, UpToIsCounts
    <3>2. CASE fmc # tx_next_ack
      <4>1. PICK d \in sent : fmc = d + 1
        BY <3>2 DEF Reportable
      <4>2. d \in Count /\ d \in Nat /\ (d + 1) - 1 = d
        BY <1>1, CountFacts
      <4> QED
        BY <4>1, <4>2, UpToIsCounts
    <3> QED
      BY <3>1, <3>2
  <2>3. acked' \subseteq Count
    BY <1>1, <2>1, <2>2
  <2> QED
    BY <1>1, <2>1, <2>3, SameControl DEF ByNotification
<1> QED
  BY <1>3, <1>4

\* An action whose control effects are these keeps the invariant.
LEMMA NextControl ==
  ASSUME TypeOK, CtrlInv, [Next]_vars
  PROVE  CtrlTypeOK' /\ CtrlInv'
<1>1. /\ sent \subseteq Count /\ acked \subseteq Count /\ CtrlTypeOK
      /\ failure \in {"none", "absent_element", "timer_duration"}
      /\ tx_next \in Count /\ tx_next_ack \in Count
  BY DEF TypeOK, StTypeOK, CtrlTypeOK
<1>2. CASE HandleSdu
  <2>1. /\ UNCHANGED <<buffering, lifeVars, suspended, key, routine, to_retransmit,
                       failure, sent, acked>>
        /\ resume_requested' \in BOOLEAN
    BY <1>2, Zenon DEF HandleSdu
  <2>2. CASE buffering
    <3>1. UNCHANGED <<tx_next, maxVars, used>>
          /\ sdu_buffer' = IF BufferFull THEN sdu_buffer ELSE sdu_buffer + 1
      BY <1>2, <2>2 DEF HandleSdu
    <3>2. sdu_buffer' \in 0 .. SduBufferSize
      BY <1>1, <3>1, BoundAssumption DEF BufferFull, CtrlTypeOK
    <3>3. CtrlTypeOK'
      BY <1>1, <2>1, <3>1, <3>2 DEF CtrlTypeOK, maxVars, lifeVars
    <3>4. CtrlInv'
      BY <2>1, <3>1 DEF CtrlInv, lifeVars
    <3> QED
      BY <3>3, <3>4
  <2>3. CASE ~buffering
    <3>1. TransmitSdu /\ UNCHANGED sdu_buffer
      BY <1>2, <2>3 DEF HandleSdu
    <3>2. CtrlTypeOK'
      BY <1>1, <2>1, <3>1, TransmitSduControl DEF CtrlTypeOK, lifeVars
    <3>3. CtrlInv'
      BY <2>1, <2>3, <3>1, TransmitSduControl DEF CtrlInv, lifeVars
    <3> QED
      BY <3>2, <3>3
  <2> QED
    BY <2>2, <2>3
<1>3. CASE Flush
  <2>1. /\ UNCHANGED <<buffering, lifeVars, suspended, resume_requested, key,
                       to_retransmit, failure, sent, acked>>
        /\ routine = "flush" /\ routine' \in {"flush", "idle"}
    BY <1>3 DEF Flush
  <2>2. ~stopped /\ ~stopped'
    BY <2>1 DEF CtrlInv, lifeVars
  <2>3. CASE sdu_buffer > 0
    <3>1. TransmitSdu /\ sdu_buffer' = sdu_buffer - 1
      BY <1>1, <1>3, <2>3 DEF Flush, CtrlTypeOK
    <3>2. sdu_buffer' \in 0 .. SduBufferSize
      BY <1>1, <2>3, <3>1, BoundAssumption DEF CtrlTypeOK
    <3>3. CtrlTypeOK'
      BY <1>1, <2>1, <3>1, <3>2, TransmitSduControl DEF CtrlTypeOK, lifeVars
    <3>4. CtrlInv'
      BY <2>1, <2>2, <3>1, TransmitSduControl DEF CtrlInv, Awaiting
    <3> QED
      BY <3>3, <3>4
  <2>4. CASE ~(sdu_buffer > 0)
    <3>1. UNCHANGED <<sdu_buffer, tx_next, maxVars, used>>
      BY <1>3, <2>4 DEF Flush
    <3>2. CtrlTypeOK'
      BY <1>1, <2>1, <3>1 DEF CtrlTypeOK, maxVars, lifeVars
    <3>3. CtrlInv'
      BY <2>1, <2>2, <3>1 DEF CtrlInv, Awaiting
    <3> QED
      BY <3>2, <3>3
  <2> QED
    BY <2>3, <2>4
<1>4. ASSUME NEW s \in CryptoSlots, ApplySecurity(s) PROVE CtrlTypeOK' /\ CtrlInv'
  BY <1>1, <1>4, SameControl DEF ApplySecurity
<1>5. CASE SecurityFailure \/ DropPdu \/ StorePdu \/ CryptoTimeout
  BY <1>5, ReceiveControl
<1>6. CASE Tick \/ DiscardExpire
  BY <1>1, <1>6, SameControl DEF Tick, DiscardExpire
<1>7. CASE \/ \E c \in Notifiable : TransmitNotification(c) \/ DeliveryNotification(c)
           \/ \E fmc \in Reportable :
                \E bitmap \in SUBSET {c \in sent : c > fmc} : StatusReport(fmc, bitmap)
  BY <1>7, NotifyControl
<1>8. CASE Retransmit
  <2>1. /\ UNCHANGED <<maxVars, bufVars, lifeVars, suspended, resume_requested, key,
                       failure, sent, acked, used, tx_next>>
        /\ \/ routine' = routine /\ to_retransmit < tx_next
              /\ to_retransmit' = to_retransmit + 1
           \/ /\ routine' = IF routine = "recover" THEN "idle" ELSE "end_buffering"
              /\ to_retransmit' = 0
        /\ routine \in {"retransmit", "recover"}
    BY <1>8 DEF Retransmit
  <2>2. to_retransmit' \in Count
    BY <1>1, <2>1, CountFacts DEF CtrlTypeOK
  <2>3. CtrlTypeOK'
    BY <1>1, <2>1, <2>2 DEF CtrlTypeOK, maxVars, bufVars, lifeVars
  <2>4. CtrlInv'
    BY <2>1 DEF CtrlInv, bufVars, lifeVars, Awaiting
  <2> QED
    BY <2>3, <2>4
<1>9. CASE DataRecovery
  <2>1. /\ UNCHANGED <<tx_next, maxVars, bufVars, lifeVars, suspended,
                       resume_requested, key, failure, sent, acked, used>>
        /\ routine' = "recover" /\ to_retransmit' = tx_next_ack
        /\ ~stopped /\ ~buffering
    BY <1>9 DEF DataRecovery, BeginRetransmit
  <2>2. CtrlTypeOK'
    BY <1>1, <2>1 DEF CtrlTypeOK, maxVars, bufVars, lifeVars
  <2>3. CtrlInv'
    BY <2>1 DEF CtrlInv, bufVars, lifeVars, Awaiting
  <2> QED
    BY <2>2, <2>3
<1>10. ASSUME NEW kind \in {"suspend", "rekey", "resume"}, BeginRoutine(kind)
       PROVE  CtrlTypeOK' /\ CtrlInv'
  <2>1. /\ UNCHANGED <<tx_next, maxVars, sdu_buffer, lifeVars, key, to_retransmit,
                       failure, sent, acked, used>>
        /\ suspended' \in BOOLEAN /\ resume_requested' \in BOOLEAN
        /\ routine' = kind /\ buffering' = TRUE /\ ~stopped
        /\ kind \in {"rekey", "resume"} => key < MaxKey
    BY <1>10 DEF BeginRoutine, BeginBuffering
  <2>2. CtrlTypeOK'
    BY <1>1, <2>1 DEF CtrlTypeOK, maxVars, lifeVars, Awaiting
  <2>3. CtrlInv'
    BY <2>1 DEF CtrlInv, lifeVars
  <2> QED
    BY <2>2, <2>3
<1>11. CASE Suspend
  <2>1. /\ UNCHANGED <<maxVars, bufVars, lifeVars, resume_requested, key,
                       to_retransmit, failure, used>>
        /\ sent' = {} /\ acked' = {} /\ suspended' = TRUE /\ routine' = "idle"
        /\ routine = "suspend"
    BY <1>11 DEF Suspend, ResetState
  <2>2. CtrlTypeOK'
    BY <1>1, <2>1 DEF CtrlTypeOK, maxVars, bufVars, lifeVars
  <2>3. CtrlInv'
    BY <2>1 DEF CtrlInv, bufVars, lifeVars, Awaiting
  <2> QED
    BY <2>2, <2>3
<1>12. CASE Rekey
  <2>1. /\ UNCHANGED <<tx_next, maxVars, bufVars, lifeVars, suspended,
                       resume_requested, to_retransmit, failure, sent, acked>>
        /\ key' = key + 1 /\ used' = {} /\ routine' = "modify"
        /\ routine \in {"rekey", "resume"}
    BY <1>12 DEF Rekey
  <2>2. key' \in 1 .. MaxKey
    BY <1>1, <2>1, BoundAssumption DEF CtrlInv, CtrlTypeOK
  <2>3. CtrlTypeOK'
    BY <1>1, <2>1, <2>2 DEF CtrlTypeOK, maxVars, bufVars, lifeVars
  <2>4. CtrlInv'
    BY <2>1 DEF CtrlInv, bufVars, lifeVars, Awaiting
  <2> QED
    BY <2>3, <2>4
<1>13. CASE ModifyBearer
  <2>1. /\ UNCHANGED <<maxVars, bufVars, lifeVars, suspended, resume_requested, key,
                       failure, used>>
        /\ routine = "modify" /\ routine' \in {"retransmit", "end_buffering"}
        /\ to_retransmit' \in {to_retransmit, tx_next_ack}
        /\ sent' \in {sent, {}} /\ acked' \in {acked, {}}
    BY <1>13 DEF ModifyBearer, Reestablish, SetCount, ResetState, BeginRetransmit
  <2>2. CtrlTypeOK'
    BY <1>1, <2>1 DEF CtrlTypeOK, maxVars, bufVars, lifeVars
  <2>3. CtrlInv'
    BY <2>1 DEF CtrlInv, bufVars, lifeVars, Awaiting
  <2> QED
    BY <2>2, <2>3
<1>14. CASE EndBuffering
  <2>1. /\ UNCHANGED <<tx_next, maxVars, sdu_buffer, lifeVars, suspended,
                       resume_requested, key, to_retransmit, failure, sent, acked,
                       used>>
        /\ routine = "end_buffering" /\ routine' = "flush" /\ buffering' = FALSE
    BY <1>14 DEF EndBuffering
  <2>2. CtrlTypeOK'
    BY <1>1, <2>1 DEF CtrlTypeOK, maxVars, lifeVars
  <2>3. CtrlInv'
    BY <2>1 DEF CtrlInv, lifeVars, Awaiting
  <2> QED
    BY <2>2, <2>3
<1>15. CASE StopForRelease
  <2>1. /\ UNCHANGED <<tx_next, maxVars, bufVars, destroyed, ctrlVars, failure,
                       sent, acked, used>>
        /\ routine = "idle" /\ stopped' = TRUE
    BY <1>15 DEF StopForRelease, st
  <2>2. CtrlTypeOK'
    BY <1>1, <2>1 DEF CtrlTypeOK, maxVars, bufVars, ctrlVars
  <2>3. CtrlInv'
    BY <2>1 DEF CtrlInv, bufVars, ctrlVars
  <2> QED
    BY <2>2, <2>3
<1>16. CASE Destroy
  <2>1. /\ UNCHANGED <<tx_next, maxVars, bufVars, stopped, ctrlVars, failure,
                       sent, acked, used>>
        /\ destroyed' = TRUE
    BY <1>16 DEF Destroy
  <2>2. CtrlTypeOK'
    BY <1>1, <2>1 DEF CtrlTypeOK, maxVars, bufVars, ctrlVars
  <2>3. CtrlInv'
    BY <2>1 DEF CtrlInv, bufVars, ctrlVars
  <2> QED
    BY <2>2, <2>3
<1>17. CASE UNCHANGED vars
  BY <1>1, <1>17, SameControl DEF vars
<1> QED
  BY <1>2, <1>3, <1>4, <1>5, <1>6, <1>7, <1>8, <1>9, <1>10, <1>11, <1>12, <1>13,
     <1>14, <1>15, <1>16, <1>17 DEF Next

-----------------------------------------------------------------------------
(* The window.                                                             *)

windowSt == <<tx_next, tx_trans, tx_next_ack, tx_window, now>>

WindowType ==
  /\ tx_next \in Count /\ tx_trans \in Count /\ tx_next_ack \in Count
  /\ tx_window \in [Count -> Element \cup {None}] /\ now \in 0 .. MaxTick

WindowInv == WindowType /\ WindowOrdered /\ AgeInv

Deadlines == {NoDeadline} \cup 0 .. (2 * MaxTick + DiscardTicks)

LEMMA SameWindow == WindowInv /\ UNCHANGED windowSt => WindowInv'
BY DEF WindowInv, WindowType, WindowOrdered, AgeInv, windowSt, HasSn

LEMMA ElementFacts ==
  ASSUME WindowType, NEW c \in Count, HasSn(tx_window, c)
  PROVE  tx_window[c] \in Element /\ tx_window[c].tick \in 0 .. MaxTick
BY DEF WindowType, HasSn, Element

\* Elements that only lose their PDU, or leave, disturb nothing.
LEMMA ShrunkWindow ==
  ASSUME WindowInv, UNCHANGED <<tx_next, now>>,
         tx_window' \in [Count -> Element \cup {None}],
         tx_trans' \in Count, tx_next_ack' \in Count,
         tx_next_ack <= tx_next_ack', tx_next_ack' <= tx_trans', tx_trans' <= tx_next,
         \A c \in Count : HasSn(tx_window', c) =>
           /\ HasSn(tx_window, c) /\ tx_window'[c].tick = tx_window[c].tick
           /\ tx_next_ack' <= c
  PROVE  WindowInv'
<1>1. WindowType'
  BY DEF WindowInv, WindowType
<1>2. tx_next \in Nat /\ tx_next_ack \in Nat /\ tx_next_ack' \in Nat /\ Window \in Nat
  BY CountFacts, WindowFacts DEF WindowInv, WindowType
<1>3. WindowOrdered'
  <2>1. tx_next' - tx_next_ack' < Window
    <3>1. tx_next - tx_next_ack < Window /\ tx_next' = tx_next
      BY DEF WindowInv, WindowOrdered
    <3>2. \A n, a, b, w \in Nat : n - a < w /\ a <= b => n - b < w
      OBVIOUS
    <3> QED
      BY <1>2, <3>1, <3>2
  <2>2. \A c \in Count : HasSn(tx_window', c) => tx_next_ack' <= c /\ c < tx_next'
    BY DEF WindowInv, WindowOrdered
  <2> QED
    BY <2>1, <2>2 DEF WindowOrdered
<1>4. AgeInv'
  BY DEF WindowInv, AgeInv
<1> QED
  BY <1>1, <1>3, <1>4 DEF WindowInv

LEMMA SubmittedType ==
  ASSUME NEW w \in [Count -> Element \cup {None}], NEW S
  PROVE  /\ Submitted(w, S) \in [Count -> Element \cup {None}]
         /\ \A c \in Count : HasSn(Submitted(w, S), c) =>
              HasSn(w, c) /\ Submitted(w, S)[c].tick = w[c].tick
<1>1. ASSUME NEW c \in Count, HasPdu(w, c)
      PROVE  /\ w[c] \in Element /\ [w[c] EXCEPT !.pdu = NoPdu] \in Element
             /\ [w[c] EXCEPT !.pdu = NoPdu].tick = w[c].tick
  <2>1. w[c] \in Element
    BY <1>1 DEF HasPdu, HasSn
  <2>2. NoPdu \in 0 .. MaxKey
    BY BoundAssumption DEF NoPdu
  <2> QED
    BY <2>1, <2>2 DEF Element
<1>2. \A c \in Count : Submitted(w, S)[c] =
        IF c \in S /\ HasPdu(w, c) THEN [w[c] EXCEPT !.pdu = NoPdu] ELSE w[c]
  BY DEF Submitted
<1>3. Submitted(w, S) \in [Count -> Element \cup {None}]
  BY <1>1 DEF Submitted
<1> QED
  BY <1>1, <1>2, <1>3 DEF HasPdu, HasSn

\* Window elements that lose their PDU keep the window as it is otherwise.
LEMMA SubmittedWindow ==
  ASSUME WindowInv, NEW w \in [Count -> Element \cup {None}], NEW S,
         \A c \in Count : HasSn(w, c) =>
           HasSn(tx_window, c) /\ w[c].tick = tx_window[c].tick,
         tx_window' = Submitted(w, S),
         UNCHANGED <<tx_next, tx_trans, tx_next_ack, now>>
  PROVE  WindowInv'
<1>1. /\ tx_next_ack \in Nat /\ tx_next_ack <= tx_next_ack' /\ tx_next_ack' <= tx_trans'
      /\ tx_trans' <= tx_next /\ tx_trans' \in Count /\ tx_next_ack' \in Count
  BY CountFacts DEF WindowInv, WindowType, WindowOrdered
<1>2. \A c \in Count : HasSn(tx_window', c) =>
        /\ HasSn(tx_window, c) /\ tx_window'[c].tick = tx_window[c].tick
        /\ tx_next_ack' <= c
  BY SubmittedType DEF WindowInv, WindowOrdered
<1>3. tx_window' \in [Count -> Element \cup {None}]
  BY SubmittedType
<1> QED
  BY <1>1, <1>2, <1>3, ShrunkWindow

LEMMA EmptyWindow ==
  Empty \in [Count -> Element \cup {None}] /\ \A c \in Count : ~HasSn(Empty, c)
BY DEF Empty, HasSn

\* The COUNT space begins again, at any COUNT, without SDUs.
LEMMA StartAtWindow ==
  ASSUME WindowType, NEW count \in Count, StartAt(count), now' = now,
         tx_window' \in [Count -> Element \cup {None}],
         \A c \in Count : ~HasSn(tx_window', c)
  PROVE  WindowInv'
<1>1. count \in Nat /\ Window \in Nat /\ Window > 0
  BY CountFacts, WindowFacts
<1> QED
  BY <1>1 DEF StartAt, WindowType, WindowInv, WindowOrdered, AgeInv

LEMMA ClearedWindow ==
  ASSUME WindowInv, ClearWindow, UNCHANGED <<tx_next, tx_trans, tx_next_ack, now>>
  PROVE  WindowInv'
<1>1. tx_window' \in [Count -> Element \cup {None}]
      /\ \A c \in Count : ~HasSn(tx_window', c)
  BY EmptyWindow DEF ClearWindow
<1> QED
  BY <1>1 DEF WindowInv, WindowType, WindowOrdered, AgeInv

\* A new SDU is the youngest, and leaves the peer's window one COUNT short.
LEMMA TransmitSduWindow ==
  ASSUME WindowInv, discard_timer \in Deadlines, TransmitSdu,
         UNCHANGED <<tx_trans, tx_next_ack, now>>
  PROVE  WindowInv' /\ discard_timer' \in Deadlines
<1>1. /\ tx_next \in Nat /\ tx_next_ack \in Nat /\ tx_trans \in Nat
      /\ now \in 0 .. MaxTick /\ MaxTick \in Nat /\ DiscardTicks \in Nat
      /\ Window \in Nat /\ MaxCountHard \in Nat
  BY CountFacts, WindowFacts, BoundAssumption, ConfigAssumption, MaxCountAssumption
     DEF WindowInv, WindowType
<1>2. CASE WindowFull \/ tx_next >= MaxCountHard
  <2>1. UNCHANGED <<tx_next, tx_window, discard_timer>>
    BY <1>1, <1>2 DEF TransmitSdu
  <2> QED
    BY <2>1, SameWindow DEF windowSt
<1>3. CASE ~WindowFull /\ tx_next < MaxCountHard
  <2> DEFINE e == [tick |-> now, pdu |-> NoPdu]
  <2>1. /\ tx_next' = tx_next + 1 /\ tx_window' = AddSn(tx_window, tx_next, e)
        /\ StartDiscardTimer
    BY <1>1, <1>3 DEF TransmitSdu
  <2>2. e \in Element /\ e.tick = now
    BY <1>1, BoundAssumption DEF Element, NoPdu
  <2> HIDE DEF e
  <2>3. tx_window' \in [Count -> Element \cup {None}]
    BY <2>1, <2>2 DEF AddSn, WindowInv, WindowType
  <2>4. \A c \in Count : HasSn(tx_window', c) =>
          \/ c = tx_next /\ tx_window'[c] = e
          \/ c < tx_next /\ HasSn(tx_window, c) /\ tx_window'[c] = tx_window[c]
    BY <2>1 DEF AddSn, HasSn, WindowInv, WindowOrdered
  <2>5. tx_next' \in Count
    BY <1>3, <2>1, CountFacts DEF WindowInv, WindowType
  <2>6. WindowType'
    BY <2>3, <2>5 DEF WindowInv, WindowType
  <2>7. WindowOrdered'
    BY <1>1, <1>3, <2>1, <2>4, CountFacts DEF WindowInv, WindowOrdered, WindowFull
  <2>8. AgeInv'
    <3>1. \A c \in Count : HasSn(tx_window, c) =>
            tx_window[c].tick <= now /\ tx_window[c].tick \in 0 .. MaxTick
      BY ElementFacts DEF WindowInv, AgeInv
    <3>2. \A c \in Count : c \in Nat
      BY CountFacts
    <3> QED
      BY <1>1, <2>2, <2>4, <3>1, <3>2 DEF WindowInv, AgeInv
  <2>9. discard_timer' \in Deadlines
    BY <1>1, <2>1 DEF StartDiscardTimer, Deadlines
  <2> QED
    BY <2>6, <2>7, <2>8, <2>9 DEF WindowInv
<1> QED
  BY <1>1, <1>2, <1>3

LEMMA RemoveAllType ==
  ASSUME NEW w \in [Count -> Element \cup {None}], NEW S
  PROVE  /\ RemoveAll(w, S) \in [Count -> Element \cup {None}]
         /\ \A c \in Count : HasSn(RemoveAll(w, S), c) =>
              c \notin S /\ HasSn(w, c) /\ RemoveAll(w, S)[c] = w[c]
BY DEF RemoveAll, HasSn

\* Discarding moves the lower edge to the oldest SDU that remains.
LEMMA DiscardPdusWindow ==
  ASSUME WindowInv, NEW S, DiscardPdus(S), UNCHANGED <<tx_next, now>>
  PROVE  /\ WindowInv' /\ tx_next_ack <= tx_next_ack'
         /\ \A c \in Count : HasSn(tx_window', c) =>
              HasSn(tx_window, c) /\ tx_window'[c] = tx_window[c]
<1>1. tx_next \in Nat /\ tx_next_ack \in Nat /\ tx_trans \in Nat
      /\ tx_window \in [Count -> Element \cup {None}]
  BY CountFacts DEF WindowInv, WindowType
<1> DEFINE gone == {c \in S : tx_next_ack <= c /\ c < tx_next /\ HasSn(tx_window, c)}
<1>2. CASE gone = {}
  <2>1. UNCHANGED <<tx_window, tx_next_ack, tx_trans>>
    BY <1>2 DEF DiscardPdus
  <2> QED
    BY <1>1, <2>1, SameWindow DEF windowSt
<1>3. CASE gone # {}
  <2>1. PICK to \in Count :
          /\ OldestFrom(RemoveAll(tx_window, gone), tx_next_ack, to)
          /\ tx_next_ack' = to /\ tx_trans' = Later(tx_trans, to)
          /\ tx_window' = RemoveAll(tx_window, gone)
    BY <1>3 DEF DiscardPdus
  <2> HIDE DEF gone
  <2>2. to \in Nat /\ tx_next_ack <= to /\ to <= tx_next
    BY <2>1, CountFacts DEF OldestFrom
  <2>3. /\ tx_next_ack' \in Count /\ tx_trans' \in Count
        /\ tx_next_ack' <= tx_trans' /\ tx_trans' <= tx_next
    BY <1>1, <2>1, <2>2 DEF Later, WindowInv, WindowType, WindowOrdered
  <2>4. \A c \in Count : HasSn(tx_window', c) =>
          HasSn(tx_window, c) /\ tx_window'[c] = tx_window[c]
    BY <1>1, <2>1, RemoveAllType
  <2>5. \A c \in Count : HasSn(tx_window', c) => tx_next_ack' <= c
    <3>1. \A c \in tx_next_ack .. (to - 1) : ~HasSn(tx_window', c)
      BY <2>1 DEF OldestFrom
    <3>2. \A c \in Count : HasSn(tx_window', c) => tx_next_ack <= c /\ c \in Nat
      BY <2>4, CountFacts DEF WindowInv, WindowOrdered
    <3> QED
      BY <1>1, <2>1, <2>2, <3>1, <3>2
  <2>6. tx_window' \in [Count -> Element \cup {None}]
    BY <1>1, <2>1, RemoveAllType
  <2>7. WindowInv'
    BY <2>1, <2>2, <2>3, <2>4, <2>5, <2>6, ShrunkWindow
  <2> QED
    BY <2>1, <2>2, <2>4, <2>7
<1> QED
  BY <1>2, <1>3

\* The deadline after a discard is not in the past: what remains is younger.
LEMMA DiscardExpireWindow ==
  ASSUME WindowInv, discard_timer \in Deadlines, DiscardExpire
  PROVE  WindowInv' /\ discard_timer' \in Deadlines
<1>1. UNCHANGED <<tx_next, now>>
  BY DEF DiscardExpire
<1>2. CASE ~HasSn(tx_window, tx_next_ack)
  BY <1>1, <1>2, SameWindow DEF DiscardExpire, windowSt, Deadlines
<1>3. CASE HasSn(tx_window, tx_next_ack)
  <2>1. /\ DiscardPdus({c \in Count : SameTick(c)})
        /\ RestartAfterDiscard(tx_window[tx_next_ack].tick)
    BY <1>3 DEF DiscardExpire
  <2>2. /\ WindowInv' /\ tx_next_ack <= tx_next_ack'
        /\ \A c \in Count : HasSn(tx_window', c) =>
             HasSn(tx_window, c) /\ tx_window'[c] = tx_window[c]
    BY <1>1, <2>1, DiscardPdusWindow
  <2>3. tx_next_ack \in Count /\ tx_next_ack' \in Count
        /\ tx_next_ack \in Nat /\ tx_next_ack' \in Nat
    BY <2>2, CountFacts DEF WindowInv, WindowType
  <2>4. CASE HasSn(tx_window', tx_next_ack')
    <3>1. /\ tx_window[tx_next_ack].tick \in 0 .. MaxTick
          /\ tx_window[tx_next_ack'].tick \in 0 .. MaxTick
          /\ HasSn(tx_window, tx_next_ack')
          /\ tx_window'[tx_next_ack'] = tx_window[tx_next_ack']
      BY <1>3, <2>2, <2>3, <2>4, ElementFacts DEF WindowInv
    <3>2. tx_window[tx_next_ack].tick <= tx_window[tx_next_ack'].tick
      <4>1. CASE tx_next_ack = tx_next_ack'
        BY <3>1, <4>1
      <4>2. CASE tx_next_ack < tx_next_ack'
        BY <1>3, <2>3, <3>1, <4>2 DEF WindowInv, AgeInv
      <4> QED
        BY <2>2, <2>3, <4>1, <4>2
    <3>3. now \in 0 .. MaxTick /\ MaxTick \in Nat /\ DiscardTicks \in Nat
      BY BoundAssumption, ConfigAssumption DEF WindowInv, WindowType
    <3>4. discard_timer' =
            now + (tx_window[tx_next_ack'].tick - tx_window[tx_next_ack].tick)
      BY <2>1, <2>4, <3>1 DEF RestartAfterDiscard
    <3> QED
      BY <2>2, <3>1, <3>2, <3>3, <3>4 DEF Deadlines
  <2>5. CASE ~HasSn(tx_window', tx_next_ack')
    BY <2>1, <2>2, <2>5 DEF RestartAfterDiscard, Deadlines
  <2> QED
    BY <2>4, <2>5
<1> QED
  BY <1>2, <1>3

LEMMA StopDiscardTimerWindow ==
  ASSUME WindowInv, discard_timer \in Deadlines, NEW n \in Count, NEW trans \in Count,
         tx_next_ack <= trans, trans <= tx_next,
         StopAssertion(n) = "none", StopDiscardTimer(n, trans),
         UNCHANGED <<tx_next, now>>
  PROVE  WindowInv' /\ discard_timer' \in Deadlines
<1>1. /\ tx_next \in Nat /\ tx_next_ack \in Nat /\ n \in Nat /\ trans \in Nat
      /\ tx_window \in [Count -> Element \cup {None}] /\ now \in 0 .. MaxTick
      /\ MaxTick \in Nat /\ DiscardTicks \in Nat
  BY CountFacts, BoundAssumption, ConfigAssumption DEF WindowInv, WindowType
<1>2. CASE StopIgnored(n)
  <2>1. tx_trans' = trans /\ UNCHANGED <<tx_next_ack, tx_window, discard_timer>>
    BY <1>2 DEF StopDiscardTimer
  <2>2. tx_next_ack <= tx_next_ack' /\ tx_next_ack' <= tx_trans' /\ tx_trans' <= tx_next
        /\ tx_trans' \in Count /\ tx_next_ack' \in Count
    BY <1>1, <2>1 DEF WindowInv, WindowType
  <2>3. \A c \in Count : HasSn(tx_window', c) =>
          /\ HasSn(tx_window, c) /\ tx_window'[c].tick = tx_window[c].tick
          /\ tx_next_ack' <= c
    BY <2>1 DEF WindowInv, WindowOrdered
  <2> QED
    BY <1>1, <2>1, <2>2, <2>3, ShrunkWindow
<1>3. CASE ~StopIgnored(n)
  <2>1. /\ tx_window' = RemoveAll(tx_window, Confirmed(n))
        /\ tx_next_ack' = n + 1 /\ tx_trans' = Later(trans, n + 1)
        /\ discard_timer' = IF Finite /\ n + 1 < tx_next
                            THEN RemainingDeadline(n) ELSE NoDeadline
    BY <1>3 DEF StopDiscardTimer
  <2>2. tx_next_ack <= n /\ n < tx_next /\ n + 1 \in Count
    BY <1>1, <1>3, CountFacts DEF StopIgnored, WindowInv, WindowType
  <2>3. /\ tx_next_ack <= tx_next_ack' /\ tx_next_ack' <= tx_trans'
        /\ tx_trans' <= tx_next /\ tx_trans' \in Count /\ tx_next_ack' \in Count
    BY <1>1, <2>1, <2>2 DEF Later
  <2>4. \A c \in Count : HasSn(tx_window', c) =>
          /\ HasSn(tx_window, c) /\ tx_window'[c].tick = tx_window[c].tick
          /\ tx_next_ack' <= c
    <3>1. \A c \in Count : HasSn(tx_window', c) =>
            /\ HasSn(tx_window, c) /\ tx_window'[c] = tx_window[c]
            /\ c \notin tx_next_ack .. n /\ c \in Nat
      BY <1>1, <2>1, RemoveAllType, CountFacts DEF Confirmed
    <3>2. \A c \in Count : HasSn(tx_window, c) => tx_next_ack <= c
      BY DEF WindowInv, WindowOrdered
    <3> QED
      BY <1>1, <2>1, <3>1, <3>2
  <2>5. WindowInv'
    BY <1>1, <2>1, <2>3, <2>4, RemoveAllType, ShrunkWindow
  <2>6. CASE Finite /\ n + 1 < tx_next
    <3>1. HasSn(tx_window, n + 1)
      BY <1>1, <1>3, <2>6 DEF StopAssertion
    <3>2. tx_window[n + 1].tick \in 0 .. MaxTick
      BY <2>2, <3>1, ElementFacts DEF WindowInv
    <3> QED
      BY <1>1, <2>1, <2>5, <2>6, <3>2 DEF RemainingDeadline, Later, Deadlines, Finite
  <2>7. CASE ~(Finite /\ n + 1 < tx_next)
    BY <2>1, <2>5, <2>7 DEF Deadlines
  <2> QED
    BY <2>6, <2>7
<1> QED
  BY <1>2, <1>3

LEMMA TransmitNotificationWindow ==
  ASSUME WindowInv, discard_timer \in Deadlines, NEW c \in Count,
         TransmitNotification(c)
  PROVE  WindowInv' /\ discard_timer' \in Deadlines
<1> DEFINE n == NotifiedCount(tx_next_ack, SN(c))
<1>1. n \in Count /\ n \in Nat
  BY NotifiedCountType, CountFacts DEF WindowInv, WindowType
<1>2. tx_trans <= n /\ n < tx_next
  BY DEF TransmitNotification
<1>3. \/ tx_trans' = n + 1 /\ UNCHANGED <<tx_next_ack, tx_window, discard_timer>>
         /\ ByNotification
      \/ Fail(StopAssertion(n))
      \/ StopAssertion(n) = "none" /\ StopDiscardTimer(n, n + 1) /\ ByNotification
  BY DEF TransmitNotification
<1> HIDE DEF n
<1>4. /\ tx_next \in Nat /\ tx_next_ack \in Nat /\ tx_trans \in Nat
      /\ tx_next_ack <= n + 1 /\ n + 1 <= tx_next /\ n + 1 \in Count
  BY <1>1, <1>2, CountFacts DEF WindowInv, WindowType, WindowOrdered
<1>5. CASE /\ tx_trans' = n + 1 /\ ByNotification
           /\ UNCHANGED <<tx_next_ack, tx_window, discard_timer>>
  <2>1. tx_next_ack <= tx_next_ack' /\ tx_next_ack' <= tx_trans' /\ tx_trans' <= tx_next
        /\ tx_trans' \in Count /\ tx_next_ack' \in Count
    BY <1>4, <1>5 DEF WindowInv, WindowType
  <2>2. \A d \in Count : HasSn(tx_window', d) =>
          /\ HasSn(tx_window, d) /\ tx_window'[d].tick = tx_window[d].tick
          /\ tx_next_ack' <= d
    BY <1>5 DEF WindowInv, WindowOrdered
  <2> QED
    BY <1>5, <2>1, <2>2, ShrunkWindow DEF ByNotification, WindowInv, WindowType
<1>6. CASE Fail(StopAssertion(n))
  BY <1>6, SameWindow DEF Fail, windowVars, windowSt
<1>7. CASE StopAssertion(n) = "none" /\ StopDiscardTimer(n, n + 1) /\ ByNotification
  BY <1>1, <1>4, <1>7, StopDiscardTimerWindow DEF ByNotification
<1> QED
  BY <1>3, <1>5, <1>6, <1>7

LEMMA DeliveryNotificationWindow ==
  ASSUME WindowInv, discard_timer \in Deadlines, NEW c \in Count,
         DeliveryNotification(c)
  PROVE  WindowInv' /\ discard_timer' \in Deadlines
<1> DEFINE n == NotifiedCount(tx_next_ack, SN(c))
<1>1. n \in Count
  BY NotifiedCountType DEF WindowInv, WindowType
<1>2. \/ Fail(StopAssertion(n))
      \/ StopAssertion(n) = "none" /\ StopDiscardTimer(n, tx_trans) /\ ByNotification
  BY DEF DeliveryNotification
<1> HIDE DEF n
<1>3. CASE Fail(StopAssertion(n))
  BY <1>3, SameWindow DEF Fail, windowVars, windowSt
<1>4. CASE StopAssertion(n) = "none" /\ StopDiscardTimer(n, tx_trans) /\ ByNotification
  BY <1>1, <1>4, StopDiscardTimerWindow
     DEF ByNotification, WindowInv, WindowType, WindowOrdered
<1> QED
  BY <1>2, <1>3, <1>4

LEMMA StoreWindow ==
  ASSUME TypeOK, WindowInv, StorePdu
  PROVE  WindowInv' /\ UNCHANGED discard_timer
<1> DEFINE task == Head(ue_queue)
           w    == [tx_window EXCEPT ![task.count].pdu = task.key]
<1>1. task \in UeTask /\ HasSn(tx_window, task.count)
  BY DEF StorePdu, Outdated, TypeOK, FlightTypeOK
<1>2. PICK to \in Count :
        \/ Fail("absent_element")
        \/ /\ TakeUeTask("success")
           /\ tx_window' = Submitted(w, tx_trans_crypto .. (to - 1))
  BY DEF StorePdu
<1> HIDE DEF task
<1>3. CASE Fail("absent_element")
  BY <1>3, SameWindow DEF Fail, windowVars, windowSt
<1>4. CASE TakeUeTask("success") /\ tx_window' = Submitted(w, tx_trans_crypto .. (to - 1))
  <2>1. task.count \in Count /\ task.key \in 0 .. MaxKey
    BY <1>1, BoundAssumption DEF UeTask
  <2>2. tx_window[task.count] \in Element
    BY <1>1, <2>1, ElementFacts DEF WindowInv
  <2>3. /\ [tx_window[task.count] EXCEPT !.pdu = task.key] \in Element
        /\ [tx_window[task.count] EXCEPT !.pdu = task.key].tick
             = tx_window[task.count].tick
    BY <2>1, <2>2 DEF Element
  <2>4. \A c \in Count : w[c] = IF c = task.count
                                THEN [tx_window[task.count] EXCEPT !.pdu = task.key]
                                ELSE tx_window[c]
    BY <2>1 DEF WindowInv, WindowType
  <2>5. w \in [Count -> Element \cup {None}]
    BY <2>1, <2>3 DEF WindowInv, WindowType
  <2>6. \A c \in Count : HasSn(w, c) =>
          HasSn(tx_window, c) /\ w[c].tick = tx_window[c].tick
    BY <1>1, <2>3, <2>4 DEF HasSn
  <2> HIDE DEF w
  <2> QED
    BY <1>4, <2>5, <2>6, SubmittedWindow DEF TakeUeTask
<1> QED
  BY <1>2, <1>3, <1>4 DEF Fail, windowVars

LEMMA CryptoTimeoutWindow ==
  ASSUME WindowInv, CryptoTimeout
  PROVE  WindowInv' /\ UNCHANGED discard_timer
<1> DEFINE w == Submitted(tx_window, GivenUp)
<1>1. PICK to \in Count :
        \/ Fail("absent_element")
        \/ /\ tx_window' = Submitted(w, tx_reord_crypto .. (to - 1))
           /\ UNCHANGED <<tx_next, tx_trans, tx_next_ack, discard_timer, now>>
  BY DEF CryptoTimeout
<1>2. /\ w \in [Count -> Element \cup {None}]
      /\ \A c \in Count : HasSn(w, c) =>
           HasSn(tx_window, c) /\ w[c].tick = tx_window[c].tick
  BY SubmittedType DEF WindowInv, WindowType
<1> HIDE DEF w
<1>3. CASE Fail("absent_element")
  BY <1>3, SameWindow DEF Fail, windowVars, windowSt
<1>4. CASE ~Fail("absent_element")
  BY <1>1, <1>2, <1>4, SubmittedWindow
<1> QED
  BY <1>1, <1>3, <1>4 DEF Fail, windowVars

\* The retransmission begins at the lower edge.
LEMMA RetransmitWindow ==
  ASSUME WindowInv, NEW r, BeginRetransmit(r),
         UNCHANGED <<tx_next, tx_next_ack, tx_window, now>>
  PROVE  WindowInv'
<1>1. tx_trans' = tx_next_ack /\ tx_next_ack \in Nat /\ tx_next \in Nat
      /\ tx_trans \in Nat
  BY CountFacts DEF BeginRetransmit, WindowInv, WindowType
<1>2. tx_next_ack <= tx_next
  BY <1>1 DEF WindowInv, WindowOrdered
<1>3. WindowType'
  BY <1>1 DEF WindowInv, WindowType
<1>4. WindowOrdered'
  BY <1>1, <1>2 DEF WindowInv, WindowOrdered, HasSn
<1>5. AgeInv'
  BY DEF WindowInv, AgeInv, HasSn
<1> QED
  BY <1>3, <1>4, <1>5 DEF WindowInv

LEMMA NextWindow ==
  ASSUME TypeOK, WindowInv, [Next]_vars
  PROVE  WindowInv' /\ discard_timer' \in Deadlines
<1>1. discard_timer \in Deadlines /\ WindowType /\ sent \subseteq Count /\ 0 \in Count
  BY CountFacts DEF TypeOK, StTypeOK, CtrlTypeOK, Deadlines, WindowInv
<1>2. NoDeadline \in Deadlines
  BY DEF Deadlines
<1>3. CASE HandleSdu
  <2>1. UNCHANGED <<tx_trans, tx_next_ack, now>>
    BY <1>3 DEF HandleSdu
  <2>2. TransmitSdu \/ UNCHANGED <<tx_next, tx_window, discard_timer>>
    BY <1>3 DEF HandleSdu
  <2> QED
    BY <1>1, <2>1, <2>2, TransmitSduWindow, SameWindow DEF windowSt
<1>4. CASE Flush
  <2>1. UNCHANGED <<tx_trans, tx_next_ack, now>>
    BY <1>4 DEF Flush
  <2>2. TransmitSdu \/ UNCHANGED <<tx_next, tx_window, discard_timer>>
    BY <1>4 DEF Flush
  <2> QED
    BY <1>1, <2>1, <2>2, TransmitSduWindow, SameWindow DEF windowSt
<1>5. CASE StorePdu \/ CryptoTimeout
  BY <1>1, <1>5, StoreWindow, CryptoTimeoutWindow
<1>6. CASE Tick
  <2>1. /\ now' = now + 1 /\ now < MaxTick
        /\ UNCHANGED <<tx_next, tx_trans, tx_next_ack, tx_window, discard_timer>>
    BY <1>6 DEF Tick, windowVars
  <2>2. now \in 0 .. MaxTick /\ now' \in 0 .. MaxTick /\ MaxTick \in Nat
    BY <1>1, <2>1, BoundAssumption DEF WindowType
  <2>3. WindowType' /\ WindowOrdered'
    BY <2>1, <2>2 DEF WindowInv, WindowType, WindowOrdered, HasSn
  <2>4. AgeInv'
    <3>1. \A c \in Count : HasSn(tx_window, c) =>
            tx_window[c].tick <= now /\ tx_window[c].tick \in 0 .. MaxTick
      BY <1>1, ElementFacts DEF WindowInv, AgeInv
    <3> QED
      BY <2>1, <2>2, <3>1 DEF WindowInv, AgeInv, HasSn
  <2> QED
    BY <1>1, <2>1, <2>3, <2>4 DEF WindowInv
<1>7. CASE DiscardExpire
  BY <1>1, <1>7, DiscardExpireWindow
<1>8. ASSUME NEW c \in Notifiable, TransmitNotification(c) \/ DeliveryNotification(c)
      PROVE  WindowInv' /\ discard_timer' \in Deadlines
  <2>1. c \in Count
    BY <1>1 DEF Notifiable
  <2> QED
    BY <1>1, <1>8, <2>1, TransmitNotificationWindow, DeliveryNotificationWindow
<1>9. ASSUME NEW fmc, NEW bitmap, StatusReport(fmc, bitmap)
      PROVE  WindowInv' /\ discard_timer' \in Deadlines
  <2>1. UNCHANGED <<tx_next, now, discard_timer>>
        /\ DiscardPdus({c \in Count : c < fmc} \cup bitmap)
    BY <1>9 DEF StatusReport, ByNotification
  <2> QED
    BY <1>1, <2>1, DiscardPdusWindow
<1>10. CASE DataRecovery
  <2>1. /\ BeginRetransmit("recover")
        /\ UNCHANGED <<tx_next, tx_next_ack, tx_window, discard_timer, now>>
    BY <1>10 DEF DataRecovery
  <2> QED
    BY <1>1, <2>1, RetransmitWindow
<1>11. CASE Suspend
  <2>1. StartAt(0) /\ ClearWindow /\ discard_timer' = NoDeadline /\ UNCHANGED now
    BY <1>11 DEF Suspend, ResetState
  <2>2. WindowInv'
    BY <1>1, <2>1, EmptyWindow, StartAtWindow DEF ClearWindow
  <2> QED
    BY <1>2, <2>1, <2>2
<1>12. CASE ModifyBearer
  <2>1. UNCHANGED now
    BY <1>12 DEF ModifyBearer
  <2>2. CASE Reestablish
    <3>1. UNCHANGED discard_timer
          /\ \/ StartAt(0) /\ tx_window' = Empty
             \/ /\ BeginRetransmit("retransmit")
                /\ UNCHANGED <<tx_next, tx_next_ack, tx_window>>
      BY <2>2 DEF Reestablish, ResetState, ClearWindow
    <3>2. CASE StartAt(0) /\ tx_window' = Empty
      <4>1. WindowInv'
        BY <1>1, <2>1, <3>2, EmptyWindow, StartAtWindow
      <4> QED
        BY <1>1, <3>1, <4>1
    <3>3. CASE ~(StartAt(0) /\ tx_window' = Empty)
      <4>1. WindowInv'
        BY <2>1, <3>1, <3>3, RetransmitWindow
      <4> QED
        BY <1>1, <3>1, <4>1
    <3> QED
      BY <3>2, <3>3
  <2>3. ASSUME NEW c \in StartCounts, SetCount(c)
        PROVE  WindowInv' /\ discard_timer' \in Deadlines
    <3>1. /\ tx_next = 0 /\ StartAt(c) /\ c \in Count
          /\ UNCHANGED <<tx_window, discard_timer>>
      BY <2>3, BoundAssumption DEF SetCount
    <3>2. \A d \in Count : ~HasSn(tx_window', d)
      BY <3>1, CountFacts DEF WindowInv, WindowOrdered, HasSn
    <3>3. WindowInv'
      BY <1>1, <2>1, <3>1, <3>2, StartAtWindow DEF WindowType
    <3> QED
      BY <1>1, <3>1, <3>3
  <2>4. CASE UNCHANGED <<tx_next, windowVars>>
    BY <1>1, <2>1, <2>4, SameWindow DEF windowVars, windowSt
  <2> QED
    BY <1>12, <2>2, <2>3, <2>4 DEF ModifyBearer
<1>13. CASE StopForRelease
  <2>1. ClearWindow /\ discard_timer' = NoDeadline /\ UNCHANGED <<st, now>>
    BY <1>13 DEF StopForRelease
  <2> QED
    BY <1>2, <2>1, ClearedWindow DEF st
<1>14. CASE UNCHANGED <<tx_next, windowVars, now>>
  BY <1>1, <1>14, SameWindow DEF windowVars, windowSt
<1>15. CASE SecurityFailure \/ DropPdu
  BY <1>1, <1>15, SameWindow DEF SecurityFailure, DropPdu, TakeUeTask, windowSt
<1>16. ASSUME NEW s \in CryptoSlots, ApplySecurity(s) PROVE UNCHANGED <<tx_next, windowVars, now>>
  BY <1>16 DEF ApplySecurity
<1>17. ASSUME NEW kind, BeginRoutine(kind) PROVE UNCHANGED <<tx_next, windowVars, now>>
  BY <1>17 DEF BeginRoutine
<1>18. CASE Retransmit \/ Rekey \/ EndBuffering \/ Destroy \/ UNCHANGED vars
  <2>1. UNCHANGED <<tx_next, windowVars, now>>
    BY <1>18 DEF Retransmit, Rekey, EndBuffering, Destroy, vars
  <2> QED
    BY <2>1, <1>14
<1> QED
  BY <1>3, <1>4, <1>5, <1>6, <1>7, <1>8, <1>9, <1>10, <1>11, <1>12, <1>13, <1>14,
     <1>15, <1>16, <1>17, <1>18 DEF Next

-----------------------------------------------------------------------------
(* The state of the crypto reordering, and the tasks in flight.            *)

ReorderType ==
  /\ tx_trans_crypto \in Count /\ tx_reord_crypto \in Count
  /\ crypto_reordering_timer \in BOOLEAN /\ retransmit_id \in 0 .. MaxRetransmit

LEMMA HandleCryptoTimerType ==
  ASSUME TypeOK, NEW to \in Count, HandleCryptoTimer(to)
  PROVE  tx_reord_crypto' \in Count /\ crypto_reordering_timer' \in BOOLEAN
BY DEF HandleCryptoTimer, TypeOK, StTypeOK

LEMMA NextReorderType ==
  ASSUME TypeOK, [Next]_vars
  PROVE  ReorderType'
<1>1. /\ ReorderType /\ 0 \in Count /\ tx_next \in Count /\ tx_next_ack \in Count
      /\ MaxRetransmit \in Nat /\ StartCounts \subseteq Count
  BY CountFacts, BoundAssumption DEF TypeOK, StTypeOK, ReorderType
<1>2. CASE UNCHANGED <<cryptoSt, retransmit_id>>
  BY <1>1, <1>2 DEF ReorderType, cryptoSt
<1>3. CASE HandleSdu \/ Flush \/ \E s \in CryptoSlots : ApplySecurity(s)
  BY <1>2, <1>3 DEF HandleSdu, Flush, ApplySecurity
<1>4. CASE SecurityFailure \/ DropPdu
  BY <1>2, <1>4 DEF SecurityFailure, DropPdu, TakeUeTask
<1>5. CASE StorePdu
  <2>1. PICK to \in Count :
          \/ Fail("absent_element")
          \/ tx_trans_crypto' = to /\ HandleCryptoTimer(to) /\ UNCHANGED retransmit_id
    BY <1>5 DEF StorePdu, TakeUeTask
  <2> QED
    BY <1>1, <1>2, <2>1, HandleCryptoTimerType DEF Fail, ReorderType
<1>6. CASE CryptoTimeout
  <2>1. PICK to \in Count :
          \/ Fail("absent_element")
          \/ /\ tx_trans_crypto' = to /\ UNCHANGED retransmit_id
             /\ crypto_reordering_timer' = (to < tx_next)
             /\ tx_reord_crypto' = IF to < tx_next THEN tx_next ELSE tx_reord_crypto
    BY <1>6 DEF CryptoTimeout
  <2>2. CASE Fail("absent_element")
    BY <1>2, <2>2 DEF Fail
  <2>3. CASE ~Fail("absent_element")
    <3>1. crypto_reordering_timer' = (to < tx_next)
      BY <2>1, <2>3, Zenon
    <3> QED
      BY <1>1, <2>1, <2>3, <3>1 DEF ReorderType
  <2> QED
    BY <2>2, <2>3
<1>7. CASE Tick \/ DiscardExpire
  BY <1>2, <1>7 DEF Tick, DiscardExpire
<1>8. ASSUME NEW c, TransmitNotification(c) \/ DeliveryNotification(c)
      PROVE  UNCHANGED <<cryptoSt, retransmit_id>>
  BY <1>8 DEF TransmitNotification, DeliveryNotification, ByNotification, Fail
<1>9. ASSUME NEW fmc, NEW bitmap, StatusReport(fmc, bitmap)
      PROVE  UNCHANGED <<cryptoSt, retransmit_id>>
  BY <1>9 DEF StatusReport, ByNotification
<1>10. ASSUME NEW r, BeginRetransmit(r), retransmit_id < MaxRetransmit,
              UNCHANGED <<tx_reord_crypto, crypto_reordering_timer>>
       PROVE  ReorderType'
  BY <1>1, <1>10 DEF BeginRetransmit, ReorderType
<1>11. CASE DataRecovery
  BY <1>10, <1>11 DEF DataRecovery
<1>12. CASE Retransmit \/ Rekey \/ EndBuffering \/ Destroy \/ UNCHANGED vars
            \/ \E kind \in {"suspend", "rekey", "resume"} : BeginRoutine(kind)
  <2>1. UNCHANGED <<cryptoSt, retransmit_id>>
    BY <1>12 DEF Retransmit, Rekey, EndBuffering, Destroy, BeginRoutine, vars
  <2> QED
    BY <1>2, <2>1
<1>13. CASE Suspend
  BY <1>1, <1>13 DEF Suspend, ResetState, StartAt, ReorderType
<1>14. CASE ModifyBearer
  <2>1. \/ BeginRetransmit("retransmit") /\ retransmit_id < MaxRetransmit
           /\ UNCHANGED <<tx_reord_crypto, crypto_reordering_timer>>
        \/ /\ \E c \in StartCounts \cup {0} : StartAt(c)
           /\ UNCHANGED <<crypto_reordering_timer, retransmit_id>>
        \/ UNCHANGED <<cryptoSt, retransmit_id>>
    BY <1>14 DEF ModifyBearer, Reestablish, ResetState, SetCount
  <2>2. CASE /\ \E c \in StartCounts \cup {0} : StartAt(c)
             /\ UNCHANGED <<crypto_reordering_timer, retransmit_id>>
    BY <1>1, <2>2 DEF StartAt, ReorderType
  <2> QED
    BY <1>2, <1>10, <2>1, <2>2
<1>15. CASE StopForRelease
  BY <1>1, <1>15 DEF StopForRelease, st, ReorderType
<1> QED
  BY <1>2, <1>3, <1>4, <1>5, <1>6, <1>7, <1>8, <1>9, <1>11, <1>12, <1>13, <1>14,
     <1>15 DEF Next

LEMMA FlightFacts ==
  ASSUME TypeOK
  PROVE  /\ IsFiniteSet(Busy) /\ Cardinality(Busy) \in Nat
         /\ Len(ue_queue) \in Nat /\ InFlight \in Nat
         /\ InFlight = 0 <=> NothingInFlight
<1>1. IsFiniteSet(Busy)
  BY BoundAssumption, FS_Subset DEF Busy
<1>2. Cardinality(Busy) \in Nat /\ (Cardinality(Busy) = 0 <=> Busy = {})
  BY <1>1, FS_CardinalityType, FS_EmptySet
<1>3. Len(ue_queue) \in Nat /\ (Len(ue_queue) = 0 <=> ue_queue = <<>>)
  BY DEF TypeOK, FlightTypeOK
<1>4. Busy = {} <=> \A s \in CryptoSlots : crypto[s] = None
  BY DEF Busy
<1> QED
  BY <1>1, <1>2, <1>3, <1>4 DEF InFlight, NothingInFlight

FlightInv == FlightTypeOK /\ MngrTypeOK /\ TokenInv

LEMMA SameFlight ==
  ASSUME TypeOK, TokenInv, UNCHANGED <<flight, mngrVars>>, Owed' = Owed
  PROVE  FlightInv'
<1>1. InFlight' = InFlight
  BY DEF flight, InFlight, Busy
<1>2. FlightTypeOK'
  BY DEF TypeOK, FlightTypeOK, flight
<1>3. MngrTypeOK'
  BY DEF TypeOK, MngrTypeOK, mngrVars
<1>4. TokenInv'
  BY <1>1 DEF TokenInv, mngrVars
<1> QED
  BY <1>2, <1>3, <1>4 DEF FlightInv

LEMMA ReturnTokenType ==
  ASSUME MngrTypeOK, ReturnToken
  PROVE  MngrTypeOK'
<1>1. tokens' \in Int
  BY DEF MngrTypeOK, ReturnToken
<1>2. pending_crypto' \in BOOLEAN
  BY DEF MngrTypeOK, ReturnToken
<1> QED
  BY <1>1, <1>2 DEF MngrTypeOK

\* A PDU that goes to the crypto workers takes a token; one that finds their
\* executor full leaves all as it was.
LEMMA QueueForCryptoTokens ==
  ASSUME TypeOK, TokenInv, Owed = 0, Owed' = 0, NEW task \in CryptoTask,
         QueueForCrypto(task), UNCHANGED ue_queue
  PROVE  FlightInv'
<1>1. tokens = InFlight /\ ~pending_crypto /\ InFlight \in Nat
  BY FlightFacts DEF TokenInv
<1>2. task # None
  BY NoneAssumption
<1>3. ASSUME NEW s \in CryptoSlots, crypto[s] = None,
             crypto' = [crypto EXCEPT ![s] = task],
             tokens' = tokens + 1, UNCHANGED pending_crypto
      PROVE  FlightInv'
  <2>1. Busy' = Busy \cup {s} /\ s \notin Busy
    BY <1>2, <1>3 DEF Busy, TypeOK, FlightTypeOK
  <2>2. Cardinality(Busy') = Cardinality(Busy) + 1
    BY <2>1, FlightFacts, FS_AddElement
  <2>3. InFlight' = InFlight + 1
    BY <2>2, FlightFacts DEF InFlight
  <2>4. FlightTypeOK'
    BY <1>3 DEF TypeOK, FlightTypeOK
  <2>5. tokens' \in Int /\ tokens' = InFlight' - Owed'
    BY <1>1, <1>3, <2>3
  <2>6. ~pending_crypto' /\ pending_crypto' \in BOOLEAN
    BY <1>1, <1>3, Zenon DEF TypeOK, MngrTypeOK
  <2>7. MngrTypeOK' /\ TokenInv'
    BY <2>5, <2>6, Zenon DEF MngrTypeOK, TokenInv
  <2> QED
    BY <2>4, <2>7 DEF FlightInv
<1>4. CASE /\ pending_crypto' = (pending_crypto \/ tokens + 1 = 0)
           /\ UNCHANGED <<tokens, crypto>>
  <2>1. tokens + 1 # 0
    BY <1>1
  <2>2. ~pending_crypto' /\ pending_crypto' \in BOOLEAN
    BY <1>1, <1>4, <2>1, Zenon
  <2>3. InFlight' = InFlight /\ FlightTypeOK'
    BY <1>4 DEF InFlight, Busy, TypeOK, FlightTypeOK
  <2>4. tokens' \in Int /\ tokens' = InFlight' - Owed'
    BY <1>1, <1>4, <2>3
  <2>5. MngrTypeOK' /\ TokenInv'
    BY <2>2, <2>4, Zenon DEF MngrTypeOK, TokenInv
  <2> QED
    BY <2>3, <2>5 DEF FlightInv
<1> QED
  BY <1>3, <1>4 DEF QueueForCrypto

LEMMA TransmitSduTokens ==
  ASSUME TypeOK, TokenInv, Owed = 0, Owed' = 0, TransmitSdu, UNCHANGED ue_queue
  PROVE  FlightInv'
<1>1. \/ UNCHANGED <<crypto, mngrVars>>
      \/ QueueForCrypto([count |-> tx_next, retx_id |-> retransmit_id])
  BY DEF TransmitSdu
<1>2. [count |-> tx_next, retx_id |-> retransmit_id] \in CryptoTask
  BY DEF TypeOK, StTypeOK, CryptoTask
<1> QED
  BY <1>1, <1>2, QueueForCryptoTokens, SameFlight DEF flight

\* The last of several tasks in flight leaves the manager's own token, and
\* the event is set when that one was given back before.
LEMMA ReturnTokenCounts ==
  ASSUME TypeOK, TokenInv, ReturnToken, InFlight > 0, InFlight' = InFlight - 1,
         Owed' = Owed
  PROVE  TokenInv'
<1>1. Owed \in {0, 1}
  BY DEF Owed
<1>2. ~pending_crypto
  BY FlightFacts DEF TokenInv
<1>3. tokens' = InFlight' - Owed'
  BY <1>1, FlightFacts DEF TokenInv, ReturnToken
<1>4. ASSUME pending_crypto' PROVE tokens = 0
  BY <1>2, <1>4 DEF ReturnToken
<1>5. pending_crypto' => Owed' = 1 /\ InFlight' = 0
  BY <1>1, <1>4, FlightFacts DEF TokenInv
<1> QED
  BY <1>3, <1>5 DEF TokenInv

LEMMA ApplySecurityTokens ==
  ASSUME TypeOK, TokenInv, NEW s \in CryptoSlots, ApplySecurity(s)
  PROVE  FlightInv'
<1>1. Busy' = Busy \ {s} /\ s \in Busy
  BY DEF ApplySecurity, Busy, TypeOK, FlightTypeOK
<1>2. Cardinality(Busy') = Cardinality(Busy) - 1 /\ Cardinality(Busy) \in Nat \ {0}
  BY <1>1, FlightFacts, FS_RemoveElement, FS_EmptySet, FS_CardinalityType
<1>3. Owed' = Owed
  BY DEF ApplySecurity, Owed, ctrlVars, lifeVars
<1>4. InFlight > 0 /\ ~pending_crypto
  BY <1>2, FlightFacts DEF InFlight, TokenInv
<1>5. crypto' \in [CryptoSlots -> CryptoTask \cup {None}] /\ Len(ue_queue) \in Nat
      /\ ue_queue \in Seq(UeTask) /\ UeQueueSize \in Nat /\ Len(ue_queue) <= UeQueueSize
  BY BoundAssumption DEF ApplySecurity, TypeOK, FlightTypeOK
<1>6. CASE Len(ue_queue) < UeQueueSize
  <2>1. PICK v \in {"success", "failure"} :
          /\ ue_queue' = Append(ue_queue, [verdict |-> v,
                                           count   |-> crypto[s].count,
                                           retx_id |-> crypto[s].retx_id,
                                           key     |-> key])
          /\ UNCHANGED mngrVars
    <3>1. ~(Len(ue_queue) >= UeQueueSize)
      BY <1>5, <1>6
    <3> QED
      BY <3>1 DEF ApplySecurity
  <2>2. crypto[s] \in CryptoTask /\ key \in 1 .. MaxKey
    BY DEF ApplySecurity, TypeOK, FlightTypeOK, CtrlTypeOK
  <2>3. [verdict |-> v, count |-> crypto[s].count, retx_id |-> crypto[s].retx_id,
         key |-> key] \in UeTask
    BY <2>2 DEF UeTask, CryptoTask
  <2>4. /\ ue_queue' \in Seq(UeTask) /\ Len(ue_queue') = Len(ue_queue) + 1
        /\ Len(ue_queue') <= UeQueueSize
    BY <1>5, <1>6, <2>1, <2>3
  <2>5. InFlight' = InFlight
    BY <1>2, <1>5, <2>4 DEF InFlight
  <2>6. MngrTypeOK' /\ TokenInv'
    BY <1>3, <2>1, <2>5 DEF TypeOK, MngrTypeOK, mngrVars, TokenInv
  <2> QED
    BY <1>5, <2>4, <2>6 DEF FlightInv, FlightTypeOK
<1>7. CASE Len(ue_queue) >= UeQueueSize
  <2>1. UNCHANGED ue_queue /\ ReturnToken
    BY <1>5, <1>7 DEF ApplySecurity
  <2>2. InFlight' = InFlight - 1
    BY <1>2, <1>5, <2>1 DEF InFlight
  <2>3. TokenInv' /\ MngrTypeOK'
    BY <1>3, <1>4, <2>1, <2>2, ReturnTokenCounts, ReturnTokenType DEF TypeOK
  <2> QED
    BY <1>5, <2>1, <2>3 DEF FlightInv, FlightTypeOK
<1> QED
  BY <1>5, <1>6, <1>7

LEMMA TakeUeTaskTokens ==
  ASSUME TypeOK, TokenInv, NEW verdict, TakeUeTask(verdict)
  PROVE  FlightInv'
<1>1. /\ Len(ue_queue) > 0 /\ Len(ue_queue') = Len(ue_queue) - 1
      /\ ue_queue' \in Seq(UeTask) /\ UNCHANGED crypto
      /\ Len(ue_queue) \in Nat /\ Len(ue_queue) <= UeQueueSize
  BY DEF TakeUeTask, TypeOK, FlightTypeOK
<1>2. Owed' = Owed
  BY DEF TakeUeTask, Owed, ctrlVars, lifeVars
<1>3. Cardinality(Busy') = Cardinality(Busy)
  BY <1>1 DEF Busy
<1>4. InFlight' = InFlight - 1 /\ InFlight > 0
  BY <1>1, <1>3, FlightFacts DEF InFlight
<1>5. TokenInv' /\ MngrTypeOK'
  BY <1>2, <1>4, ReturnTokenCounts, ReturnTokenType DEF TakeUeTask, TypeOK
<1>6. FlightTypeOK'
  BY <1>1, BoundAssumption DEF TypeOK, FlightTypeOK
<1> QED
  BY <1>5, <1>6 DEF FlightInv

\* stop() gives back the manager's own token.
LEMMA StopTokens ==
  ASSUME TypeOK, TokenInv, ReturnToken, UNCHANGED flight, Owed = 0, Owed' = 1
  PROVE  FlightInv'
<1>1. InFlight' = InFlight /\ FlightTypeOK'
  BY DEF flight, InFlight, Busy, TypeOK, FlightTypeOK
<1>2. tokens' = InFlight' - 1 /\ tokens = InFlight /\ ~pending_crypto
  BY <1>1, FlightFacts DEF TokenInv, ReturnToken
<1>3. pending_crypto' => InFlight' = 0
  BY <1>1, <1>2 DEF ReturnToken
<1>4. MngrTypeOK'
  BY ReturnTokenType DEF TypeOK
<1> QED
  BY <1>1, <1>2, <1>3, <1>4 DEF FlightInv, TokenInv

\* start() takes it again once everything is back.
LEMMA StartTokensCounts ==
  ASSUME TypeOK, TokenInv, Drained, StartTokens, UNCHANGED flight, Owed' = 0
  PROVE  FlightInv'
<1>1. InFlight' = InFlight /\ FlightTypeOK'
  BY DEF flight, InFlight, Busy, TypeOK, FlightTypeOK
<1>2. InFlight = 0 /\ Owed = 1
  BY DEF TokenInv, Drained
<1>3. tokens' = 0 /\ ~pending_crypto'
  BY <1>2 DEF TokenInv, StartTokens
<1>4. tokens' = InFlight' - Owed' /\ tokens' \in Int
  BY <1>1, <1>2, <1>3
<1>5. MngrTypeOK' /\ TokenInv'
  BY <1>3, <1>4, Zenon DEF MngrTypeOK, TokenInv, StartTokens
<1> QED
  BY <1>1, <1>5 DEF FlightInv

LEMMA NextFlight ==
  ASSUME TypeOK, CtrlInv, TokenInv, [Next]_vars
  PROVE  FlightInv'
<1>1. CASE UNCHANGED <<flight, mngrVars, stopped, routine>>
  <2>1. Owed' = Owed
    BY <1>1 DEF Owed
  <2> QED
    BY <1>1, <2>1, SameFlight
<1>2. CASE HandleSdu
  <2>1. UNCHANGED <<stopped, routine, ue_queue>> /\ ~stopped
    BY <1>2 DEF HandleSdu, lifeVars
  <2>2. CASE buffering
    BY <1>1, <1>2, <2>1, <2>2 DEF HandleSdu, flight
  <2>3. CASE ~buffering
    <3>1. Owed = 0 /\ Owed' = 0
      BY <2>1, <2>3 DEF Owed, CtrlInv
    <3> QED
      BY <1>2, <2>1, <2>3, <3>1, TransmitSduTokens DEF HandleSdu
  <2> QED
    BY <2>2, <2>3
<1>3. CASE Flush
  <2>1. /\ UNCHANGED <<stopped, ue_queue>> /\ routine = "flush"
        /\ routine' \in {"flush", "idle"}
        /\ TransmitSdu \/ UNCHANGED <<crypto, mngrVars>>
    BY <1>3 DEF Flush, lifeVars
  <2>2. Owed = 0 /\ Owed' = 0
    BY <2>1 DEF Owed, CtrlInv, Awaiting
  <2> QED
    BY <2>1, <2>2, TransmitSduTokens, SameFlight DEF flight
<1>4. ASSUME NEW s \in CryptoSlots, ApplySecurity(s) PROVE FlightInv'
  BY <1>4, ApplySecurityTokens
<1>5. CASE SecurityFailure \/ DropPdu
  BY <1>5, TakeUeTaskTokens DEF SecurityFailure, DropPdu
<1>6. CASE Fail("absent_element") \/ Fail("timer_duration")
  BY <1>1, <1>6 DEF Fail, lifeVars, ctrlVars
<1>7. CASE StorePdu
  <2>1. Fail("absent_element") \/ TakeUeTask("success")
    BY <1>7 DEF StorePdu
  <2> QED
    BY <1>6, <2>1, TakeUeTaskTokens
<1>8. CASE CryptoTimeout
  <2>1. \/ Fail("absent_element")
        \/ UNCHANGED <<flight, mngrVars, lifeVars, ctrlVars>>
    BY <1>8 DEF CryptoTimeout
  <2> QED
    BY <1>1, <1>6, <2>1 DEF lifeVars, ctrlVars
<1>9. CASE Tick \/ DiscardExpire
  BY <1>1, <1>9 DEF Tick, DiscardExpire, lifeVars, ctrlVars
<1>10. CASE ByNotification
  BY <1>1, <1>10 DEF ByNotification, lifeVars, ctrlVars
<1>11. ASSUME NEW c, TransmitNotification(c) \/ DeliveryNotification(c)
       PROVE  FlightInv'
  <2> DEFINE n == NotifiedCount(tx_next_ack, SN(c))
  <2>1. ByNotification \/ (StopAssertion(n) # "none" /\ Fail(StopAssertion(n)))
    BY <1>11 DEF TransmitNotification, DeliveryNotification
  <2>2. StopAssertion(n) \in {"none", "absent_element", "timer_duration"}
    BY DEF StopAssertion
  <2> HIDE DEF n
  <2> QED
    BY <1>6, <1>10, <2>1, <2>2
<1>12. ASSUME NEW fmc, NEW bitmap, StatusReport(fmc, bitmap) PROVE FlightInv'
  BY <1>10, <1>12 DEF StatusReport
<1>13. CASE Retransmit
  <2>1. /\ UNCHANGED <<stopped, ue_queue>>
        /\ routine \in {"retransmit", "recover"}
        /\ routine' \in {"retransmit", "recover", "idle", "end_buffering"}
        /\ \/ /\ to_retransmit < tx_next
              /\ QueueForCrypto([count |-> to_retransmit, retx_id |-> retransmit_id])
           \/ UNCHANGED <<crypto, mngrVars>>
    BY <1>13 DEF Retransmit, lifeVars
  <2>2. Owed = 0 /\ Owed' = 0
    BY <2>1 DEF Owed, CtrlInv, Awaiting
  <2>3. [count |-> to_retransmit, retx_id |-> retransmit_id] \in CryptoTask
    BY DEF TypeOK, StTypeOK, CtrlTypeOK, CryptoTask
  <2> QED
    BY <2>1, <2>2, <2>3, QueueForCryptoTokens, SameFlight DEF flight
<1>14. CASE DataRecovery
  <2>1. /\ UNCHANGED <<flight, mngrVars, stopped>> /\ ~stopped
        /\ routine = "idle" /\ routine' = "recover"
    BY <1>14 DEF DataRecovery, BeginRetransmit, lifeVars
  <2>2. Owed' = Owed
    BY <2>1 DEF Owed, Awaiting
  <2> QED
    BY <2>1, <2>2, SameFlight
<1>15. ASSUME NEW kind \in {"suspend", "rekey", "resume"}, BeginRoutine(kind)
       PROVE  FlightInv'
  <2>1. /\ UNCHANGED <<flight, stopped>> /\ ~stopped /\ routine = "idle"
        /\ routine' = kind /\ ReturnToken
    BY <1>15 DEF BeginRoutine, lifeVars
  <2>2. Owed = 0 /\ Owed' = 1
    BY <2>1 DEF Owed, Awaiting
  <2> QED
    BY <2>1, <2>2, StopTokens
<1>16. CASE Suspend \/ Rekey
  <2>1. /\ UNCHANGED <<flight, stopped>> /\ Drained /\ StartTokens
        /\ routine \in {"suspend", "rekey", "resume"} /\ routine' \in {"idle", "modify"}
    BY <1>16 DEF Suspend, Rekey, lifeVars
  <2>2. Owed' = 0
    BY <2>1 DEF Owed, CtrlInv, Awaiting
  <2> QED
    BY <2>1, <2>2, StartTokensCounts
<1>17. CASE ModifyBearer \/ EndBuffering
  <2>1. /\ UNCHANGED <<flight, mngrVars, stopped>>
        /\ routine \in {"modify", "end_buffering"}
        /\ routine' \in {"retransmit", "end_buffering", "flush"}
    BY <1>17 DEF ModifyBearer, EndBuffering, Reestablish, SetCount, BeginRetransmit,
                 lifeVars
  <2>2. Owed' = Owed
    BY <2>1 DEF Owed, Awaiting
  <2> QED
    BY <2>1, <2>2, SameFlight
<1>18. CASE StopForRelease
  <2>1. /\ UNCHANGED <<flight, routine>> /\ ReturnToken
        /\ ~stopped /\ stopped' /\ routine = "idle"
    BY <1>18 DEF StopForRelease, ctrlVars
  <2>2. Owed = 0 /\ Owed' = 1
    BY <2>1 DEF Owed, Awaiting
  <2> QED
    BY <2>1, <2>2, StopTokens
<1>19. CASE Destroy
  BY <1>1, <1>19 DEF Destroy, ctrlVars
<1>20. CASE UNCHANGED vars
  BY <1>1, <1>20 DEF vars, lifeVars, ctrlVars
<1> QED
  BY <1>2, <1>3, <1>4, <1>5, <1>7, <1>8, <1>9, <1>11, <1>12, <1>13, <1>14, <1>15,
     <1>16, <1>17, <1>18, <1>19, <1>20 DEF Next

-----------------------------------------------------------------------------
(* The theorems.                                                           *)

TxInv == TypeOK /\ CtrlInv /\ WindowOrdered /\ AgeInv /\ TokenInv

LEMMA TypeParts ==
  TypeOK <=> /\ WindowType /\ discard_timer \in Deadlines /\ ReorderType
             /\ FlightTypeOK /\ MngrTypeOK /\ CtrlTypeOK
BY Zenon DEF TypeOK, StTypeOK, WindowType, Deadlines, ReorderType

LEMMA InitTx == Init => TxInv
<1> SUFFICES ASSUME Init PROVE TxInv
  OBVIOUS
<1>1. /\ 0 \in Count /\ Window \in Nat /\ Window > 0
      /\ MaxTick \in Nat /\ MaxRetransmit \in Nat /\ SduBufferSize \in Nat
      /\ MaxKey \in Nat \ {0} /\ UeQueueSize \in Nat
  BY CountFacts, WindowFacts, BoundAssumption
<1>2. /\ WindowType /\ WindowOrdered /\ AgeInv /\ discard_timer \in Deadlines
  BY <1>1, EmptyWindow DEF Init, WindowType, WindowOrdered, AgeInv, Deadlines
<1>3. ReorderType /\ FlightTypeOK /\ MngrTypeOK
  <2>1. tokens \in Int /\ retransmit_id \in 0 .. MaxRetransmit /\ FlightTypeOK
    BY <1>1 DEF Init, FlightTypeOK
  <2> QED
    BY <1>1, <2>1, Zenon DEF Init, ReorderType, MngrTypeOK
<1>4. CtrlTypeOK
  <2>1. key \in 1 .. MaxKey /\ sdu_buffer \in 0 .. SduBufferSize
    BY <1>1 DEF Init
  <2> QED
    BY <1>1, <2>1, Zenon DEF Init, CtrlTypeOK
<1>5. TypeOK
  BY <1>2, <1>3, <1>4, TypeParts
<1>6. CtrlInv
  BY DEF Init, CtrlInv, Awaiting
<1>7. InFlight = 0 /\ Owed = 0
  BY <1>5, FlightFacts DEF Init, NothingInFlight, Owed, Awaiting
<1>8. TokenInv
  BY <1>7 DEF Init, TokenInv
<1> QED
  BY <1>2, <1>5, <1>6, <1>8 DEF TxInv

LEMMA NextTx == TxInv /\ [Next]_vars => TxInv'
<1> SUFFICES ASSUME TxInv, [Next]_vars PROVE TxInv'
  OBVIOUS
<1>1. TypeOK /\ CtrlInv /\ TokenInv /\ WindowInv
  BY TypeParts DEF TxInv, WindowInv
<1>2. CtrlTypeOK' /\ CtrlInv'
  BY <1>1, NextControl
<1>3. WindowType' /\ WindowOrdered' /\ AgeInv' /\ discard_timer' \in Deadlines
  BY <1>1, NextWindow DEF WindowInv
<1>4. ReorderType'
  BY <1>1, NextReorderType
<1>5. FlightTypeOK' /\ MngrTypeOK' /\ TokenInv'
  BY <1>1, NextFlight DEF FlightInv
<1>6. TypeOK'
  BY <1>2, <1>3, <1>4, <1>5, Zenon
     DEF TypeOK, StTypeOK, WindowType, Deadlines, ReorderType
<1> QED
  BY <1>2, <1>3, <1>5, <1>6 DEF TxInv

LEMMA TxInvariant == Spec => []TxInv
  BY InitTx, NextTx, PTL DEF Spec

\* Every variable keeps its type: no COUNT leaves its 32 bits, whatever SN is
\* reported and wherever the COUNTs start (pdcp_entity_tx.cpp:272).
THEOREM TypeCorrect == Spec => []TypeOK
<1>1. TxInv => TypeOK
  BY DEF TxInv
<1> QED
  BY <1>1, TxInvariant, PTL

\* The window keeps its SDUs between TX_NEXT_ACK and TX_NEXT, fewer of them
\* than the peer's window takes (pdcp_entity_tx.cpp:1491).
THEOREM WindowKept == Spec => []WindowOrdered
<1>1. TxInv => WindowOrdered
  BY DEF TxInv
<1> QED
  BY <1>1, TxInvariant, PTL

\* No COUNT is given to a second SDU under the same key
\* (pdcp_entity_tx.cpp:272): whenever the entity gives out COUNTs again after
\* they were set back, the keys were replaced.
THEOREM CountsFresh == Spec => []NoCountReuse
<1>1. TxInv => NoCountReuse
  <2> SUFFICES ASSUME TxInv, ~buffering, tx_next \in used PROVE FALSE
    BY DEF NoCountReuse
  <2>1. tx_next < tx_next
    BY DEF TxInv, CtrlInv
  <2>2. tx_next \in Nat
    BY CountFacts DEF TxInv, TypeOK, StTypeOK
  <2> QED
    BY <2>1, <2>2
<1> QED
  BY <1>1, TxInvariant, PTL

\* The security engines are replaced only while no crypto worker uses them and
\* no result made with them waits (pdcp_crypto_token.h:38): the event that the
\* procedure awaits is set by the last token that comes back.
THEOREM KeysSafe == Spec => KeysReplacedWhenDrained
<1>1. TxInv /\ [Next]_vars => [key' # key => NothingInFlight]_vars
  <2> SUFFICES ASSUME TxInv, Next, key' # key PROVE NothingInFlight
    OBVIOUS
  <2>1. CASE Rekey
    BY <2>1, FlightFacts DEF Rekey, Drained, TxInv, TokenInv
  <2>2. Rekey
    BY DEF Next, HandleSdu, Flush, ApplySecurity, SecurityFailure, DropPdu, StorePdu,
           TakeUeTask, CryptoTimeout, Tick, DiscardExpire, TransmitNotification,
           DeliveryNotification, StatusReport, ByNotification, Retransmit,
           DataRecovery, BeginRoutine, Suspend, ModifyBearer, EndBuffering,
           StopForRelease, Destroy, Fail, ctrlVars
  <2> QED
    BY <2>1, <2>2
<1> QED
  BY <1>1, TxInvariant, PTL DEF Spec, KeysReplacedWhenDrained

-----------------------------------------------------------------------------
(* The SDUs that leave the window, and the timer of those that stay.       *)

\* The SDUs in the window, and the ticks at which they came, are the same.
SameSdus ==
  \A c \in Count :
    /\ HasSn(tx_window', c) <=> HasSn(tx_window, c)
    /\ HasSn(tx_window, c) => tx_window'[c].tick = tx_window[c].tick

\* Every step does one of seven things to the SDUs in the window.
Keeps ==
  /\ SameSdus
  /\ UNCHANGED <<tx_next, tx_next_ack, discard_timer, acked, stopped>>
  /\ \A c \in sent' : c \in sent \/ c < tx_next

Adds ==
  /\ ~WindowFull /\ StartDiscardTimer
  /\ tx_window' = AddSn(tx_window, tx_next, [tick |-> now, pdu |-> NoPdu])
  /\ tx_next' = tx_next + 1
  /\ UNCHANGED <<tx_next_ack, now, sent, acked, stopped>>

Settles(c) ==
  LET n == NotifiedCount(tx_next_ack, SN(c)) IN
  /\ ~stopped /\ n < tx_next /\ StopAssertion(n) = "none"
  /\ \E trans \in Count : StopDiscardTimer(n, trans)
  /\ acked' = acked \cup (0 .. c)
  /\ UNCHANGED <<tx_next, now, sent, stopped>>

Expires == DiscardExpire /\ UNCHANGED <<tx_next, now, sent, acked, stopped>>

Reports(fmc, bitmap) ==
  /\ IsAm /\ StatusReports /\ fmc <= tx_next
  /\ DiscardPdus({c \in Count : c < fmc} \cup bitmap)
  /\ acked' = acked \cup (0 .. (fmc - 1)) \cup bitmap
  /\ UNCHANGED <<tx_next, now, discard_timer, sent, stopped>>

Restarts ==
  /\ \A c \in Count : ~HasSn(tx_window', c)
  /\ tx_next' = tx_next_ack' /\ UNCHANGED stopped
  /\ \/ /\ tx_next' = 0 /\ sent' = {} /\ acked' = {}
        /\ discard_timer' = NoDeadline \/ (~IsAm /\ routine = "modify")
     \/ tx_next = 0 /\ UNCHANGED <<sent, acked>>
  /\ discard_timer' \in {discard_timer, NoDeadline}

Stops ==
  /\ stopped' /\ \A c \in Count : ~HasSn(tx_window', c)
  /\ UNCHANGED <<tx_next, sent, acked>>

\* What is confirmed was submitted, and both have a COUNT that was given.
BelowNext == \A c \in sent \cup acked : c < tx_next

LEMMA SubmittedSdus ==
  ASSUME NEW w \in [Count -> Element \cup {None}], NEW S, NEW c \in Count
  PROVE  /\ HasSn(Submitted(w, S), c) <=> HasSn(w, c)
         /\ HasSn(w, c) => Submitted(w, S)[c].tick = w[c].tick
<1>1. HasSn(Submitted(w, S), c) =>
        HasSn(w, c) /\ Submitted(w, S)[c].tick = w[c].tick
  BY SubmittedType
<1>2. ASSUME HasSn(w, c) PROVE HasSn(Submitted(w, S), c)
  <2>1. w[c] \in Element /\ NoPdu \in 0 .. MaxKey
    BY <1>2, BoundAssumption DEF HasSn, NoPdu
  <2>2. [w[c] EXCEPT !.pdu = NoPdu] \in Element
    BY <2>1 DEF Element
  <2>3. Submitted(w, S)[c] \in Element
    BY <2>1, <2>2 DEF Submitted
  <2> QED
    BY <2>3, NoneAssumption DEF HasSn
<1> QED
  BY <1>1, <1>2

LEMMA InSequenceBelow ==
  ASSUME TypeOK, NEW w, NEW from \in Count, NEW to \in Count,
         InSequenceUpTo(w, from, to)
  PROVE  \A c \in from .. (to - 1) : c < tx_next
BY DEF InSequenceUpTo

LEMMA StoreKeeps ==
  ASSUME TxInv, StorePdu
  PROVE  Keeps
<1> DEFINE task == Head(ue_queue)
           w    == [tx_window EXCEPT ![task.count].pdu = task.key]
<1>1. /\ task \in UeTask /\ HasSn(tx_window, task.count) /\ TypeOK
      /\ tx_window \in [Count -> Element \cup {None}]
      /\ tx_trans_crypto \in Count /\ sent \subseteq Count
  BY DEF StorePdu, Outdated, TxInv, TypeOK, StTypeOK, FlightTypeOK, CtrlTypeOK
<1>2. PICK to \in Count :
        \/ Fail("absent_element")
        \/ /\ InSequenceUpTo(w, tx_trans_crypto, to)
           /\ TakeUeTask("success")
           /\ tx_window' = Submitted(w, tx_trans_crypto .. (to - 1))
           /\ sent' = sent \cup (tx_trans_crypto .. (to - 1))
  BY DEF StorePdu
<1> HIDE DEF task
<1>3. CASE Fail("absent_element")
  BY <1>3 DEF Fail, windowVars, lifeVars, Keeps, SameSdus
<1>4. CASE ~Fail("absent_element")
  <2>1. /\ task.count \in Count /\ task.key \in 0 .. MaxKey
        /\ tx_window[task.count] \in Element
    BY <1>1, BoundAssumption DEF UeTask, HasSn
  <2>2. /\ [tx_window[task.count] EXCEPT !.pdu = task.key] \in Element
        /\ [tx_window[task.count] EXCEPT !.pdu = task.key].tick
             = tx_window[task.count].tick
    BY <2>1 DEF Element
  <2>3. \A c \in Count : w[c] = IF c = task.count
                                THEN [tx_window[task.count] EXCEPT !.pdu = task.key]
                                ELSE tx_window[c]
    BY <1>1, <2>1
  <2>4. w \in [Count -> Element \cup {None}]
    BY <1>1, <2>1, <2>2
  <2>5. \A c \in Count : /\ HasSn(w, c) <=> HasSn(tx_window, c)
                         /\ w[c].tick = tx_window[c].tick
    BY <2>1, <2>2, <2>3, NoneAssumption DEF HasSn
  <2> HIDE DEF w
  <2>6. SameSdus
    BY <1>2, <1>4, <2>4, <2>5, SubmittedSdus DEF SameSdus
  <2>7. \A c \in sent' : c \in sent \/ c < tx_next
    BY <1>1, <1>2, <1>4, InSequenceBelow
  <2> QED
    BY <1>2, <1>4, <2>6, <2>7 DEF Keeps, TakeUeTask, lifeVars
<1> QED
  BY <1>3, <1>4

LEMMA CryptoTimeoutKeeps ==
  ASSUME TxInv, CryptoTimeout
  PROVE  Keeps
<1> DEFINE w == Submitted(tx_window, GivenUp)
<1>1. /\ TypeOK /\ WindowOrdered /\ tx_reord_crypto \in Count /\ tx_trans_crypto \in Count
      /\ tx_window \in [Count -> Element \cup {None}]
  BY DEF TxInv, TypeOK, StTypeOK
<1>2. PICK to \in Count :
        \/ Fail("absent_element")
        \/ /\ InSequenceUpTo(w, tx_reord_crypto, to)
           /\ tx_window' = Submitted(w, tx_reord_crypto .. (to - 1))
           /\ sent' = sent \cup PdusIn(tx_window, GivenUp)
                           \cup (tx_reord_crypto .. (to - 1))
           /\ UNCHANGED <<tx_next, tx_next_ack, discard_timer, lifeVars, acked>>
  BY DEF CryptoTimeout
<1>3. /\ w \in [Count -> Element \cup {None}]
      /\ \A c \in Count : /\ HasSn(w, c) <=> HasSn(tx_window, c)
                          /\ HasSn(tx_window, c) => w[c].tick = tx_window[c].tick
  BY <1>1, SubmittedType, SubmittedSdus
<1> HIDE DEF w
<1>4. CASE Fail("absent_element")
  BY <1>4 DEF Fail, windowVars, lifeVars, Keeps, SameSdus
<1>5. CASE ~Fail("absent_element")
  <2>1. SameSdus
    BY <1>2, <1>3, <1>5, SubmittedSdus DEF SameSdus
  <2>2. GivenUp \subseteq Count
    BY <1>1, UpToIsCounts, CountFacts DEF GivenUp
  <2>3. \A c \in PdusIn(tx_window, GivenUp) : c < tx_next
    BY <1>1, <2>2 DEF PdusIn, HasPdu, WindowOrdered
  <2>4. \A c \in sent' : c \in sent \/ c < tx_next
    BY <1>1, <1>2, <1>5, <2>3, InSequenceBelow
  <2> QED
    BY <1>2, <1>5, <2>1, <2>4 DEF Keeps, lifeVars
<1> QED
  BY <1>4, <1>5

LEMMA NotificationKinds ==
  ASSUME TxInv, NEW c \in Notifiable, TransmitNotification(c) \/ DeliveryNotification(c)
  PROVE  Keeps \/ Settles(c)
<1> DEFINE n == NotifiedCount(tx_next_ack, SN(c))
<1>1. /\ c \in Count /\ tx_next_ack \in Count /\ tx_trans \in Count /\ tx_next \in Count
  BY DEF TxInv, TypeOK, StTypeOK, CtrlTypeOK, Notifiable
<1>2. n \in Count /\ n \in Nat /\ n < tx_next
  BY <1>1, NotifiedCountType, CountFacts DEF TransmitNotification, DeliveryNotification
<1>3. n + 1 \in Count /\ ~stopped
  BY <1>1, <1>2, CountFacts DEF TransmitNotification, DeliveryNotification
<1>4. \/ Fail(StopAssertion(n))
      \/ /\ UNCHANGED <<tx_next_ack, tx_window, discard_timer, acked>>
         /\ ByNotification
      \/ /\ StopAssertion(n) = "none" /\ acked' = acked \cup (0 .. c)
         /\ StopDiscardTimer(n, n + 1) \/ StopDiscardTimer(n, tx_trans)
         /\ ByNotification
  BY DEF TransmitNotification, DeliveryNotification
<1>5. CASE Fail(StopAssertion(n))
  BY <1>5 DEF Fail, windowVars, lifeVars, Keeps, SameSdus
<1>6. CASE UNCHANGED <<tx_next_ack, tx_window, discard_timer, acked>> /\ ByNotification
  BY <1>6 DEF ByNotification, lifeVars, Keeps, SameSdus
<1>7. CASE /\ StopAssertion(n) = "none" /\ acked' = acked \cup (0 .. c)
           /\ StopDiscardTimer(n, n + 1) \/ StopDiscardTimer(n, tx_trans)
           /\ ByNotification
  <2>1. \E trans \in Count : StopDiscardTimer(n, trans)
    BY <1>1, <1>3, <1>7
  <2>2. UNCHANGED <<tx_next, now, sent, stopped>>
    BY <1>7 DEF ByNotification, lifeVars
  <2> QED
    BY <1>2, <1>3, <1>7, <2>1, <2>2 DEF Settles
<1> QED
  BY <1>4, <1>5, <1>6, <1>7

LEMMA TransmitSduKinds ==
  ASSUME TxInv, TransmitSdu,
         UNCHANGED <<tx_next_ack, now, lifeVars, sent, acked>>
  PROVE  Keeps \/ Adds
<1>1. tx_next \in Nat /\ MaxCountHard \in Nat
  BY CountFacts, MaxCountAssumption DEF TxInv, TypeOK, StTypeOK
<1>2. CASE WindowFull \/ tx_next >= MaxCountHard
  <2>1. UNCHANGED <<tx_next, tx_window, discard_timer>>
    BY <1>1, <1>2 DEF TransmitSdu
  <2> QED
    BY <2>1 DEF Keeps, SameSdus, lifeVars
<1>3. CASE ~WindowFull /\ tx_next < MaxCountHard
  BY <1>1, <1>3 DEF TransmitSdu, Adds, lifeVars
<1> QED
  BY <1>1, <1>2, <1>3

LEMMA SettingKinds ==
  ASSUME TxInv, ModifyBearer
  PROVE  Keeps \/ Restarts
<1>1. routine = "modify" /\ UNCHANGED lifeVars
  BY DEF ModifyBearer
<1>2. CASE Reestablish
  <2>1. CASE /\ ~IsAm /\ ResetState /\ UNCHANGED discard_timer
    BY <1>1, <2>1, EmptyWindow
       DEF ResetState, StartAt, ClearWindow, Restarts, lifeVars
  <2>2. CASE /\ BeginRetransmit("retransmit")
             /\ UNCHANGED <<tx_next, tx_next_ack, tx_window, discard_timer, sent, acked>>
    BY <1>1, <2>2 DEF Keeps, SameSdus, lifeVars
  <2> QED
    BY <1>2, <2>1, <2>2 DEF Reestablish
<1>3. ASSUME NEW count \in StartCounts, SetCount(count)
      PROVE  Restarts
  <2>1. /\ tx_next = 0 /\ StartAt(count)
        /\ UNCHANGED <<tx_window, discard_timer, sent, acked>>
    BY <1>3 DEF SetCount
  <2>2. \A c \in Count : ~HasSn(tx_window', c)
    BY <2>1, CountFacts DEF TxInv, WindowOrdered, HasSn
  <2> QED
    BY <1>1, <2>1, <2>2 DEF StartAt, Restarts, lifeVars
<1>4. CASE UNCHANGED <<tx_next, windowVars, sent, acked>>
  BY <1>1, <1>4 DEF windowVars, lifeVars, Keeps, SameSdus
<1> QED
  BY <1>2, <1>3, <1>4 DEF ModifyBearer

LEMMA KindsOfSteps ==
  ASSUME TxInv, [Next]_vars
  PROVE  \/ Keeps \/ Adds \/ Expires \/ Restarts \/ Stops
         \/ \E c \in Notifiable : Settles(c)
         \/ \E fmc \in Reportable :
              \E bitmap \in SUBSET {c \in sent : c > fmc} : Reports(fmc, bitmap)
<1>1. CASE HandleSdu \/ Flush
  <2>1. UNCHANGED <<tx_next_ack, now, lifeVars, sent, acked>>
    BY <1>1 DEF HandleSdu, Flush
  <2>2. TransmitSdu \/ UNCHANGED <<tx_next, tx_window, discard_timer>>
    BY <1>1 DEF HandleSdu, Flush
  <2>3. CASE UNCHANGED <<tx_next, tx_window, discard_timer>>
    BY <2>1, <2>3 DEF Keeps, SameSdus, lifeVars
  <2> QED
    BY <2>1, <2>2, <2>3, TransmitSduKinds
<1>2. CASE StorePdu \/ CryptoTimeout
  BY <1>2, StoreKeeps, CryptoTimeoutKeeps
<1>3. CASE DiscardExpire
  BY <1>3 DEF DiscardExpire, Expires, lifeVars
<1>4. ASSUME NEW c \in Notifiable, TransmitNotification(c) \/ DeliveryNotification(c)
      PROVE  Keeps \/ Settles(c)
  BY <1>4, NotificationKinds
<1>5. ASSUME NEW fmc, NEW bitmap, StatusReport(fmc, bitmap)
      PROVE  Reports(fmc, bitmap)
  BY <1>5 DEF StatusReport, ByNotification, Reports, lifeVars
<1>6. CASE Suspend
  BY <1>6, EmptyWindow
     DEF Suspend, ResetState, StartAt, ClearWindow, Restarts, lifeVars
<1>7. CASE ModifyBearer
  BY <1>7, SettingKinds
<1>8. CASE StopForRelease
  BY <1>8, EmptyWindow DEF StopForRelease, ClearWindow, Stops, st
<1>9. CASE \/ SecurityFailure \/ DropPdu \/ Tick \/ Retransmit \/ DataRecovery
           \/ Rekey \/ EndBuffering \/ Destroy \/ UNCHANGED vars
           \/ \E s \in CryptoSlots : ApplySecurity(s)
           \/ \E kind \in {"suspend", "rekey", "resume"} : BeginRoutine(kind)
  <2>1. UNCHANGED <<tx_next, tx_next_ack, tx_window, discard_timer, sent, acked, stopped>>
    BY <1>9 DEF SecurityFailure, DropPdu, TakeUeTask, Tick, Retransmit, DataRecovery,
                Rekey, EndBuffering, Destroy, ApplySecurity, BeginRoutine, vars,
                windowVars, lifeVars
  <2> QED
    BY <2>1 DEF Keeps, SameSdus
<1> QED
  BY <1>1, <1>2, <1>3, <1>4, <1>5, <1>6, <1>7, <1>8, <1>9 DEF Next

-----------------------------------------------------------------------------
(* Slots of the window, and the COUNT that an SN stands for.               *)

\* A multiple of m that is nearer to 0 than m is 0.
LEMMA SmallMultiple ==
  ASSUME NEW m \in Nat, m > 0, NEW k \in Int
  PROVE  /\ k >= 1 => m * k >= m
         /\ k <= -1 => m * k <= -m
<1>1. k >= 1 => m * k >= m * 1
  OBVIOUS
<1>2. k <= -1 => m * k <= m * (-1)
  OBVIOUS
<1>3. m * 1 = m /\ m * (-1) = -m
  OBVIOUS
<1> QED
  BY <1>1, <1>2, <1>3

LEMMA Divide ==
  ASSUME NEW m \in Nat, m > 0, NEW a \in Int
  PROVE  /\ a % m \in Nat /\ a % m < m /\ a \div m \in Int
         /\ a = m * (a \div m) + (a % m)
OBVIOUS

\* Two COUNTs less than a window apart do not share a slot.
LEMMA DistinctSlots ==
  ASSUME NEW c \in Nat, NEW d \in Nat, c < d, d - c < Window
  PROVE  c % Window # d % Window
<1> SUFFICES ASSUME c % Window = d % Window PROVE FALSE
  OBVIOUS
<1> DEFINE p == c \div Window
           q == d \div Window
           r == c % Window
<1>1. /\ c = Window * p + r /\ p \in Int /\ r \in Nat
      /\ d = Window * q + r /\ q \in Int
  BY WindowFacts, Divide
<1> HIDE DEF p, q, r
<1>2. d - c = Window * (q - p) /\ q - p \in Int
  BY <1>1, WindowFacts
<1>3. q - p >= 1 \/ q - p <= -1 \/ q - p = 0
  BY <1>2
<1>4. q - p # 0
  BY <1>2, WindowFacts
<1>5. /\ q - p >= 1 => Window * (q - p) >= Window
      /\ q - p <= -1 => Window * (q - p) <= -Window
  BY <1>2, WindowFacts, SmallMultiple
<1> DEFINE k == Window * (q - p)
<1>6. d - c = k /\ (k >= Window \/ k <= -Window)
  BY <1>2, <1>3, <1>4, <1>5
<1> HIDE DEF k
<1> QED
  BY <1>6, WindowFacts

\* A notification that is less than a window away from the lower edge is
\* understood, on either side of it and across the wraps of the SN.
LEMMA NotifiedExact ==
  ASSUME NEW lower \in Count, NEW c \in Count,
         lower - Window <= c, c < lower + Window
  PROVE  NotifiedCount(lower, SN(c)) = c
<1> DEFINE h == HFN(lower)
           k == HFN(c)
           a == SN(lower)
           s == SN(c)
           m == SnMod * (k - h)
<1>1. lower \in Nat /\ c \in Nat /\ SnMod \in Nat /\ SnMod > 0
      /\ Window \in Nat /\ SnMod = 2 * Window
  BY CountFacts, WindowFacts, WindowAssumption
<1>2. /\ lower = SnMod * h + a /\ h \in Int /\ a \in Nat /\ a < SnMod
      /\ c = SnMod * k + s /\ k \in Int /\ s \in Nat /\ s < SnMod
  BY <1>1, Divide DEF HFN, SN
<1>3. k \in 0 .. (HfnMod - 1)
  <2>1. k \in Nat
    BY <1>1, SplitCount
  <2>2. c < HfnMod * SnMod
    BY CountFacts, WindowFacts DEF Count
  <2>3. ASSUME k >= HfnMod PROVE FALSE
    <3>1. SnMod * k >= SnMod * HfnMod
      BY <1>1, <2>1, <2>3, WindowAssumption
    <3>2. SnMod * HfnMod = HfnMod * SnMod /\ SnMod * HfnMod \in Nat /\ SnMod * k \in Nat
      BY <1>1, <2>1, WindowAssumption
    <3> HIDE DEF k, s
    <3> QED
      BY <1>1, <1>2, <2>2, <3>1, <3>2
  <2> QED
    BY <2>1, <2>3, WindowAssumption
<1>4. COUNT(k, s) = c
  <2>1. k % HfnMod = k
    BY <1>3, WindowAssumption
  <2>2. k * SnMod + s = c
    BY <1>1, <1>2
  <2> QED
    BY <2>1, <2>2 DEF COUNT
<1> HIDE DEF h, k, a, s
<1>5. c - lower = m + (s - a) /\ m \in Int /\ k - h \in Int
  BY <1>1, <1>2
<1>6. /\ k - h >= 1 => m >= SnMod
      /\ k - h <= -1 => m <= -SnMod
      /\ k - h = 0 => m = 0
  BY <1>1, <1>5, SmallMultiple
<1>7. /\ k - h >= 2 => m >= 2 * SnMod
      /\ k - h <= -2 => m <= -(2 * SnMod)
  <2>1. /\ (k - h) - 1 >= 1 => SnMod * ((k - h) - 1) >= SnMod
        /\ (k - h) + 1 <= -1 => SnMod * ((k - h) + 1) <= -SnMod
    BY <1>1, <1>5, SmallMultiple
  <2>2. /\ SnMod * ((k - h) - 1) = m - SnMod
        /\ SnMod * ((k - h) + 1) = m + SnMod
    BY <1>1, <1>2
  <2> QED
    BY <1>1, <1>5, <2>1, <2>2
<1> HIDE DEF m
<1>8. /\ s < a - Window => k = h + 1
      /\ s >= a + Window => k = h - 1
      /\ ~(s < a - Window) /\ ~(s >= a + Window) => k = h
  BY <1>1, <1>2, <1>5, <1>6, <1>7
<1>9. NotifiedCount(lower, SN(c)) =
        COUNT(IF s < a - Window THEN h + 1
              ELSE IF s >= a + Window THEN h - 1 ELSE h, s)
  BY DEF NotifiedCount, s, a, h
<1> QED
  BY <1>1, <1>2, <1>4, <1>8, <1>9

-----------------------------------------------------------------------------
(* The discard timer runs for the oldest SDU.                              *)

\* What was confirmed or submitted has a COUNT below TX_NEXT.
LEMMA BelowStep ==
  ASSUME TxInv, BelowNext, [Next]_vars
  PROVE  BelowNext'
<1>1. /\ tx_next \in Nat /\ tx_next_ack \in Nat /\ tx_next_ack <= tx_next
      /\ sent \subseteq Nat /\ acked \subseteq Nat
  BY CountFacts DEF TxInv, TypeOK, StTypeOK, CtrlTypeOK, WindowOrdered
<1>2. CASE Keeps
  BY <1>2 DEF Keeps, BelowNext
<1>3. CASE Adds
  BY <1>1, <1>3 DEF Adds, BelowNext
<1>4. CASE Expires
  BY <1>4 DEF Expires, BelowNext
<1>5. CASE Restarts
  <2>1. \/ sent' = {} /\ acked' = {}
        \/ tx_next = 0 /\ UNCHANGED <<sent, acked>>
    BY <1>5 DEF Restarts
  <2>2. tx_next = 0 => sent = {} /\ acked = {}
    BY <1>1 DEF BelowNext
  <2>3. sent' = {} /\ acked' = {}
    BY <2>1, <2>2
  <2> QED
    BY <2>3 DEF BelowNext
<1>6. CASE Stops
  BY <1>6 DEF Stops, BelowNext
<1>7. ASSUME NEW c \in Notifiable, Settles(c) PROVE BelowNext'
  <2>1. c \in Nat /\ c < tx_next
    BY <1>1 DEF Notifiable, BelowNext
  <2>2. acked' = acked \cup (0 .. c) /\ UNCHANGED <<tx_next, sent>>
    BY <1>7 DEF Settles
  <2> QED
    BY <1>1, <2>1, <2>2 DEF BelowNext
<1>8. ASSUME NEW fmc \in Reportable, NEW bitmap \in SUBSET {c \in sent : c > fmc},
             Reports(fmc, bitmap)
      PROVE  BelowNext'
  <2>1. /\ acked' = acked \cup (0 .. (fmc - 1)) \cup bitmap /\ fmc <= tx_next
        /\ UNCHANGED <<tx_next, sent>>
    BY <1>8 DEF Reports
  <2>2. fmc \in Nat
    BY <1>1 DEF Reportable
  <2> QED
    BY <1>1, <2>1, <2>2 DEF BelowNext
<1> QED
  BY <1>2, <1>3, <1>4, <1>5, <1>6, <1>7, <1>8, KindsOfSteps

\* The lower edge of the window is stored, and the timer runs for it.
EdgeInv ==
  Finite /\ ~stopped /\ tx_next_ack < tx_next =>
    HasSn(tx_window, tx_next_ack) /\ discard_timer # NoDeadline

\* What a new SDU leaves of the others.
LEMMA AddsFacts ==
  ASSUME TxInv, Adds
  PROVE  /\ HasSn(tx_window', tx_next) /\ tx_window'[tx_next].tick = now
         /\ \A c \in Count : HasSn(tx_window', c) =>
              c = tx_next \/ (HasSn(tx_window, c) /\ c < tx_next)
         /\ \A c \in Count : HasSn(tx_window, c) =>
              /\ HasSn(tx_window', c) /\ tx_window'[c] = tx_window[c]
<1>1. /\ tx_next \in Nat /\ tx_next_ack \in Nat /\ tx_next_ack <= tx_next
      /\ tx_next \in Count /\ Window \in Nat /\ Count \subseteq Nat
      /\ tx_next - tx_next_ack < Window - 1
      /\ tx_window \in [Count -> Element \cup {None}] /\ now \in 0 .. MaxTick
  BY CountFacts, WindowFacts
     DEF TxInv, TypeOK, StTypeOK, WindowOrdered, Adds, WindowFull
<1> DEFINE e == [tick |-> now, pdu |-> NoPdu]
<1>2. e \in Element /\ e.tick = now
  BY <1>1, BoundAssumption DEF Element, NoPdu
<1>3. tx_window' = AddSn(tx_window, tx_next, e)
  BY DEF Adds
<1> HIDE DEF e
<1>4. tx_window'[tx_next] = e
  BY <1>1, <1>3 DEF AddSn
<1>5. \A c \in Count : HasSn(tx_window, c) =>
        tx_next_ack <= c /\ c < tx_next /\ c % Window # tx_next % Window
  BY <1>1, DistinctSlots DEF TxInv, WindowOrdered
<1>6. \A c \in Count : HasSn(tx_window, c) => tx_window'[c] = tx_window[c]
  BY <1>1, <1>3, <1>5 DEF AddSn
<1>7. \A c \in Count : HasSn(tx_window', c) =>
        c = tx_next \/ HasSn(tx_window, c)
  BY <1>3 DEF AddSn, HasSn
<1> QED
  BY <1>1, <1>2, <1>4, <1>5, <1>6, <1>7, NoneAssumption DEF HasSn

\* What a confirmation does, unless it is ignored.
LEMMA SettlesFacts ==
  ASSUME TxInv, BelowNext, NEW c \in Notifiable, Settles(c)
  PROVE  /\ c \in Nat /\ c \in Count /\ c < tx_next
         /\ NotifiedCount(tx_next_ack, SN(c)) = c
         /\ StopIgnored(c) => UNCHANGED <<tx_next_ack, tx_window, discard_timer>>
         /\ ~StopIgnored(c) =>
              /\ tx_window' = RemoveAll(tx_window, tx_next_ack .. c)
              /\ tx_next_ack' = c + 1 /\ tx_next_ack <= c
              /\ discard_timer' = IF Finite /\ c + 1 < tx_next
                                  THEN RemainingDeadline(c) ELSE NoDeadline
              /\ Finite /\ c + 1 < tx_next => HasSn(tx_window, c + 1)
<1>1. /\ tx_next \in Nat /\ tx_next_ack \in Nat /\ tx_next_ack \in Count
      /\ Window \in Nat /\ tx_next - tx_next_ack < Window /\ sent \subseteq Count
  BY CountFacts, WindowFacts DEF TxInv, TypeOK, StTypeOK, CtrlTypeOK, WindowOrdered
<1>2. /\ c \in Count /\ c \in Nat /\ c < tx_next /\ tx_next_ack - Window <= c
  BY <1>1, CountFacts DEF Notifiable, BelowNext
<1>3. NotifiedCount(tx_next_ack, SN(c)) = c
  BY <1>1, <1>2, NotifiedExact
<1>4. StopAssertion(c) = "none" /\ \E trans \in Count : StopDiscardTimer(c, trans)
  BY <1>3 DEF Settles
<1>5. StopIgnored(c) => UNCHANGED <<tx_next_ack, tx_window, discard_timer>>
  BY <1>4 DEF StopDiscardTimer
<1>6. ASSUME ~StopIgnored(c)
      PROVE  /\ tx_window' = RemoveAll(tx_window, tx_next_ack .. c)
             /\ tx_next_ack' = c + 1 /\ tx_next_ack <= c
             /\ discard_timer' = IF Finite /\ c + 1 < tx_next
                                 THEN RemainingDeadline(c) ELSE NoDeadline
             /\ Finite /\ c + 1 < tx_next => HasSn(tx_window, c + 1)
  <2>1. /\ tx_window' = RemoveAll(tx_window, tx_next_ack .. c)
        /\ tx_next_ack' = c + 1
        /\ discard_timer' = IF Finite /\ c + 1 < tx_next
                            THEN RemainingDeadline(c) ELSE NoDeadline
    BY <1>4, <1>6 DEF StopDiscardTimer, Confirmed
  <2>2. tx_next_ack <= c
    BY <1>1, <1>2, <1>6 DEF StopIgnored
  <2>3. Finite /\ c + 1 < tx_next => HasSn(tx_window, c + 1)
    BY <1>1, <1>2, <1>4, <1>6 DEF StopAssertion
  <2> QED
    BY <2>1, <2>2, <2>3
<1> QED
  BY <1>2, <1>3, <1>5, <1>6

\* The ticks of the SDUs in the window.
LEMMA TickType ==
  ASSUME TypeOK
  PROVE  \A c \in Count : HasSn(tx_window, c) => tx_window[c].tick \in Nat
<1> SUFFICES ASSUME NEW c \in Count, HasSn(tx_window, c)
             PROVE  tx_window[c].tick \in Nat
  OBVIOUS
<1>1. tx_window[c] \in Element
  BY DEF TypeOK, StTypeOK, HasSn
<1>2. tx_window[c].tick \in 0 .. MaxTick
  BY <1>1 DEF Element
<1> QED
  BY <1>2, BoundAssumption

\* What discarding leaves: the lower edge is the oldest SDU that remains.
LEMMA DiscardFacts ==
  ASSUME TxInv, NEW S, DiscardPdus(S), UNCHANGED <<tx_next, now>>
  PROVE  /\ tx_next_ack <= tx_next_ack' /\ tx_next_ack' <= tx_next
         /\ \A c \in Count : HasSn(tx_window', c) <=> HasSn(tx_window, c) /\ c \notin S
         /\ \A c \in Count : HasSn(tx_window', c) => tx_window'[c] = tx_window[c]
         /\ \/ UNCHANGED <<tx_window, tx_next_ack>>
            \/ tx_next_ack' = tx_next \/ HasSn(tx_window', tx_next_ack')
<1>1. /\ WindowInv /\ tx_next \in Nat /\ tx_next_ack \in Nat /\ tx_next_ack <= tx_next
      /\ tx_window \in [Count -> Element \cup {None}]
      /\ \A c \in Count : HasSn(tx_window, c) => tx_next_ack <= c /\ c < tx_next
  BY CountFacts DEF TxInv, WindowInv, TypeOK, StTypeOK, WindowType, WindowOrdered
<1> DEFINE gone == {c \in S : tx_next_ack <= c /\ c < tx_next /\ HasSn(tx_window, c)}
<1>2. CASE gone = {}
  <2>1. UNCHANGED <<tx_window, tx_next_ack, tx_trans>>
    BY <1>2 DEF DiscardPdus
  <2>2. \A c \in Count : HasSn(tx_window, c) => c \notin S
    BY <1>1, <1>2
  <2> QED
    BY <1>1, <2>1, <2>2
<1>3. CASE gone # {}
  <2>1. PICK to \in Count :
          /\ OldestFrom(RemoveAll(tx_window, gone), tx_next_ack, to)
          /\ tx_next_ack' = to
          /\ tx_window' = RemoveAll(tx_window, gone)
    BY <1>3 DEF DiscardPdus
  <2>2. \A c \in Count : HasSn(tx_window, c) => (c \in gone <=> c \in S)
    BY <1>1
  <2> HIDE DEF gone
  <2>3. \A c \in Count :
          tx_window'[c] = IF c \in gone THEN None ELSE tx_window[c]
    BY <2>1 DEF RemoveAll
  <2>4. /\ tx_next_ack <= to /\ to <= tx_next
        /\ to = tx_next \/ HasSn(tx_window', to)
    BY <2>1 DEF OldestFrom
  <2> QED
    BY <1>1, <2>1, <2>2, <2>3, <2>4 DEF HasSn
<1> QED
  BY <1>2, <1>3

\* The deadline of the oldest SDU that remains, when the timer expired.
LEMMA ExpiresFacts ==
  ASSUME TxInv, Expires, HasSn(tx_window, tx_next_ack)
  PROVE  /\ now >= discard_timer /\ discard_timer # NoDeadline
         /\ \A c \in Count : HasSn(tx_window, c) /\ ~HasSn(tx_window', c) =>
              tx_window[c].tick = tx_window[tx_next_ack].tick
         /\ \A c \in Count : HasSn(tx_window', c) => tx_window'[c] = tx_window[c]
         /\ tx_next_ack' <= tx_next
         /\ tx_next_ack' = tx_next \/ HasSn(tx_window', tx_next_ack')
         /\ HasSn(tx_window', tx_next_ack') =>
              /\ discard_timer' =
                   now + (tx_window'[tx_next_ack'].tick - tx_window[tx_next_ack].tick)
              /\ discard_timer' >= now
              /\ tx_window'[tx_next_ack'].tick \in Nat
         /\ ~HasSn(tx_window', tx_next_ack') => discard_timer' = NoDeadline
         /\ tx_window[tx_next_ack].tick \in Nat
<1> DEFINE S == {c \in Count : SameTick(c)}
<1>1. /\ DiscardPdus(S) /\ RestartAfterDiscard(tx_window[tx_next_ack].tick)
      /\ now >= discard_timer /\ discard_timer # NoDeadline
      /\ UNCHANGED <<tx_next, now>>
  BY DEF Expires, DiscardExpire
<1>2. /\ WindowInv /\ tx_next_ack \in Count /\ tx_next_ack \in Nat /\ now \in Nat
      /\ tx_next \in Count /\ Count \subseteq Nat
  BY CountFacts, BoundAssumption
     DEF TxInv, WindowInv, TypeOK, StTypeOK, WindowType
<1>3. /\ tx_next_ack <= tx_next_ack' /\ tx_next_ack' <= tx_next
      /\ \A c \in Count : HasSn(tx_window', c) <=> HasSn(tx_window, c) /\ c \notin S
      /\ \A c \in Count : HasSn(tx_window', c) => tx_window'[c] = tx_window[c]
      /\ \/ UNCHANGED <<tx_window, tx_next_ack>>
         \/ tx_next_ack' = tx_next \/ HasSn(tx_window', tx_next_ack')
  BY <1>1, DiscardFacts
<1>4. \A c \in S : tx_window[c].tick = tx_window[tx_next_ack].tick
  BY DEF SameTick
<1>5. ~HasSn(tx_window', tx_next_ack)
  BY <1>2, <1>3 DEF SameTick
<1> HIDE DEF S
<1>6. \A c \in Count : HasSn(tx_window, c) => tx_window[c].tick \in Nat
  BY TickType DEF TxInv
<1>7. WindowInv' /\ tx_next_ack' \in Count
  BY <1>1, <1>2, DiscardPdusWindow DEF WindowInv, WindowType
<1>8. ASSUME HasSn(tx_window', tx_next_ack')
      PROVE  /\ discard_timer' =
                  now + (tx_window'[tx_next_ack'].tick - tx_window[tx_next_ack].tick)
             /\ discard_timer' >= now
             /\ tx_window'[tx_next_ack'].tick \in Nat
  <2>1. /\ tx_next_ack' # tx_next_ack /\ tx_next_ack' \in Nat
        /\ HasSn(tx_window, tx_next_ack')
        /\ tx_window'[tx_next_ack'] = tx_window[tx_next_ack']
    BY <1>2, <1>3, <1>5, <1>7, <1>8
  <2>2. tx_window[tx_next_ack].tick <= tx_window[tx_next_ack'].tick
    BY <1>2, <1>3, <1>7, <2>1 DEF WindowInv, AgeInv
  <2>3. discard_timer' =
          now + (tx_window'[tx_next_ack'].tick - tx_window[tx_next_ack].tick)
    BY <1>1, <1>8 DEF RestartAfterDiscard
  <2> QED
    BY <1>2, <1>6, <1>7, <2>1, <2>2, <2>3
<1>9. ~HasSn(tx_window', tx_next_ack') => discard_timer' = NoDeadline
  BY <1>1 DEF RestartAfterDiscard
<1>10. tx_next_ack' = tx_next \/ HasSn(tx_window', tx_next_ack')
  BY <1>3, <1>5
<1> QED
  BY <1>1, <1>2, <1>3, <1>4, <1>6, <1>8, <1>9, <1>10

LEMMA EdgeStep ==
  ASSUME TxInv, BelowNext, EdgeInv, [Next]_vars
  PROVE  EdgeInv'
<1>1. /\ tx_next \in Nat /\ tx_next_ack \in Nat /\ tx_next_ack <= tx_next
      /\ tx_next \in Count /\ tx_next_ack \in Count /\ now \in Nat /\ DiscardTicks \in Nat
      /\ \A c \in Count : HasSn(tx_window, c) => tx_window[c].tick \in Nat
  BY CountFacts, BoundAssumption, ConfigAssumption, TickType
     DEF TxInv, TypeOK, StTypeOK, WindowOrdered
<1>2. CASE Keeps
  BY <1>1, <1>2 DEF Keeps, SameSdus, EdgeInv
<1>3. CASE Adds
  <2>1. /\ StartDiscardTimer /\ tx_next' = tx_next + 1
        /\ UNCHANGED <<tx_next_ack, stopped>>
    BY <1>3 DEF Adds
  <2>2. Finite => discard_timer' # NoDeadline
    BY <1>1, <2>1 DEF StartDiscardTimer, NoDeadline
  <2>3. Finite /\ ~stopped => HasSn(tx_window', tx_next_ack)
    <3>1. CASE tx_next_ack = tx_next
      BY <1>3, <3>1, AddsFacts
    <3>2. CASE tx_next_ack < tx_next
      BY <1>1, <1>3, <3>2, AddsFacts DEF EdgeInv
    <3> QED
      BY <1>1, <3>1, <3>2
  <2> QED
    BY <2>1, <2>2, <2>3 DEF EdgeInv
<1>4. CASE Expires
  <2>1. CASE HasSn(tx_window, tx_next_ack)
    <3>1. /\ tx_next_ack' = tx_next \/ HasSn(tx_window', tx_next_ack')
          /\ HasSn(tx_window', tx_next_ack') => discard_timer' >= now
      BY <1>4, <2>1, ExpiresFacts
    <3>2. tx_next' = tx_next
      BY <1>4 DEF Expires
    <3> QED
      BY <1>1, <3>1, <3>2 DEF EdgeInv, NoDeadline
  <2>2. CASE ~HasSn(tx_window, tx_next_ack)
    <3>1. UNCHANGED <<tx_window, tx_next_ack, tx_next, stopped>>
      BY <1>4, <2>2 DEF Expires, DiscardExpire
    <3>2. Finite /\ ~stopped => tx_next_ack = tx_next
      BY <1>1, <2>2 DEF EdgeInv
    <3> QED
      BY <1>1, <3>1, <3>2 DEF EdgeInv
  <2> QED
    BY <2>1, <2>2
<1>5. CASE Restarts
  <2>1. tx_next' = tx_next_ack' /\ tx_next_ack' \in Nat
    BY <1>5, NextTx, CountFacts DEF Restarts, TxInv, TypeOK, StTypeOK
  <2> QED
    BY <2>1 DEF EdgeInv
<1>6. CASE Stops
  BY <1>6 DEF Stops, EdgeInv
<1>7. ASSUME NEW c \in Notifiable, Settles(c) PROVE EdgeInv'
  <2>1. UNCHANGED <<tx_next, stopped>>
    BY <1>7 DEF Settles
  <2>2. CASE StopIgnored(c)
    <3>1. UNCHANGED <<tx_next_ack, tx_window, discard_timer>>
      BY <1>7, <2>2, SettlesFacts
    <3> QED
      BY <2>1, <3>1 DEF EdgeInv, HasSn
  <2>3. CASE ~StopIgnored(c)
    <3>1. /\ tx_window' = RemoveAll(tx_window, tx_next_ack .. c)
          /\ tx_next_ack' = c + 1 /\ c \in Nat /\ c < tx_next
          /\ discard_timer' = IF Finite /\ c + 1 < tx_next
                              THEN RemainingDeadline(c) ELSE NoDeadline
          /\ Finite /\ c + 1 < tx_next => HasSn(tx_window, c + 1)
      BY <1>7, <2>3, SettlesFacts
    <3>2. ASSUME Finite, c + 1 < tx_next
          PROVE  HasSn(tx_window', c + 1) /\ discard_timer' # NoDeadline
      <4>1. c + 1 \in Count /\ c + 1 \notin tx_next_ack .. c
        BY <1>1, <3>1, <3>2, CountFacts
      <4>2. HasSn(tx_window', c + 1)
        BY <3>1, <3>2, <4>1 DEF RemoveAll, HasSn
      <4>3. RemainingDeadline(c) >= now + 1
        BY <1>1, <3>1, <3>2, <4>1 DEF RemainingDeadline, Later
      <4> QED
        BY <1>1, <3>1, <3>2, <4>2, <4>3 DEF NoDeadline
    <3> QED
      BY <2>1, <3>1, <3>2 DEF EdgeInv
  <2> QED
    BY <2>2, <2>3
<1>8. ASSUME NEW fmc, NEW bitmap, Reports(fmc, bitmap) PROVE EdgeInv'
  <2>1. /\ DiscardPdus({c \in Count : c < fmc} \cup bitmap)
        /\ UNCHANGED <<tx_next, now, discard_timer, stopped>>
    BY <1>8 DEF Reports
  <2>2. /\ tx_next_ack <= tx_next_ack' /\ tx_next_ack' <= tx_next
        /\ \/ UNCHANGED <<tx_window, tx_next_ack>>
           \/ tx_next_ack' = tx_next \/ HasSn(tx_window', tx_next_ack')
    BY <2>1, DiscardFacts
  <2>3. tx_next_ack' \in Nat
    BY NextTx, CountFacts DEF TxInv, TypeOK, StTypeOK
  <2>4. tx_next_ack' < tx_next => tx_next_ack < tx_next
    BY <1>1, <2>2, <2>3
  <2> QED
    BY <1>1, <2>1, <2>2, <2>3, <2>4 DEF EdgeInv
<1> QED
  BY <1>2, <1>3, <1>4, <1>5, <1>6, <1>7, <1>8, KindsOfSteps

LEMMA InitEdge == Init => BelowNext /\ EdgeInv
BY DEF Init, BelowNext, EdgeInv

LEMMA EdgeInvariant == Spec => [](TxInv /\ BelowNext /\ EdgeInv)
<1>1. Init => TxInv /\ BelowNext /\ EdgeInv
  BY InitTx, InitEdge
<1>2. TxInv /\ BelowNext /\ EdgeInv /\ [Next]_vars => (TxInv /\ BelowNext /\ EdgeInv)'
  BY NextTx, BelowStep, EdgeStep
<1> QED
  BY <1>1, <1>2, PTL DEF Spec

\* With a finite discard time the one timer of the bearer runs whenever an SDU
\* is kept, after every discard, confirmation and report
\* (pdcp_entity_tx.cpp:952).
THEOREM TimerRuns == Spec => []OldestHasTimer
<1>1. EdgeInv => OldestHasTimer
  BY DEF EdgeInv, OldestHasTimer
<1> QED
  BY <1>1, EdgeInvariant, PTL

-----------------------------------------------------------------------------
(* What leaves the window, and why.                                        *)

\* Without a discard time the timer never runs.
UnlimitedInv == ~Finite /\ ~stopped => discard_timer = NoDeadline

LEMMA UnlimitedStep ==
  ASSUME TxInv, BelowNext, UnlimitedInv, [Next]_vars
  PROVE  UnlimitedInv'
<1>1. CASE Keeps
  BY <1>1 DEF Keeps, UnlimitedInv
<1>2. CASE Adds
  BY <1>2 DEF Adds, StartDiscardTimer, UnlimitedInv
<1>3. CASE Expires
  BY <1>3 DEF Expires, DiscardExpire, UnlimitedInv
<1>4. CASE Restarts
  BY <1>4 DEF Restarts, UnlimitedInv
<1>5. CASE Stops
  BY <1>5 DEF Stops, UnlimitedInv
<1>6. ASSUME NEW c \in Notifiable, Settles(c) PROVE UnlimitedInv'
  <2>1. /\ ~Finite => discard_timer' \in {discard_timer, NoDeadline}
        /\ UNCHANGED stopped
    BY <1>6, SettlesFacts DEF Settles
  <2> QED
    BY <2>1 DEF UnlimitedInv
<1>7. ASSUME NEW fmc, NEW bitmap, Reports(fmc, bitmap) PROVE UnlimitedInv'
  BY <1>7 DEF Reports, UnlimitedInv
<1> QED
  BY <1>1, <1>2, <1>3, <1>4, <1>5, <1>6, <1>7, KindsOfSteps

\* SDUs leave out of the order of their COUNTs only when the peer reports them
\* or their time is over.
WholeInv ==
  ~Finite /\ ~stopped =>
    \A c \in Count : tx_next_ack <= c /\ c < tx_next => HasSn(tx_window, c)

LEMMA WholeStep ==
  ASSUME Finite \/ ~IsAm \/ ~StatusReports,
         TxInv, BelowNext, UnlimitedInv, WholeInv, [Next]_vars
  PROVE  WholeInv'
<1>1. /\ tx_next \in Nat /\ tx_next_ack \in Nat /\ tx_next \in Count
      /\ tx_next_ack' \in Nat /\ Count \subseteq Nat
  BY NextTx, CountFacts DEF TxInv, TypeOK, StTypeOK
<1>2. CASE Keeps
  BY <1>2 DEF Keeps, SameSdus, WholeInv
<1>3. CASE Adds
  <2>1. tx_next' = tx_next + 1 /\ UNCHANGED <<tx_next_ack, stopped>>
    BY <1>3 DEF Adds
  <2>2. /\ HasSn(tx_window', tx_next)
        /\ \A c \in Count : HasSn(tx_window, c) => HasSn(tx_window', c)
    BY <1>3, AddsFacts
  <2>3. \A c \in Count : c < tx_next + 1 => c < tx_next \/ c = tx_next
    BY <1>1
  <2> QED
    BY <2>1, <2>2, <2>3 DEF WholeInv
<1>4. CASE Expires
  BY <1>4 DEF Expires, DiscardExpire, UnlimitedInv, WholeInv
<1>5. CASE Restarts
  <2>1. tx_next' = tx_next_ack'
    BY <1>5 DEF Restarts
  <2> QED
    BY <1>1, <2>1 DEF WholeInv
<1>6. CASE Stops
  BY <1>6 DEF Stops, WholeInv
<1>7. ASSUME NEW c \in Notifiable, Settles(c) PROVE WholeInv'
  <2>1. UNCHANGED <<tx_next, stopped>>
    BY <1>7 DEF Settles
  <2>2. CASE StopIgnored(c)
    <3>1. UNCHANGED <<tx_next_ack, tx_window>>
      BY <1>7, <2>2, SettlesFacts
    <3> QED
      BY <2>1, <3>1 DEF WholeInv, HasSn
  <2>3. CASE ~StopIgnored(c)
    <3>1. /\ tx_window' = RemoveAll(tx_window, tx_next_ack .. c)
          /\ tx_next_ack' = c + 1 /\ tx_next_ack <= c /\ c \in Nat
      BY <1>7, <2>3, SettlesFacts
    <3>2. \A d \in Count : c + 1 <= d =>
            d \notin tx_next_ack .. c /\ tx_next_ack <= d
      BY <1>1, <3>1
    <3>3. \A d \in Count : c + 1 <= d => tx_window'[d] = tx_window[d]
      BY <3>1, <3>2 DEF RemoveAll
    <3> QED
      BY <2>1, <3>1, <3>2, <3>3 DEF WholeInv, HasSn
  <2> QED
    BY <2>2, <2>3
<1>8. ASSUME NEW fmc, NEW bitmap, Reports(fmc, bitmap) PROVE WholeInv'
  BY <1>8 DEF Reports, WholeInv
<1> QED
  BY <1>2, <1>3, <1>4, <1>5, <1>6, <1>7, <1>8, KindsOfSteps

LEMMA ConfirmedStep ==
  ASSUME Finite \/ ~IsAm \/ ~StatusReports,
         TxInv, BelowNext, EdgeInv, WholeInv, ConfirmedLeaves, [Next]_vars
  PROVE  ConfirmedLeaves'
<1>1. /\ tx_next \in Nat /\ tx_next_ack \in Nat /\ tx_next \in Count
      /\ tx_next_ack \in Count /\ Count \subseteq Nat
      /\ acked \subseteq Count /\ acked' \subseteq Count
      /\ \A d \in Count : HasSn(tx_window, d) => tx_next_ack <= d /\ d < tx_next
  BY NextTx, CountFacts DEF TxInv, TypeOK, StTypeOK, CtrlTypeOK, WindowOrdered
<1>2. CASE Keeps
  BY <1>1, <1>2 DEF Keeps, SameSdus, ConfirmedLeaves
<1>3. CASE Adds
  <2>1. acked' = acked
    BY <1>3 DEF Adds
  <2>2. \A d \in acked : d < tx_next
    BY DEF BelowNext
  <2>3. \A d \in Count : HasSn(tx_window', d) => d = tx_next \/ HasSn(tx_window, d)
    BY <1>3, AddsFacts
  <2> QED
    BY <1>1, <2>1, <2>2, <2>3 DEF ConfirmedLeaves
<1>4. CASE Expires
  <2>1. CASE HasSn(tx_window, tx_next_ack)
    <3>1. \A d \in Count : HasSn(tx_window', d) => HasSn(tx_window, d)
      <4>1. /\ DiscardPdus({d \in Count : SameTick(d)})
            /\ UNCHANGED <<tx_next, now>>
        BY <1>4, <2>1 DEF Expires, DiscardExpire
      <4> QED
        BY <4>1, DiscardFacts
    <3>2. acked' = acked
      BY <1>4 DEF Expires
    <3> QED
      BY <1>1, <3>1, <3>2 DEF ConfirmedLeaves
  <2>2. CASE ~HasSn(tx_window, tx_next_ack)
    <3>1. UNCHANGED <<tx_window, acked>>
      BY <1>4, <2>2 DEF Expires, DiscardExpire
    <3> QED
      BY <3>1 DEF ConfirmedLeaves, HasSn
  <2> QED
    BY <2>1, <2>2
<1>5. CASE Restarts \/ Stops
  BY <1>1, <1>5 DEF Restarts, Stops, ConfirmedLeaves
<1>6. ASSUME NEW c \in Notifiable, Settles(c) PROVE ConfirmedLeaves'
  <2>1. c \in Nat /\ c < tx_next
    BY <1>6, SettlesFacts
  <2>2. acked' = acked \cup (0 .. c) /\ ~stopped
    BY <1>6 DEF Settles
  <2>3. CASE StopIgnored(c)
    <3>1. UNCHANGED tx_window
      BY <1>6, <2>3, SettlesFacts
    <3>2. tx_next_ack < tx_next => HasSn(tx_window, tx_next_ack)
      BY <1>1, <2>2 DEF EdgeInv, WholeInv
    <3>3. c < tx_next_ack
      BY <1>1, <2>1, <2>3, <3>2 DEF StopIgnored
    <3>4. \A d \in 0 .. c : d \in Count => ~HasSn(tx_window, d)
      BY <1>1, <2>1, <3>3
    <3> QED
      BY <1>1, <2>2, <3>1, <3>4 DEF ConfirmedLeaves, HasSn
  <2>4. CASE ~StopIgnored(c)
    <3>1. tx_window' = RemoveAll(tx_window, tx_next_ack .. c)
      BY <1>6, <2>4, SettlesFacts
    <3>2. \A d \in Count : HasSn(tx_window', d) =>
            HasSn(tx_window, d) /\ d \notin tx_next_ack .. c
      BY <3>1 DEF RemoveAll, HasSn
    <3>3. \A d \in 0 .. c : d \in Count => ~HasSn(tx_window', d)
      BY <1>1, <2>1, <3>2
    <3> QED
      BY <1>1, <2>2, <3>2, <3>3 DEF ConfirmedLeaves
  <2> QED
    BY <2>3, <2>4
<1>7. ASSUME NEW fmc \in Reportable, NEW bitmap \in SUBSET {c \in sent : c > fmc},
             Reports(fmc, bitmap)
      PROVE  ConfirmedLeaves'
  <2> DEFINE S == {d \in Count : d < fmc} \cup bitmap
  <2>1. /\ DiscardPdus(S) /\ UNCHANGED <<tx_next, now>>
        /\ acked' = acked \cup (0 .. (fmc - 1)) \cup bitmap
    BY <1>7 DEF Reports
  <2>2. fmc \in Nat
    BY <1>1, CountFacts DEF Reportable, TxInv, TypeOK, CtrlTypeOK
  <2>3. \A d \in Count : d \in (0 .. (fmc - 1)) \cup bitmap => d \in S
    BY <1>1, <2>2
  <2> HIDE DEF S
  <2>4. \A d \in Count : HasSn(tx_window', d) => HasSn(tx_window, d) /\ d \notin S
    BY <2>1, DiscardFacts
  <2> QED
    BY <1>1, <2>1, <2>3, <2>4 DEF ConfirmedLeaves
<1> QED
  BY <1>2, <1>3, <1>4, <1>5, <1>6, <1>7, KindsOfSteps

\* What lower layers or the peer confirmed leaves the window, across the wraps
\* of the SNs that the notifications carry (pdcp_entity_tx.cpp:1193), unless
\* the peer's reports may leave a window without its lower edge, which no
\* discard timer ever brings up to date.
THEOREM ConfirmedGone ==
  ASSUME Finite \/ ~IsAm \/ ~StatusReports
  PROVE  Spec => []ConfirmedLeaves
<1> DEFINE I == TxInv /\ BelowNext /\ EdgeInv
           J == UnlimitedInv /\ WholeInv /\ ConfirmedLeaves
<1>1. Init => J
  <2> SUFFICES ASSUME Init PROVE J
    OBVIOUS
  <2>1. UnlimitedInv /\ ConfirmedLeaves
    BY DEF Init, UnlimitedInv, ConfirmedLeaves
  <2>2. tx_next = 0 /\ tx_next_ack = 0 /\ Count \subseteq Nat
    BY CountFacts DEF Init
  <2>3. WholeInv
    BY <2>2 DEF WholeInv
  <2> QED
    BY <2>1, <2>3
<1>2. I /\ J /\ [Next]_vars => J'
  BY UnlimitedStep, WholeStep, ConfirmedStep
<1>3. Spec => []I
  BY EdgeInvariant
<1>4. J => ConfirmedLeaves
  OBVIOUS
<1> HIDE DEF I, J
<1> QED
  BY <1>1, <1>2, <1>3, <1>4, PTL DEF Spec

\* The keys were replaced before the bearer is modified.
ModifyInv == routine = "modify" => key > 1

LEMMA ModifyStep ==
  ASSUME TypeOK, ModifyInv, [Next]_vars
  PROVE  ModifyInv'
<1>1. key \in Nat /\ key >= 1
  BY DEF TypeOK, CtrlTypeOK
<1>2. CASE Rekey
  BY <1>1, <1>2 DEF Rekey, ModifyInv
<1>3. CASE ~Rekey
  <2>1. UNCHANGED key /\ (routine' = "modify" => routine = "modify")
    BY <1>3 DEF Next, HandleSdu, Flush, ApplySecurity, SecurityFailure, DropPdu,
           StorePdu, TakeUeTask, CryptoTimeout, Tick, DiscardExpire,
           TransmitNotification, DeliveryNotification, StatusReport, ByNotification,
           Retransmit, DataRecovery, BeginRetransmit, BeginRoutine, Suspend,
           ModifyBearer, EndBuffering, StopForRelease, Destroy, Fail, ctrlVars, vars
  <2> QED
    BY <2>1 DEF ModifyInv
<1> QED
  BY <1>2, <1>3

\* The timer runs for the oldest SDU, not less than its discard time, and
\* for none when there is none.
TimelyInv ==
  Finite /\ ~stopped =>
    IF tx_next_ack < tx_next
    THEN discard_timer >= tx_window[tx_next_ack].tick + DiscardTicks
    ELSE discard_timer = NoDeadline

\* The bearers whose timer is never left running for an SDU that is gone: the
\* status reports of AM and the re-establishment of UM do that.
TimerFollows ==
  Finite => (IsAm /\ ~StatusReports) \/ (~IsAm /\ MaxKey = 1)

LEMMA TimelyStep ==
  ASSUME TimerFollows,
         TxInv, BelowNext, EdgeInv, ModifyInv, TimelyInv, [Next]_vars
  PROVE  TimelyInv'
<1>1. /\ tx_next \in Nat /\ tx_next_ack \in Nat /\ tx_next_ack <= tx_next
      /\ tx_next \in Count /\ tx_next_ack \in Count /\ now \in Nat /\ DiscardTicks \in Nat
      /\ \A c \in Count : HasSn(tx_window, c) => tx_window[c].tick \in Nat
      /\ tx_next_ack' \in Nat
  BY NextTx, CountFacts, BoundAssumption, ConfigAssumption, TickType
     DEF TxInv, TypeOK, StTypeOK, WindowOrdered
<1>2. CASE Keeps
  BY <1>1, <1>2 DEF Keeps, SameSdus, EdgeInv, TimelyInv
<1>3. CASE Adds
  <2>1. /\ StartDiscardTimer /\ tx_next' = tx_next + 1
        /\ UNCHANGED <<tx_next_ack, stopped>>
    BY <1>3 DEF Adds
  <2>2. CASE tx_next_ack = tx_next
    <3>1. tx_window'[tx_next_ack].tick = now
      BY <1>3, <2>2, AddsFacts
    <3>2. Finite /\ ~stopped => discard_timer = NoDeadline
      <4>1. ~(tx_next_ack < tx_next)
        BY <1>1, <2>2
      <4> QED
        BY <4>1 DEF TimelyInv
    <3>3. Finite /\ ~stopped => discard_timer' = now + DiscardTicks
      BY <2>1, <3>2 DEF StartDiscardTimer
    <3> QED
      BY <1>1, <2>1, <2>2, <3>1, <3>3 DEF TimelyInv
  <2>3. CASE tx_next_ack < tx_next
    <3>1. Finite /\ ~stopped =>
            /\ HasSn(tx_window, tx_next_ack) /\ discard_timer' = discard_timer
      BY <2>1, <2>3 DEF EdgeInv, StartDiscardTimer
    <3>2. Finite /\ ~stopped => tx_window'[tx_next_ack] = tx_window[tx_next_ack]
      BY <1>1, <1>3, <3>1, AddsFacts
    <3> QED
      BY <1>1, <2>1, <2>3, <3>1, <3>2 DEF TimelyInv
  <2> QED
    BY <1>1, <2>2, <2>3
<1>4. CASE Expires
  <2>1. CASE HasSn(tx_window, tx_next_ack)
    <3>1. tx_next' = tx_next /\ ~stopped /\ ~stopped'
      BY <1>4 DEF Expires, DiscardExpire
    <3>2. tx_next_ack < tx_next
      BY <1>1, <2>1 DEF TxInv, WindowOrdered
    <3>3. CASE tx_next_ack' < tx_next
      <4>1. HasSn(tx_window', tx_next_ack')
        BY <1>1, <1>4, <2>1, <3>3, ExpiresFacts
      <4> DEFINE old == tx_window[tx_next_ack].tick
                 new == tx_window'[tx_next_ack'].tick
      <4>2. /\ now >= discard_timer /\ discard_timer' = now + (new - old)
            /\ old \in Nat /\ new \in Nat
        BY <1>4, <2>1, <4>1, ExpiresFacts
      <4>3. Finite => discard_timer >= old + DiscardTicks
        BY <3>1, <3>2 DEF TimelyInv
      <4>4. discard_timer \in Int
        BY ConfigAssumption, BoundAssumption DEF TxInv, TypeOK, StTypeOK, NoDeadline
      <4> HIDE DEF old, new
      <4>5. Finite => discard_timer' >= new + DiscardTicks
        BY <1>1, <4>2, <4>3, <4>4
      <4> QED
        BY <3>1, <3>3, <4>5 DEF TimelyInv, new
    <3>4. CASE ~(tx_next_ack' < tx_next)
      <4>1. tx_next_ack' = tx_next
        BY <1>1, <1>4, <2>1, <3>4, ExpiresFacts
      <4>2. ~HasSn(tx_window', tx_next_ack')
        BY <1>1, <3>1, <4>1, NextTx DEF TxInv, WindowOrdered
      <4> QED
        BY <1>1, <1>4, <2>1, <3>1, <4>1, <4>2, ExpiresFacts DEF TimelyInv
    <3> QED
      BY <3>3, <3>4
  <2>2. CASE ~HasSn(tx_window, tx_next_ack)
    <3>1. /\ UNCHANGED <<tx_window, tx_next_ack, tx_next, stopped>> /\ ~stopped
          /\ discard_timer' = NoDeadline
      BY <1>4, <2>2 DEF Expires, DiscardExpire
    <3>2. Finite => tx_next_ack = tx_next
      BY <1>1, <2>2, <3>1 DEF EdgeInv
    <3> QED
      BY <1>1, <3>1, <3>2 DEF TimelyInv
  <2> QED
    BY <2>1, <2>2
<1>5. CASE Restarts
  <2>1. tx_next' = tx_next_ack' /\ UNCHANGED stopped
        /\ discard_timer' \in {discard_timer, NoDeadline}
    BY <1>5 DEF Restarts
  <2>2. ASSUME Finite, ~stopped PROVE discard_timer' = NoDeadline
    <3>1. ~(~IsAm /\ routine = "modify")
      BY <2>2 DEF TimerFollows, ModifyInv, TxInv, TypeOK, CtrlTypeOK
    <3>2. CASE tx_next = 0
      <4>1. ~(tx_next_ack < tx_next)
        BY <1>1, <3>2
      <4> QED
        BY <2>1, <2>2, <4>1 DEF TimelyInv
    <3> QED
      BY <1>5, <3>1, <3>2 DEF Restarts
  <2> QED
    BY <1>1, <2>1, <2>2 DEF TimelyInv
<1>6. CASE Stops
  BY <1>6 DEF Stops, TimelyInv
<1>7. ASSUME NEW c \in Notifiable, Settles(c) PROVE TimelyInv'
  <2>1. UNCHANGED <<tx_next, stopped>>
    BY <1>7 DEF Settles
  <2>2. CASE StopIgnored(c)
    <3>1. UNCHANGED <<tx_next_ack, tx_window, discard_timer>>
      BY <1>7, <2>2, SettlesFacts
    <3> QED
      BY <2>1, <3>1 DEF TimelyInv
  <2>3. CASE ~StopIgnored(c)
    <3>1. /\ tx_window' = RemoveAll(tx_window, tx_next_ack .. c)
          /\ tx_next_ack' = c + 1 /\ c \in Nat /\ c < tx_next
          /\ discard_timer' = IF Finite /\ c + 1 < tx_next
                              THEN RemainingDeadline(c) ELSE NoDeadline
          /\ Finite /\ c + 1 < tx_next => HasSn(tx_window, c + 1)
      BY <1>7, <2>3, SettlesFacts
    <3>2. ASSUME Finite, c + 1 < tx_next
          PROVE  RemainingDeadline(c) >= tx_window'[c + 1].tick + DiscardTicks
      <4>1. c + 1 \in Count /\ c + 1 \notin tx_next_ack .. c
        BY <1>1, <3>1, <3>2, CountFacts
      <4>2. tx_window'[c + 1] = tx_window[c + 1]
        BY <3>1, <4>1 DEF RemoveAll
      <4>3. tx_window[c + 1].tick \in Nat
        BY <1>1, <3>1, <3>2, <4>1
      <4> QED
        BY <1>1, <4>2, <4>3 DEF RemainingDeadline, Later
    <3> QED
      BY <2>1, <3>1, <3>2 DEF TimelyInv
  <2> QED
    BY <2>2, <2>3
<1>8. ASSUME NEW fmc, NEW bitmap, Reports(fmc, bitmap) PROVE TimelyInv'
  BY <1>8 DEF Reports, TimerFollows, TimelyInv
<1> QED
  BY <1>2, <1>3, <1>4, <1>5, <1>6, <1>7, <1>8, KindsOfSteps

\* An SDU that leaves by this step was settled.
LeavesSettled ==
  \A c \in Count :
    HasSn(tx_window, c) /\ ~HasSn(tx_window', c) =>
      \/ c \in acked' \/ stopped' \/ tx_next' = 0
      \/ Finite /\ now >= tx_window[c].tick + DiscardTicks

LEMMA LeavesStep ==
  ASSUME TxInv, BelowNext, UnlimitedInv, TimelyInv, [Next]_vars
  PROVE  LeavesSettled
<1>1. /\ tx_next \in Nat /\ tx_next_ack \in Nat /\ Count \subseteq Nat
      /\ tx_next_ack \in Count /\ sent \subseteq Nat /\ now \in Nat /\ DiscardTicks \in Nat
      /\ \A d \in Count : HasSn(tx_window, d) => tx_next_ack <= d /\ d < tx_next
  BY CountFacts, BoundAssumption, ConfigAssumption
     DEF TxInv, TypeOK, StTypeOK, CtrlTypeOK, WindowOrdered
<1>2. CASE Keeps
  BY <1>2 DEF Keeps, SameSdus, LeavesSettled
<1>3. CASE Adds
  BY <1>3, AddsFacts DEF LeavesSettled
<1>4. CASE Expires
  <2>1. CASE HasSn(tx_window, tx_next_ack)
    <3>1. /\ now >= discard_timer /\ discard_timer # NoDeadline
          /\ \A c \in Count : HasSn(tx_window, c) /\ ~HasSn(tx_window', c) =>
               tx_window[c].tick = tx_window[tx_next_ack].tick
          /\ tx_window[tx_next_ack].tick \in Nat
      BY <1>4, <2>1, ExpiresFacts
    <3>2. Finite /\ tx_next_ack < tx_next /\ ~stopped
      BY <1>1, <1>4, <2>1, <3>1 DEF Expires, DiscardExpire, UnlimitedInv
    <3>3. discard_timer >= tx_window[tx_next_ack].tick + DiscardTicks
      BY <3>2 DEF TimelyInv
    <3>4. discard_timer \in Int
      BY ConfigAssumption, BoundAssumption DEF TxInv, TypeOK, StTypeOK, NoDeadline
    <3>5. now >= tx_window[tx_next_ack].tick + DiscardTicks
      BY <1>1, <3>1, <3>3, <3>4
    <3> QED
      BY <3>1, <3>2, <3>5 DEF LeavesSettled
  <2>2. CASE ~HasSn(tx_window, tx_next_ack)
    <3>1. UNCHANGED tx_window
      BY <1>4, <2>2 DEF Expires, DiscardExpire
    <3> QED
      BY <3>1 DEF LeavesSettled, HasSn
  <2> QED
    BY <2>1, <2>2
<1>5. CASE Restarts
  <2>1. tx_next' = 0 \/ tx_next = 0
    BY <1>5 DEF Restarts
  <2>2. tx_next = 0 => \A c \in Count : ~HasSn(tx_window, c)
    BY <1>1
  <2> QED
    BY <2>1, <2>2 DEF LeavesSettled
<1>6. CASE Stops
  BY <1>6 DEF Stops, LeavesSettled
<1>7. ASSUME NEW c \in Notifiable, Settles(c) PROVE LeavesSettled
  <2>1. c \in Nat /\ acked' = acked \cup (0 .. c)
    BY <1>7, SettlesFacts DEF Settles
  <2>2. CASE StopIgnored(c)
    <3>1. UNCHANGED tx_window
      BY <1>7, <2>2, SettlesFacts
    <3> QED
      BY <3>1 DEF LeavesSettled, HasSn
  <2>3. CASE ~StopIgnored(c)
    <3>1. tx_window' = RemoveAll(tx_window, tx_next_ack .. c)
      BY <1>7, <2>3, SettlesFacts
    <3>2. \A d \in Count : HasSn(tx_window, d) /\ ~HasSn(tx_window', d) =>
            d \in tx_next_ack .. c
      BY <3>1 DEF RemoveAll, HasSn
    <3>3. tx_next_ack .. c \subseteq acked'
      BY <1>1, <2>1
    <3> QED
      BY <3>2, <3>3 DEF LeavesSettled
  <2> QED
    BY <2>2, <2>3
<1>8. ASSUME NEW fmc \in Reportable, NEW bitmap \in SUBSET {c \in sent : c > fmc},
             Reports(fmc, bitmap)
      PROVE  LeavesSettled
  <2> DEFINE S == {d \in Count : d < fmc} \cup bitmap
  <2>1. /\ DiscardPdus(S) /\ UNCHANGED <<tx_next, now>>
        /\ acked' = acked \cup (0 .. (fmc - 1)) \cup bitmap
    BY <1>8 DEF Reports
  <2>2. fmc \in Nat
    BY <1>1 DEF Reportable
  <2>3. S \subseteq acked'
    <3>1. \A d \in Nat : d < fmc => d \in 0 .. (fmc - 1)
      BY <2>2
    <3>2. {d \in Count : d < fmc} \subseteq 0 .. (fmc - 1)
      BY <1>1, <3>1
    <3> QED
      BY <2>1, <3>2
  <2> HIDE DEF S
  <2>4. \A d \in Count : HasSn(tx_window, d) /\ ~HasSn(tx_window', d) => d \in S
    BY <2>1, DiscardFacts
  <2> QED
    BY <2>3, <2>4 DEF LeavesSettled
<1> QED
  BY <1>2, <1>3, <1>4, <1>5, <1>6, <1>7, <1>8, KindsOfSteps

\* No SDU is dropped before it is confirmed or its discard time has passed
\* (pdcp_entity_tx.cpp:952), in the bearers whose timer follows their SDUs.
THEOREM KeptLongEnough ==
  ASSUME TimerFollows
  PROVE  Spec => KeptUntilSettled
<1> DEFINE I == TxInv /\ BelowNext /\ EdgeInv
           J == UnlimitedInv /\ ModifyInv /\ TimelyInv
<1>1. Init => J
  BY DEF Init, UnlimitedInv, ModifyInv, TimelyInv
<1>2. I /\ J /\ [Next]_vars => J'
  BY UnlimitedStep, ModifyStep, TimelyStep DEF TxInv
<1>3. I /\ J /\ [Next]_vars => [LeavesSettled]_vars
  BY LeavesStep
<1>4. Spec => []I
  BY EdgeInvariant
<1> HIDE DEF I, J
<1>5. Spec => [][LeavesSettled]_vars
  BY <1>1, <1>2, <1>3, <1>4, PTL DEF Spec
<1> QED
  BY <1>5 DEF KeptUntilSettled, LeavesSettled

=============================================================================
