------------------------------- MODULE PdcpRx -------------------------------
(***************************************************************************)
(* The receiving PDCP entity (lib/pdcp/pdcp_entity_rx.cpp) together with   *)
(* the callers that reconfigure it: the CU-UP bearer context modification  *)
(* routine for DRBs, the RRC re-establishment for SRBs, and the two ways   *)
(* in which a bearer is destroyed.                                         *)
(*                                                                         *)
(* A received PDU takes three steps, on two kinds of threads:              *)
(*   handle_pdu        on the UE strand: estimate the COUNT, take a crypto *)
(*                     token, queue the PDU for the crypto workers;        *)
(*   apply_security    on a crypto worker, in any order and in parallel;   *)
(*   apply_reordering  on the UE strand again: store, deliver, t-Reordering*)
(* The strand runs one action at a time; the crypto workers run between    *)
(* any two of them.  Header compression is not configured.                 *)
(***************************************************************************)
EXTENDS Integers, Sequences, FiniteSets, SduWindow, PdcpTokens

CONSTANTS
  MaxCountNotify,    \* cfg.custom.max_count.notify
  MaxCountHard,      \* cfg.custom.max_count.hard
  RbType,            \* "srb" or "drb"
  RlcMode,           \* "um" or "am"
  TReordering,       \* "ms0", "finite" or "infinity"
  IntegrityEnabled,  \* is integrity protection on
  CryptoSlots,       \* the tasks the crypto executor can hold
  UeQueueSize,       \* capacity of the UE executor's queue
  PduBufferSize,     \* capacity of pdu_buffer
  PeerCounts,        \* bound: the COUNTs of the PDUs the peer sends
  PeerInWindow,      \* does the peer keep to PDUs within the window
  MaxKey,            \* bound: number of keys ever installed
  MaySuspend,        \* does the CU-CP suspend and resume the bearer
  Removals           \* how the bearer may be destroyed

Pdu     == [count : PeerCounts, key : 1 .. MaxKey]
Verdict == {"success", "failure"}

\* The COUNTs that are processed, and the tasks that carry one.
Accepted   == {c \in Count : c < MaxCountHard}
CryptoTask == [count : Accepted, pdu : Pdu]
UeTask     == [verdict : Verdict, count : Accepted, pdu : Pdu]

ASSUME MaxCountAssumption ==
  /\ MaxCountNotify \in Nat /\ MaxCountHard \in Nat
  /\ MaxCountHard < HfnMod * SnMod
ASSUME ConfigAssumption ==
  /\ RbType \in {"srb", "drb"} /\ RlcMode \in {"um", "am"}
  /\ TReordering \in {"ms0", "finite", "infinity"}
  /\ IntegrityEnabled \in BOOLEAN /\ PeerInWindow \in BOOLEAN
  /\ MaySuspend \in BOOLEAN
  /\ Removals \subseteq {"ue_release", "session_removal"}
ASSUME BoundAssumption ==
  /\ PeerCounts \subseteq Count
  /\ UeQueueSize \in Nat /\ PduBufferSize \in Nat /\ MaxKey \in Nat \ {0}
  /\ IsFiniteSet(CryptoSlots)
ASSUME NoneAssumption == None \notin Pdu \cup CryptoTask

VARIABLES
  rx_next, rx_deliv, rx_reord,   \* st
  rx_window,         \* COUNT -> the stored SDU, or None
  reordering_timer,  \* is t-Reordering running
  crypto,            \* crypto slot -> the task it holds, or None
  ue_queue,          \* tasks posted back to the UE executor, in order
  max_count_notified, max_count_overflow,
  buffering, pdu_buffer,
  suspended, resume_requested, stopped, destroyed,
  key,               \* the key in the security engines
  routine,           \* what the modification routine does next
  delivered,         \* COUNT -> the SDUs handed up under it, in order
  rrc_notified       \* was RRC told of the maximum COUNT under this key

st       == <<rx_next, rx_deliv, rx_reord>>
rxVars   == <<st, rx_window, reordering_timer>>
flight   == <<crypto, ue_queue>>
maxVars  == <<max_count_notified, max_count_overflow, rrc_notified>>
bufVars  == <<buffering, pdu_buffer>>
ctrlVars == <<suspended, resume_requested, stopped, destroyed, key, routine>>
vars == <<rxVars, flight, mngrVars, maxVars, bufVars, ctrlVars, delivered>>

-----------------------------------------------------------------------------
(* The COUNT of a received PDU.                                           *)

RcvdCount_AheadTooSoon(deliv, sn) ==
  COUNT(IF sn <= SN(deliv) - Window THEN HFN(deliv) + 1
        ELSE IF sn >= SN(deliv) + Window THEN HFN(deliv) - 1
        ELSE HFN(deliv),
        sn)
RcvdCount_BehindTooLate(deliv, sn) ==
  COUNT(IF sn < SN(deliv) - Window THEN HFN(deliv) + 1
        ELSE IF sn > SN(deliv) + Window THEN HFN(deliv) - 1
        ELSE HFN(deliv),
        sn)

\* The COUNT that the receiver gives to a PDU, of which it sees only the SN.
RcvdCount(deliv, sn) ==
  COUNT(IF sn < SN(deliv) - Window THEN HFN(deliv) + 1
        ELSE IF sn >= SN(deliv) + Window THEN HFN(deliv) - 1
        ELSE HFN(deliv),
        sn)

-----------------------------------------------------------------------------
(* Deliveries.                                                             *)

NothingDelivered == [c \in Count |-> <<>>]

Deliver_FirstRunOnly(w, S) ==
  delivered' = [c \in Count |->
                 IF c \in S /\ \A d \in S : d <= c => HasSn(w, d)
                 THEN Append(delivered[c], w[c]) ELSE delivered[c]]

\* The SDUs with COUNT in S that are stored in w go up, in ascending order.
Deliver(w, S) ==
  delivered' = [c \in Count |-> IF c \in S /\ HasSn(w, c)
                                THEN Append(delivered[c], w[c])
                                ELSE delivered[c]]

DeliverUpTo_DelivNotMoved(w, to) ==
  /\ rx_deliv' = rx_deliv
  /\ Deliver(w, rx_deliv .. (to - 1))
  /\ rx_window' = RemoveAll(w, rx_deliv .. (to - 1))

\* Everything stored below to goes up, and RX_DELIV goes to to.
DeliverUpTo(w, to) ==
  /\ rx_deliv' = to
  /\ Deliver(w, rx_deliv .. (to - 1))
  /\ rx_window' = RemoveAll(w, rx_deliv .. (to - 1))

ConsecutiveUpTo_OneOnly(w, deliv, next, to) ==
  to = IF deliv # next /\ HasSn(w, deliv) THEN deliv + 1 ELSE deliv

\* deliver_all_consecutive_counts stops at to: at the first missing COUNT
\* from deliv on, or at next.
ConsecutiveUpTo(w, deliv, next, to) ==
  /\ \A c \in deliv .. (to - 1) : HasSn(w, c)
  /\ to = next \/ ~HasSn(w, to)

-----------------------------------------------------------------------------
(* The executors.                                                          *)

IsSrb == RbType = "srb"
IsUm  == RlcMode = "um"

NothingInFlight == ue_queue = <<>> /\ \A s \in CryptoSlots : crypto[s] = None

\* The strand is not inside the modification routine, which holds it except
\* while it awaits the crypto tasks.
Awaiting   == {"suspend", "rekey", "resume"}
StrandFree == ~destroyed /\ routine \in {"idle"} \cup Awaiting

\* For SRBs every executor is inline: a PDU is processed to its end before
\* anything else happens on the strand.
StrandIdle == StrandFree /\ (IsSrb => NothingInFlight)

-----------------------------------------------------------------------------
Init ==
  /\ rx_next = 0 /\ rx_deliv = 0 /\ rx_reord = 0
  /\ rx_window = Empty /\ reordering_timer = FALSE
  /\ crypto = [s \in CryptoSlots |-> None] /\ ue_queue = <<>>
  /\ tokens = 0 /\ pending_crypto = FALSE
  /\ max_count_notified = FALSE /\ max_count_overflow = FALSE
  /\ buffering = FALSE /\ pdu_buffer = <<>>
  /\ suspended = FALSE /\ resume_requested = FALSE
  /\ stopped = FALSE /\ destroyed = FALSE
  /\ key = 1 /\ routine = "idle"
  /\ delivered = NothingDelivered /\ rrc_notified = FALSE

-----------------------------------------------------------------------------
(* handle_data_pdu: estimate the COUNT, police it, queue it for crypto.    *)

HandleDataPdu(pdu) ==
  LET count == RcvdCount(rx_deliv, SN(pdu.count))
      free  == {s \in CryptoSlots : crypto[s] = None}
      tell  == count > MaxCountNotify /\ ~max_count_notified
  IN
  /\ max_count_notified' = (max_count_notified \/ tell)
  /\ rrc_notified' = (rrc_notified \/ tell)
  /\ \/ /\ count >= MaxCountHard
        /\ max_count_overflow' = TRUE
        /\ UNCHANGED <<crypto, mngrVars>>
     \/ /\ count < MaxCountHard
        /\ \E s \in free :
             crypto' = [crypto EXCEPT ![s] = [count |-> count, pdu |-> pdu]]
        /\ tokens' = tokens + 1
        /\ UNCHANGED <<pending_crypto, max_count_overflow>>
     \/ /\ count < MaxCountHard
        /\ free = {}                 \* dropped, its token is given back
        /\ pending_crypto' = (pending_crypto \/ tokens + 1 = 0)
        /\ UNCHANGED <<tokens, crypto, max_count_overflow>>

\* The PDUs the lower layers can bring: lost, duplicated and reordered at
\* will, ciphered under this key or under the one before it.
Arriving ==
  {p \in Pdu : IF PeerInWindow
               THEN p.key = key /\ p.count \in rx_deliv - Window .. rx_deliv + Window - 1
               ELSE p.key \in {key - 1, key}}

HandlePdu(pdu) ==
  /\ StrandIdle
  /\ ~stopped
  /\ resume_requested' = (resume_requested \/ suspended)
  /\ \/ /\ buffering
        /\ pdu_buffer' = IF Len(pdu_buffer) < PduBufferSize
                         THEN Append(pdu_buffer, pdu) ELSE pdu_buffer
        /\ UNCHANGED <<crypto, mngrVars, maxVars>>
     \/ /\ ~buffering
        /\ HandleDataPdu(pdu)
        /\ UNCHANGED pdu_buffer
  /\ UNCHANGED <<rxVars, ue_queue, buffering, suspended, stopped,
                 destroyed, key, routine, delivered>>

\* One turn of the loop of end_buffering; the strand does nothing else until
\* the buffer is empty, the crypto workers do.
Flush ==
  /\ ~destroyed /\ routine = "flush"
  /\ \/ /\ pdu_buffer # <<>>
        /\ pdu_buffer' = Tail(pdu_buffer)
        /\ HandleDataPdu(Head(pdu_buffer))
        /\ UNCHANGED routine
     \/ /\ pdu_buffer = <<>>
        /\ routine' = "idle"
        /\ UNCHANGED <<pdu_buffer, crypto, mngrVars, maxVars>>
  /\ UNCHANGED <<rxVars, ue_queue, buffering, suspended, resume_requested,
                 stopped, destroyed, key, delivered>>

-----------------------------------------------------------------------------
(* apply_security, on a crypto worker.                                     *)

\* Deciphering under the wrong COUNT or key goes unnoticed without integrity.
Decipher(task) ==
  IF IntegrityEnabled /\ (task.pdu.count # task.count \/ task.pdu.key # key)
  THEN "failure" ELSE "success"

ApplySecurity(s) ==
  /\ ~destroyed
  /\ crypto[s] # None
  /\ crypto' = [crypto EXCEPT ![s] = None]
  /\ \/ /\ Len(ue_queue) < UeQueueSize
        /\ ue_queue' = Append(ue_queue, [verdict |-> Decipher(crypto[s]),
                                         count   |-> crypto[s].count,
                                         pdu     |-> crypto[s].pdu])
        /\ UNCHANGED mngrVars
     \/ /\ Len(ue_queue) >= UeQueueSize       \* dropped with its token
        /\ ReturnToken
        /\ UNCHANGED ue_queue
  /\ UNCHANGED <<rxVars, maxVars, bufVars, ctrlVars, delivered>>

-----------------------------------------------------------------------------
(* apply_reordering and the tasks that report a security failure.          *)

TakeUeTask(verdict) ==
  /\ StrandFree
  /\ ue_queue # <<>> /\ Head(ue_queue).verdict = verdict
  /\ ue_queue' = Tail(ue_queue)
  /\ ReturnToken
  /\ UNCHANGED <<crypto, maxVars, bufVars, ctrlVars>>

SecurityFailure ==
  /\ TakeUeTask("failure")
  /\ UNCHANGED <<rxVars, delivered>>

\* Late, a duplicate, or a COUNT that wrapped around.
RcvdBefore(count) == count < rx_deliv \/ HasSn(rx_window, count)

DropPdu ==
  /\ TakeUeTask("success")
  /\ RcvdBefore(Head(ue_queue).count)
  /\ UNCHANGED <<rxVars, delivered>>

\* Where RX_DELIV goes once count is stored in w.
NewDeliv(w, count, next, to) ==
  IF TReordering = "ms0" THEN to = next
  ELSE IF count = rx_deliv THEN ConsecutiveUpTo(w, rx_deliv, next, to)
  ELSE to = rx_deliv

HandleReorderingTimers_StartFirst(next, to) ==
  LET start == TReordering = "finite" /\ ~reordering_timer /\ to < next
  IN /\ reordering_timer' = (start \/ (reordering_timer /\ to < rx_reord))
     /\ rx_reord' = IF start \/ TReordering = "ms0" THEN next ELSE rx_reord
HandleReorderingTimers_NeverStarted(next, to) ==
  LET start == TReordering = "finite" /\ reordering_timer /\ to < next
  IN /\ reordering_timer' = (reordering_timer /\ to < rx_reord)
     /\ rx_reord' = IF start \/ TReordering = "ms0" THEN next ELSE rx_reord

\* Stop t-Reordering when what it waited for was delivered, and start it if
\* there still is, or now is, a gap.
HandleReorderingTimers(next, to) ==
  LET running == reordering_timer /\ to < rx_reord
      start   == TReordering = "finite" /\ ~running /\ to < next
  IN /\ reordering_timer' = (running \/ start)
     /\ rx_reord' = IF start \/ TReordering = "ms0" THEN next ELSE rx_reord

StorePdu ==
  /\ TakeUeTask("success")
  /\ LET count == Head(ue_queue).count
         w     == AddSn(rx_window, count, Head(ue_queue).pdu)
         next  == IF count >= rx_next THEN count + 1 ELSE rx_next
     IN
     /\ ~RcvdBefore(count)
     /\ rx_next' = next
     /\ \E to \in rx_deliv .. next :
          /\ NewDeliv(w, count, next, to)
          /\ DeliverUpTo(w, to)
          /\ HandleReorderingTimers(next, to)

-----------------------------------------------------------------------------
(* handle_t_reordering_expire.                                             *)

ReorderingExpire ==
  /\ StrandIdle
  /\ reordering_timer
  /\ \/ /\ stopped                            \* the callback does nothing
        /\ reordering_timer' = FALSE
        /\ UNCHANGED <<st, rx_window, delivered>>
     \/ /\ ~stopped
        /\ \E to \in rx_reord .. rx_next :
             /\ ConsecutiveUpTo(rx_window, rx_reord, rx_next, to)
             /\ DeliverUpTo(rx_window, to)
             /\ reordering_timer' = (to < rx_next)
             /\ rx_reord' = IF to < rx_next THEN rx_next ELSE rx_reord
        /\ UNCHANGED rx_next
  /\ UNCHANGED <<flight, mngrVars, maxVars, bufVars, ctrlVars>>

-----------------------------------------------------------------------------
(* The callers on the control side.                                        *)

BeginBuffering_Lost == UNCHANGED buffering
BeginBuffering      == buffering' = TRUE

\* First half of the modification routine: buffer, give back the manager's
\* own token and await the event that the last token sets.
BeginRoutine(kind) ==
  /\ StrandIdle /\ ~stopped /\ ~IsSrb /\ routine = "idle"
  /\ \/ kind = "suspend" /\ MaySuspend /\ ~suspended
     \/ kind = "rekey" /\ ~suspended /\ key < MaxKey
     \/ kind = "resume" /\ suspended /\ key < MaxKey
  /\ suspended' = (suspended /\ kind # "resume")
  /\ resume_requested' = (resume_requested /\ kind # "resume")
  /\ routine' = kind
  /\ BeginBuffering
  /\ ReturnToken
  /\ UNCHANGED <<rxVars, flight, maxVars, pdu_buffer, stopped, destroyed,
                 key, delivered>>

\* What is stored goes up or is discarded, and the entity starts again at 0.
ResetState ==
  /\ reordering_timer' = FALSE
  /\ rx_window' = RemoveAll(rx_window, rx_deliv .. (rx_next - 1))
  /\ rx_next' = 0 /\ rx_deliv' = 0 /\ rx_reord' = 0

\* Second half, suspend.
Suspend ==
  /\ StrandFree /\ routine = "suspend" /\ Drained
  /\ Deliver(rx_window, rx_deliv .. (rx_next - 1))
  /\ ResetState
  /\ suspended' = TRUE /\ routine' = "idle"
  /\ StartTokens
  /\ UNCHANGED <<flight, maxVars, bufVars, resume_requested, stopped,
                 destroyed, key>>

\* Second half, new keys: replace them and let tokens be taken again.
Rekey ==
  /\ StrandFree /\ routine \in {"rekey", "resume"} /\ Drained
  /\ key' = key + 1 /\ rrc_notified' = FALSE
  /\ StartTokens
  /\ routine' = "modify"
  /\ UNCHANGED <<rxVars, flight, max_count_notified, max_count_overflow,
                 bufVars, suspended, resume_requested, stopped, destroyed,
                 delivered>>

\* reestablish() of a DRB: UM delivers what is stored, AM keeps it.
Reestablish ==
  \/ /\ IsUm
     /\ Deliver(rx_window, rx_deliv .. (rx_next - 1))
     /\ ResetState
  \/ /\ ~IsUm
     /\ UNCHANGED <<rxVars, delivered>>

\* set_count(), on a bearer created to take over from another one.
SetCount(c) ==
  /\ rx_next = 0 /\ delivered = NothingDelivered
  /\ rx_next' = c /\ rx_deliv' = c /\ rx_reord' = c
  /\ UNCHANGED <<rx_window, reordering_timer, delivered>>

\* The CU-CP has the bearer re-established, its COUNT set, or neither.
ModifyBearer ==
  /\ ~destroyed /\ routine = "modify"
  /\ \/ Reestablish
     \/ \E c \in PeerCounts : SetCount(c)
     \/ UNCHANGED <<rxVars, delivered>>
  /\ routine' = "end_buffering"
  /\ UNCHANGED <<flight, mngrVars, maxVars, bufVars, suspended,
                 resume_requested, stopped, destroyed, key>>

\* end_buffering().  With a new key and the COUNT back at zero, the history of
\* deliveries starts again.
EndBuffering ==
  /\ ~destroyed /\ routine = "end_buffering"
  /\ buffering' = FALSE /\ routine' = "flush"
  /\ delivered' = IF rx_next = 0 THEN NothingDelivered ELSE delivered
  /\ UNCHANGED <<rxVars, flight, mngrVars, maxVars, pdu_buffer, suspended,
                 resume_requested, stopped, destroyed, key>>

\* reestablish() of an SRB, called by RRC between two PDUs: what is stored is
\* discarded.
ReestablishSrb ==
  /\ StrandIdle /\ IsSrb /\ ~stopped /\ key < MaxKey
  /\ key' = key + 1 /\ rrc_notified' = FALSE
  /\ ResetState
  /\ delivered' = NothingDelivered
  /\ UNCHANGED <<flight, mngrVars, max_count_notified, max_count_overflow,
                 bufVars, suspended, resume_requested, stopped, destroyed,
                 routine>>

\* stop().
Stop ==
  /\ stopped' = TRUE
  /\ reordering_timer' = FALSE
  /\ ReturnToken
  /\ UNCHANGED <<st, rx_window, flight, maxVars, bufVars, suspended,
                 resume_requested, key, routine, delivered>>

\* The release of the UE stops the bearer and destroys it once it has drained.
StopForRelease ==
  /\ StrandIdle /\ ~stopped /\ routine = "idle" /\ "ue_release" \in Removals
  /\ Stop
  /\ UNCHANGED destroyed

Destroy ==
  /\ StrandIdle /\ stopped /\ Drained
  /\ destroyed' = TRUE
  /\ UNCHANGED <<rxVars, flight, mngrVars, maxVars, bufVars, suspended,
                 resume_requested, stopped, key, routine, delivered>>

\* The removal of a PDU session stops the bearer and erases it at once.
RemoveSession ==
  /\ StrandIdle /\ ~stopped /\ routine = "idle" /\ ~IsSrb
  /\ "session_removal" \in Removals
  /\ Stop
  /\ destroyed' = TRUE

-----------------------------------------------------------------------------
Next ==
  \/ \E pdu \in Arriving : HandlePdu(pdu)
  \/ Flush
  \/ \E s \in CryptoSlots : ApplySecurity(s)
  \/ SecurityFailure
  \/ DropPdu
  \/ StorePdu
  \/ ReorderingExpire
  \/ \E kind \in {"suspend", "rekey", "resume"} : BeginRoutine(kind)
  \/ Suspend
  \/ Rekey
  \/ ModifyBearer
  \/ EndBuffering
  \/ ReestablishSrb
  \/ StopForRelease
  \/ Destroy
  \/ RemoveSession

\* The executors run what is posted to them, a running timer expires, and
\* the routine goes on when the event it awaits is set.  Nobody is obliged to
\* send a PDU, nor the CU-CP to start a procedure.
Fairness ==
  /\ \A s \in CryptoSlots : WF_vars(ApplySecurity(s))
  /\ WF_vars(SecurityFailure) /\ WF_vars(DropPdu) /\ WF_vars(StorePdu)
  /\ WF_vars(Flush) /\ WF_vars(ReorderingExpire)
  /\ WF_vars(Suspend) /\ WF_vars(Rekey) /\ WF_vars(ModifyBearer)
  /\ WF_vars(EndBuffering) /\ WF_vars(Destroy)

Spec == Init /\ [][Next]_vars

FairSpec == Spec /\ Fairness

-----------------------------------------------------------------------------
(* Properties.                                                             *)

RxTypeOK ==
  /\ rx_next \in Count /\ rx_deliv \in Count /\ rx_reord \in Count
  /\ rx_window \in [Count -> Pdu \cup {None}]
  /\ reordering_timer \in BOOLEAN
  /\ delivered \in [Count -> Seq(Pdu)]

FlightTypeOK ==
  /\ crypto \in [CryptoSlots -> CryptoTask \cup {None}]
  /\ ue_queue \in Seq(UeTask) /\ Len(ue_queue) <= UeQueueSize

MaxTypeOK ==
  /\ max_count_notified \in BOOLEAN /\ max_count_overflow \in BOOLEAN
  /\ rrc_notified \in BOOLEAN

BufTypeOK ==
  /\ buffering \in BOOLEAN
  /\ pdu_buffer \in Seq(Pdu) /\ Len(pdu_buffer) <= PduBufferSize

CtrlTypeOK ==
  /\ suspended \in BOOLEAN /\ resume_requested \in BOOLEAN
  /\ stopped \in BOOLEAN /\ destroyed \in BOOLEAN
  /\ routine \in {"idle", "modify", "end_buffering", "flush"} \cup Awaiting
  /\ key \in 1 .. MaxKey
  /\ routine \in {"rekey", "resume"} => key + 1 \in 1 .. MaxKey
  /\ IsSrb => routine = "idle"

\* The types of all variables.  No COUNT leaves its 32 bits, and no task
\* carries one that the hard maximum refuses (pdcp_entity_rx.cpp:355).
TypeOK ==
  RxTypeOK /\ FlightTypeOK /\ MngrTypeOK /\ MaxTypeOK /\ BufTypeOK /\ CtrlTypeOK

\* Every stored SDU lies in [RX_DELIV, RX_NEXT), which never outgrows the
\* window: no slot of the circular map is claimed by two COUNTs, so add_sn
\* never evicts an SDU (pdcp_entity_rx.cpp:490), whatever was in flight when
\* the state was reset.
WindowBounded ==
  /\ rx_deliv <= rx_next /\ rx_next <= rx_deliv + Window
  /\ \A c \in Count : HasSn(rx_window, c) => c \in rx_deliv .. (rx_next - 1)

\* RX_DELIV is the first missing COUNT: what the FMC field of a status report
\* says (compile_status_report, pdcp_entity_rx.cpp:624) is missing indeed.
FirstMissing == ~HasSn(rx_window, rx_deliv)

\* While t-Reordering runs, RX_REORD is ahead of RX_DELIV and not beyond
\* RX_NEXT: the loop "while rx_deliv != rx_reord" of the expiry ends.
ReorderingAhead ==
  reordering_timer => rx_deliv < rx_reord /\ rx_reord <= rx_next

\* A gap never waits without the timer that will close it, whichever event
\* opened it (pdcp_entity_rx.cpp:512 and 853).
GapHasTimer ==
  TReordering = "finite" /\ ~stopped /\ rx_deliv < rx_next => reordering_timer

\* With a t-Reordering of 0 ms nothing waits: the error branch of the expiry,
\* "Reordering timer expired after 0ms and rx_deliv < rx_next"
\* (pdcp_entity_rx.cpp:850), is never taken.
NoGapAtZero == TReordering = "ms0" => rx_deliv = rx_next

\* No COUNT is handed up twice under one key: duplicates, late PDUs after an
\* expiry, buffered PDUs and the COUNT reset of suspend included.
NoCountReuse == \A c \in Count : Len(delivered[c]) <= 1

\* With integrity protection an SDU goes up only under the COUNT at which the
\* peer sent it, however far the estimate of its HFN is off.
Authentic ==
  IntegrityEnabled \/ PeerInWindow =>
    \A c \in Count : \A i \in 1 .. Len(delivered[c]) : delivered[c][i].count = c

\* The event that the routines await says that no task of this entity is left
\* on any executor.
DrainedIsQuiescent == pending_crypto => NothingInFlight

\* "Crypto token manager. Used to wait for crypto engine to finish when
\* destroying DRB" (pdcp_entity_rx.h): the entity is destroyed only when no
\* crypto task refers to it any more.
DestroyedWhenDrained == destroyed => NothingInFlight

\* "we notify the RRC once we exceed a maximum notification COUNT"
\* (pdcp_entity_rx.cpp:344), for every key: RRC was told of the key under which
\* a COUNT beyond the threshold is processed.
RrcNotifiedOfMaxCount ==
  \A s \in CryptoSlots :
    crypto[s] # None /\ crypto[s].count > MaxCountNotify => rrc_notified

\* The entity keeps the promise of SduDelivery, which is open except from a
\* suspension or a replacement of the keys to the end of the buffering.
Delivery == INSTANCE SduDelivery WITH
  Count <- Count, Sdu <- Pdu, low <- rx_deliv, handed <- delivered,
  open <- ~suspended /\ routine \notin {"resume", "modify", "end_buffering"}
KeepsDeliveryPromise == Delivery!Spec

\* SDUs are handed up in ascending order of COUNT within one COUNT space.
InOrder ==
  [][\A c \in Count : Len(delivered'[c]) > Len(delivered[c]) =>
        \A d \in Count : delivered[d] # <<>> => d < c]_vars

\* A stored SDU leaves the window only upwards, except on an SRB that is
\* re-established.
NoSilentLoss ==
  [][\A c \in Count :
       HasSn(rx_window, c) /\ ~HasSn(rx_window', c) =>
         \/ IsSrb /\ key' # key
         \/ delivered'[c] = Append(delivered[c], rx_window[c])]_vars

\* The security engines, which the crypto workers read without a lock, are
\* replaced only while no worker uses them and none of their results waits.
KeysReplacedWhenDrained == [][key' # key => NothingInFlight]_vars

\* The entity leaves no SDU in its window for ever.
StoredIsReleased ==
  \A c \in Count : HasSn(rx_window, c) ~> ~HasSn(rx_window, c) \/ stopped

\* A reconfiguration that began comes to its end: the tokens come back
\* whichever way a PDU ends, and the buffer is flushed.
RoutineCompletes == routine # "idle" ~> routine = "idle"

\* The release of the UE gets to the destruction of a stopped entity.
StoppedIsDestroyed == stopped ~> destroyed

=============================================================================
