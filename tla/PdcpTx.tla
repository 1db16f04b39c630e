------------------------------- MODULE PdcpTx -------------------------------
(***************************************************************************)
(* The transmitting PDCP entity of a DRB (lib/pdcp/pdcp_entity_tx.cpp),    *)
(* with a discard timer configured, together with its surroundings: the    *)
(* lower layers that notify it (F1-U, RLC), the peer's status reports, and *)
(* the CU-UP procedures that reconfigure it.                               *)
(*                                                                         *)
(* An SDU takes three steps, on two kinds of threads:                      *)
(*   handle_sdu        on the UE strand: give it a COUNT, put it into the  *)
(*                     window, queue it for the crypto workers;            *)
(*   apply_security    on a crypto worker, in any order and in parallel;   *)
(*   apply_reordering  on the strand again: store the PDU in the window,   *)
(*                     and submit to lower layers what is in sequence.     *)
(* Header compression is not configured.  An SDU dropped because the lower *)
(* layers have no room (desired buffer size) leaves no trace in the state. *)
(***************************************************************************)
EXTENDS Integers, Sequences, FiniteSets, SduWindow, PdcpTokens

CONSTANTS
  MaxCountNotify,    \* cfg.custom.max_count.notify
  MaxCountHard,      \* cfg.custom.max_count.hard
  RlcMode,           \* "um" or "am"
  DiscardTicks,      \* the discard timer, or 0 for infinity
  MaxTick,           \* bound: the clock stops here
  CryptoSlots,       \* the tasks the crypto executor can hold
  UeQueueSize,       \* capacity of the UE executor's queue
  SduBufferSize,     \* capacity of sdu_buffer
  CryptoFails,       \* may a crypto worker fail on a PDU
  StatusReports,     \* does the peer send status reports
  MaxRetransmit,     \* bound: retransmissions of the whole window
  DataRecoveries,    \* may data_recovery() be called
  StartCounts,       \* bound: the COUNTs that set_count() may set
  MaxKey,            \* bound: number of keys ever installed
  MaySuspend,        \* does the CU-CP suspend and resume the bearer
  MayRelease         \* does the CU-CP release the UE

NoPdu      == 0
NoDeadline == -1

\* What the window holds for an SDU: when it arrived, and the protected PDU
\* while it waits for those before it, known by the key that protected it.
Element    == [tick : 0 .. MaxTick, pdu : 0 .. MaxKey]
CryptoTask == [count : Count, retx_id : 0 .. MaxRetransmit]
UeTask     == [verdict : {"success", "failure"}, count : Count,
               retx_id : 0 .. MaxRetransmit, key : 1 .. MaxKey]

ASSUME MaxCountAssumption ==
  /\ MaxCountNotify \in Nat /\ MaxCountHard \in Nat
  /\ MaxCountHard < HfnMod * SnMod
ASSUME ConfigAssumption ==
  /\ RlcMode \in {"um", "am"} /\ DiscardTicks \in Nat
  /\ \A b \in {CryptoFails, StatusReports, DataRecoveries, MaySuspend, MayRelease} :
       b \in BOOLEAN
ASSUME BoundAssumption ==
  /\ MaxTick \in Nat /\ UeQueueSize \in Nat /\ SduBufferSize \in Nat
  /\ StartCounts \subseteq Count
  /\ MaxRetransmit \in Nat /\ MaxKey \in Nat \ {0}
  /\ IsFiniteSet(CryptoSlots)
ASSUME NoneAssumption == None \notin Element \cup CryptoTask

VARIABLES
  tx_next, tx_trans_crypto, tx_reord_crypto, tx_trans, tx_next_ack,   \* st
  tx_window,         \* COUNT -> what is kept of the SDU, or None
  discard_timer,     \* the tick at which it expires, or NoDeadline
  crypto_reordering_timer,   \* is it running
  now,               \* the tick of the timer manager
  retransmit_id,
  crypto,            \* crypto slot -> the task it holds, or None
  ue_queue,          \* tasks posted back to the UE executor, in order
  max_count_notified, max_count_overflow,
  buffering, sdu_buffer,     \* is it buffering, and how many SDUs
  suspended, resume_requested, stopped, destroyed,
  key,               \* the key in the security engines
  routine,           \* what the strand is in the middle of
  to_retransmit,     \* the loop variable of retransmit_all_pdus
  failure,           \* the assertion that ended the program
  sent,              \* the COUNTs submitted to lower layers
  acked,             \* the COUNTs that lower layers or the peer confirmed
  used               \* the COUNTs given to SDUs under this key

st         == <<tx_next, tx_trans_crypto, tx_reord_crypto, tx_trans, tx_next_ack>>
cryptoSt   == <<tx_trans_crypto, tx_reord_crypto, crypto_reordering_timer>>
windowVars == <<tx_trans, tx_next_ack, tx_window, discard_timer>>
flight     == <<crypto, ue_queue>>
maxVars    == <<max_count_notified, max_count_overflow>>
bufVars    == <<buffering, sdu_buffer>>
lifeVars   == <<stopped, destroyed>>
ctrlVars   == <<suspended, resume_requested, key, routine, to_retransmit>>
vars == <<tx_next, cryptoSt, windowVars, now, retransmit_id, flight, mngrVars,
          maxVars, bufVars, lifeVars, ctrlVars, failure, sent, acked, used>>

-----------------------------------------------------------------------------
(* Helpers.                                                                *)

IsAm   == RlcMode = "am"
Finite == DiscardTicks > 0

HasPdu(w, c) == HasSn(w, c) /\ w[c].pdu # NoPdu

\* The PDUs of S go down to lower layers; their SDUs stay in the window.
Submitted(w, S) ==
  [c \in Count |-> IF c \in S /\ HasPdu(w, c) THEN [w[c] EXCEPT !.pdu = NoPdu]
                   ELSE w[c]]
PdusIn(w, S) == {c \in S : HasPdu(w, c)}

\* The loop "count < tx_next && not tx_window[count].pdu.empty()", which
\* begins at from, ends at to.
InSequenceUpTo(w, from, to) ==
  /\ from <= to
  /\ \A c \in from .. (to - 1) : c < tx_next /\ HasPdu(w, c)
  /\ to >= tx_next \/ ~HasPdu(w, to)

\* ... by reading an element that is not there.
ReadsAbsent(w, to) == to < tx_next /\ ~HasSn(w, to)

\* The first COUNT at or above from that is still stored, else TX_NEXT.
OldestFrom(w, from, to) ==
  /\ from <= to /\ to <= tx_next
  /\ \A c \in from .. (to - 1) : ~HasSn(w, c)
  /\ to = tx_next \/ HasSn(w, to)

Later(a, b) == IF a < b THEN b ELSE a

NotifiedCount_NoWrap(lower, sn) ==
  COUNT(IF sn >= SN(lower) + Window THEN HFN(lower) - 1 ELSE HFN(lower), sn)
\* notification_count_estimation: lower layers report SNs.
NotifiedCount(lower, sn) ==
  COUNT(IF sn < SN(lower) - Window THEN HFN(lower) + 1
        ELSE IF sn >= SN(lower) + Window THEN HFN(lower) - 1
        ELSE HFN(lower),
        sn)

-----------------------------------------------------------------------------
(* The executors.                                                          *)

NothingInFlight == ue_queue = <<>> /\ \A s \in CryptoSlots : crypto[s] = None

Alive    == failure = "none" /\ ~destroyed
Awaiting == {"suspend", "rekey", "resume"}

\* The strand takes a new task unless it is inside a loop or a routine, which
\* holds it except while it awaits the crypto tasks.
StrandFree == Alive /\ routine \in {"idle"} \cup Awaiting

\* An assertion of the code fails, and the program ends.
Fail(assertion) ==
  /\ failure' = assertion
  /\ UNCHANGED <<tx_next, cryptoSt, windowVars, now, retransmit_id, flight,
                 mngrVars, maxVars, bufVars, lifeVars, ctrlVars, sent, acked, used>>

Init ==
  /\ tx_next = 0 /\ tx_trans_crypto = 0 /\ tx_reord_crypto = 0
  /\ tx_trans = 0 /\ tx_next_ack = 0
  /\ tx_window = Empty /\ discard_timer = NoDeadline
  /\ crypto_reordering_timer = FALSE /\ now = 0 /\ retransmit_id = 0
  /\ crypto = [s \in CryptoSlots |-> None] /\ ue_queue = <<>>
  /\ tokens = 0 /\ pending_crypto = FALSE
  /\ max_count_notified = FALSE /\ max_count_overflow = FALSE
  /\ buffering = FALSE /\ sdu_buffer = 0
  /\ suspended = FALSE /\ resume_requested = FALSE
  /\ stopped = FALSE /\ destroyed = FALSE
  /\ key = 1 /\ routine = "idle" /\ to_retransmit = 0
  /\ failure = "none" /\ sent = {} /\ acked = {} /\ used = {}

-----------------------------------------------------------------------------
(* handle_sdu.                                                             *)

QueueForCrypto_NoToken(task) ==
  LET free == {s \in CryptoSlots : crypto[s] = None} IN
  /\ UNCHANGED mngrVars
  /\ \/ \E s \in free : crypto' = [crypto EXCEPT ![s] = task]
     \/ free = {} /\ UNCHANGED crypto

\* A PDU and its token go to the crypto workers, or are dropped at once when
\* their executor is full.
QueueForCrypto(task) ==
  LET free == {s \in CryptoSlots : crypto[s] = None} IN
  \/ /\ \E s \in free : crypto' = [crypto EXCEPT ![s] = task]
     /\ tokens' = tokens + 1
     /\ UNCHANGED pending_crypto
  \/ /\ free = {}
     /\ pending_crypto' = (pending_crypto \/ tokens + 1 = 0)
     /\ UNCHANGED <<tokens, crypto>>

WindowFull_AtWindow == tx_next - tx_next_ack >= Window + 1
\* check_early_drop: the peer must be able to tell the COUNTs in the window
\* apart.
WindowFull == tx_next - tx_next_ack >= Window - 1

\* One timer serves all SDUs: it runs for the oldest one.
StartDiscardTimer ==
  discard_timer' = IF Finite /\ discard_timer = NoDeadline
                   THEN now + DiscardTicks ELSE discard_timer

BufferFull == sdu_buffer >= SduBufferSize

\* The SDU gets the next COUNT, unless it is refused.
TransmitSdu ==
  \/ /\ WindowFull \/ tx_next >= MaxCountHard
     /\ max_count_overflow' = (max_count_overflow \/ ~WindowFull)
     /\ UNCHANGED <<tx_next, tx_window, discard_timer, max_count_notified,
                    crypto, mngrVars, used>>
  \/ /\ ~WindowFull /\ tx_next < MaxCountHard
     /\ max_count_notified' = (max_count_notified \/ tx_next >= MaxCountNotify)
     /\ StartDiscardTimer
     /\ tx_window' = AddSn(tx_window, tx_next, [tick |-> now, pdu |-> NoPdu])
     /\ tx_next' = tx_next + 1
     /\ used' = used \cup {tx_next}
     /\ QueueForCrypto([count |-> tx_next, retx_id |-> retransmit_id])
     /\ UNCHANGED max_count_overflow

HandleSdu ==
  /\ StrandFree /\ ~stopped
  /\ resume_requested' = (resume_requested \/ suspended)
  /\ \/ /\ buffering
        /\ sdu_buffer' = IF BufferFull THEN sdu_buffer ELSE sdu_buffer + 1
        /\ UNCHANGED <<tx_next, tx_window, discard_timer, crypto, mngrVars,
                       maxVars, used>>
     \/ /\ ~buffering
        /\ TransmitSdu
        /\ UNCHANGED sdu_buffer
  /\ UNCHANGED <<cryptoSt, tx_trans, tx_next_ack, now, retransmit_id, ue_queue,
                 buffering, lifeVars, suspended, key, routine, to_retransmit,
                 failure, sent, acked>>

\* One turn of the loop of end_buffering.
Flush ==
  /\ Alive /\ routine = "flush"
  /\ \/ /\ sdu_buffer > 0
        /\ sdu_buffer' = sdu_buffer - 1
        /\ TransmitSdu
        /\ UNCHANGED routine
     \/ /\ sdu_buffer = 0
        /\ routine' = "idle"
        /\ UNCHANGED <<sdu_buffer, tx_next, tx_window, discard_timer, crypto,
                       mngrVars, maxVars, used>>
  /\ UNCHANGED <<cryptoSt, tx_trans, tx_next_ack, now, retransmit_id, ue_queue,
                 buffering, lifeVars, suspended, resume_requested, key,
                 to_retransmit, failure, sent, acked>>

-----------------------------------------------------------------------------
(* apply_security, on a crypto worker.                                     *)

ApplySecurity(s) ==
  /\ Alive /\ crypto[s] # None
  /\ crypto' = [crypto EXCEPT ![s] = None]
  /\ \/ /\ Len(ue_queue) < UeQueueSize
        /\ \E v \in {"success"} \cup (IF CryptoFails THEN {"failure"} ELSE {}) :
             ue_queue' = Append(ue_queue, [verdict |-> v,
                                           count   |-> crypto[s].count,
                                           retx_id |-> crypto[s].retx_id,
                                           key     |-> key])
        /\ UNCHANGED mngrVars
     \/ /\ Len(ue_queue) >= UeQueueSize       \* dropped with its token
        /\ ReturnToken
        /\ UNCHANGED ue_queue
  /\ UNCHANGED <<tx_next, cryptoSt, windowVars, now, retransmit_id, maxVars,
                 bufVars, lifeVars, ctrlVars, failure, sent, acked, used>>

-----------------------------------------------------------------------------
(* apply_reordering.                                                       *)

TakeUeTask(verdict) ==
  /\ StrandFree
  /\ ue_queue # <<>> /\ Head(ue_queue).verdict = verdict
  /\ ue_queue' = Tail(ue_queue)
  /\ ReturnToken
  /\ UNCHANGED <<tx_next, tx_trans, tx_next_ack, discard_timer, now,
                 retransmit_id, crypto, maxVars, bufVars, lifeVars, ctrlVars,
                 failure, acked, used>>

SecurityFailure ==
  /\ TakeUeTask("failure")
  /\ UNCHANGED <<cryptoSt, tx_window, sent>>

\* Stopped, overtaken by a retransmission, or its SDU is gone.
Outdated(task) ==
  \/ stopped
  \/ task.retx_id # retransmit_id
  \/ task.count < tx_next_ack
  \/ task.count < tx_trans
  \/ ~HasSn(tx_window, task.count)

DropPdu ==
  /\ TakeUeTask("success")
  /\ Outdated(Head(ue_queue))
  /\ UNCHANGED <<cryptoSt, tx_window, sent>>

HandleCryptoTimer_NotRestarted(to) ==
  /\ crypto_reordering_timer' =
       ((crypto_reordering_timer /\ to < tx_reord_crypto)
        \/ (~crypto_reordering_timer /\ to < tx_next))
  /\ tx_reord_crypto' = IF ~crypto_reordering_timer /\ to < tx_next
                        THEN tx_next ELSE tx_reord_crypto

\* The timer stops when what it waited for was submitted, and starts if there
\* still is, or now is, a gap.
HandleCryptoTimer(to) ==
  LET running == crypto_reordering_timer /\ to < tx_reord_crypto
      start   == ~running /\ to < tx_next
  IN /\ crypto_reordering_timer' = (running \/ start)
     /\ tx_reord_crypto' = IF start THEN tx_next ELSE tx_reord_crypto

\* The PDU joins the window, and what is in sequence goes down.
StorePdu ==
  /\ ue_queue # <<>> /\ Head(ue_queue).verdict = "success"
  /\ LET task == Head(ue_queue)
         w    == [tx_window EXCEPT ![task.count].pdu = task.key]
     IN
     /\ ~Outdated(task)
     /\ \E to \in Count :
          /\ InSequenceUpTo(w, tx_trans_crypto, to)
          /\ \/ /\ ReadsAbsent(w, to)
                /\ StrandFree /\ Fail("absent_element")
             \/ /\ ~ReadsAbsent(w, to)
                /\ TakeUeTask("success")
                /\ tx_trans_crypto' = to
                /\ tx_window' = Submitted(w, tx_trans_crypto .. (to - 1))
                /\ sent' = sent \cup (tx_trans_crypto .. (to - 1))
                /\ HandleCryptoTimer(to)

-----------------------------------------------------------------------------
(* crypto_reordering_timeout.                                              *)

\* From TX_TRANS_CRYPTO to TX_REORD_CRYPTO, by increments of 32-bit numbers.
GivenUp ==
  IF tx_trans_crypto <= tx_reord_crypto
  THEN tx_trans_crypto .. (tx_reord_crypto - 1)
  ELSE Count \ (tx_reord_crypto .. (tx_trans_crypto - 1))

CryptoTimeout ==
  /\ StrandFree /\ crypto_reordering_timer /\ ~stopped
  /\ LET w == Submitted(tx_window, GivenUp) IN
     \E to \in Count :
       /\ InSequenceUpTo(w, tx_reord_crypto, to)
       /\ \/ /\ ReadsAbsent(w, to)
             /\ Fail("absent_element")
          \/ /\ ~ReadsAbsent(w, to)
             /\ tx_trans_crypto' = to
             /\ tx_window' = Submitted(w, tx_reord_crypto .. (to - 1))
             /\ sent' = sent \cup PdusIn(tx_window, GivenUp)
                             \cup (tx_reord_crypto .. (to - 1))
             /\ crypto_reordering_timer' = (to < tx_next)
             /\ tx_reord_crypto' = IF to < tx_next THEN tx_next ELSE tx_reord_crypto
             /\ UNCHANGED <<tx_next, tx_trans, tx_next_ack, discard_timer, now,
                            retransmit_id, flight, mngrVars, maxVars, bufVars,
                            lifeVars, ctrlVars, failure, acked, used>>

-----------------------------------------------------------------------------
(* Discarding.                                                             *)

\* discard_pdu for every COUNT of S: it leaves the window, whose lower edge
\* moves to the oldest SDU that remains.
DiscardPdus(S) ==
  LET gone == {c \in S : tx_next_ack <= c /\ c < tx_next /\ HasSn(tx_window, c)}
      w    == RemoveAll(tx_window, gone)
  IN
  \/ /\ gone # {}
     /\ tx_window' = w
     /\ \E to \in Count :
          /\ OldestFrom(w, tx_next_ack, to)
          /\ tx_next_ack' = to
          /\ tx_trans' = Later(tx_trans, to)
  \/ /\ gone = {}
     /\ UNCHANGED <<tx_window, tx_next_ack, tx_trans>>

SameTick_AllDue(c) ==
  HasSn(tx_window, c) /\ tx_window[c].tick <= now
\* Did the SDU arrive with the oldest one?
SameTick(c) ==
  HasSn(tx_window, c) /\ tx_window[c].tick = tx_window[tx_next_ack].tick

RestartAfterDiscard_NotRestarted(oldest) == discard_timer' = NoDeadline
\* The timer goes on for the SDU that is the oldest now.
RestartAfterDiscard(oldest) ==
  discard_timer' = IF HasSn(tx_window', tx_next_ack')
                   THEN now + (tx_window'[tx_next_ack'].tick - oldest)
                   ELSE NoDeadline

\* discard_callback, some time after the timer expired.
DiscardExpire ==
  /\ StrandFree /\ ~stopped
  /\ discard_timer # NoDeadline /\ now >= discard_timer
  /\ \/ /\ ~HasSn(tx_window, tx_next_ack)
        /\ discard_timer' = NoDeadline
        /\ UNCHANGED <<tx_window, tx_next_ack, tx_trans>>
     \/ /\ HasSn(tx_window, tx_next_ack)
        /\ DiscardPdus({c \in Count : SameTick(c)})
        /\ RestartAfterDiscard(tx_window[tx_next_ack].tick)
  /\ UNCHANGED <<tx_next, cryptoSt, now, retransmit_id, flight, mngrVars,
                 maxVars, bufVars, lifeVars, ctrlVars, failure, sent, acked, used>>

Tick ==
  /\ Alive /\ Finite /\ now < MaxTick
  /\ now' = now + 1
  /\ UNCHANGED <<tx_next, cryptoSt, windowVars, retransmit_id, flight, mngrVars,
                 maxVars, bufVars, lifeVars, ctrlVars, failure, sent, acked, used>>

-----------------------------------------------------------------------------
(* Notifications of lower layers, and status reports.                      *)

\* The COUNTs that lower layers may report, in any order and repeatedly: they
\* were submitted, and no report is later than a window.
Notifiable == {c \in sent : c >= tx_next_ack - Window}

\* ... and the COUNTs that the peer may report as the first missing one, those
\* that tell the entity nothing apart.
Reportable == {tx_next_ack} \cup {c + 1 : c \in {d \in sent : d >= tx_next_ack}}

\* stop_discard_timer ignores a COUNT outside of the window, and gives up
\* when the lower edge holds no SDU.
StopIgnored(n) ==
  n < tx_next_ack \/ n >= tx_next \/ ~HasSn(tx_window, tx_next_ack)

\* The assertion that fails when the timer is restarted for n + 1: the element
\* is read, and what is left of its discard time becomes the new timeout.
StopAssertion(n) ==
  IF StopIgnored(n) \/ ~Finite \/ n + 1 = tx_next THEN "none"
  ELSE IF ~HasSn(tx_window, n + 1) THEN "absent_element"
  ELSE IF tx_window[n + 1].tick + DiscardTicks < now THEN "timer_duration"
  ELSE "none"

\* A timer runs for at least one tick.
RemainingDeadline(n) ==
  Later(tx_window[n + 1].tick + DiscardTicks, now + 1)

Confirmed_OneTooFar(n) == tx_next_ack .. n + 1
\* The COUNTs that leave the window with n.
Confirmed(n) == tx_next_ack .. n

\* stop_discard_timer(n), where TX_TRANS is trans already.
StopDiscardTimer(n, trans) ==
  \/ /\ StopIgnored(n)
     /\ tx_trans' = trans
     /\ UNCHANGED <<tx_next_ack, tx_window, discard_timer>>
  \/ /\ ~StopIgnored(n)
     /\ tx_window' = RemoveAll(tx_window, Confirmed(n))
     /\ tx_next_ack' = n + 1
     /\ tx_trans' = Later(trans, n + 1)
     /\ discard_timer' = IF Finite /\ n + 1 < tx_next
                         THEN RemainingDeadline(n) ELSE NoDeadline

ByNotification ==
  UNCHANGED <<tx_next, cryptoSt, now, retransmit_id, flight, mngrVars, maxVars,
              bufVars, lifeVars, ctrlVars, failure, sent, used>>

\* COUNTs up to c were handed to the radio (in UM, that confirms them).
TransmitNotification(c) ==
  LET n == NotifiedCount(tx_next_ack, SN(c)) IN
  /\ StrandFree /\ ~stopped
  /\ tx_trans <= n /\ n < tx_trans_crypto /\ n < tx_next
  /\ \/ /\ IsAm
        /\ tx_trans' = n + 1
        /\ UNCHANGED <<tx_next_ack, tx_window, discard_timer, acked>>
        /\ ByNotification
     \/ /\ ~IsAm /\ StopAssertion(n) # "none"
        /\ Fail(StopAssertion(n))
     \/ /\ ~IsAm /\ StopAssertion(n) = "none"
        /\ StopDiscardTimer(n, n + 1)
        /\ acked' = acked \cup (0 .. c)
        /\ ByNotification

\* COUNTs up to c were delivered by RLC AM.
DeliveryNotification(c) ==
  LET n == NotifiedCount(tx_next_ack, SN(c)) IN
  /\ StrandFree /\ ~stopped /\ IsAm /\ n < tx_next
  /\ \/ /\ StopAssertion(n) # "none"
        /\ Fail(StopAssertion(n))
     \/ /\ StopAssertion(n) = "none"
        /\ StopDiscardTimer(n, tx_trans)
        /\ acked' = acked \cup (0 .. c)
        /\ ByNotification

\* The peer misses fmc, has everything below it, and has those above it that
\* the bitmap names.  (The reports are well-formed: see the README.)
StatusReport(fmc, bitmap) ==
  /\ StrandFree /\ ~stopped /\ IsAm /\ StatusReports
  /\ fmc <= tx_next
  /\ DiscardPdus({c \in Count : c < fmc} \cup bitmap)
  /\ acked' = acked \cup (0 .. (fmc - 1)) \cup bitmap
  /\ UNCHANGED discard_timer
  /\ ByNotification

-----------------------------------------------------------------------------
(* Retransmission of the whole window.                                     *)

\* retransmit_all_pdus up to its loop.
BeginRetransmit(next_routine) ==
  /\ tx_trans' = tx_next_ack
  /\ tx_trans_crypto' = tx_next_ack
  /\ retransmit_id' = retransmit_id + 1
  /\ to_retransmit' = tx_next_ack
  /\ routine' = next_routine

\* One turn of the loop, which stays on the strand while crypto workers run.
Retransmit ==
  /\ Alive /\ routine \in {"retransmit", "recover"}
  /\ \/ /\ to_retransmit < tx_next
        /\ to_retransmit' = to_retransmit + 1
        /\ \/ /\ HasSn(tx_window, to_retransmit)
              /\ QueueForCrypto([count |-> to_retransmit, retx_id |-> retransmit_id])
           \/ /\ ~HasSn(tx_window, to_retransmit)
              /\ UNCHANGED <<crypto, mngrVars>>
        /\ UNCHANGED routine
     \/ /\ to_retransmit >= tx_next
        /\ routine' = IF routine = "recover" THEN "idle" ELSE "end_buffering"
        /\ to_retransmit' = 0
        /\ UNCHANGED <<crypto, mngrVars>>
  /\ UNCHANGED <<tx_next, cryptoSt, windowVars, now, retransmit_id, ue_queue,
                 maxVars, bufVars, lifeVars, suspended, resume_requested, key,
                 failure, sent, acked, used>>

\* data_recovery().
DataRecovery ==
  /\ StrandFree /\ routine = "idle" /\ ~stopped /\ ~buffering
  /\ IsAm /\ DataRecoveries /\ retransmit_id < MaxRetransmit
  /\ BeginRetransmit("recover")
  /\ UNCHANGED <<tx_next, tx_reord_crypto, crypto_reordering_timer, tx_next_ack,
                 tx_window, discard_timer, now, flight, mngrVars, maxVars,
                 bufVars, lifeVars, suspended, resume_requested, key, failure,
                 sent, acked, used>>

-----------------------------------------------------------------------------
(* The callers on the control side: the modification routine and the       *)
(* release of the UE.                                                      *)

BeginBuffering_Lost == UNCHANGED buffering
BeginBuffering      == buffering' = TRUE

\* Buffer, give back the manager's own token, await the event.
BeginRoutine(kind) ==
  /\ StrandFree /\ ~stopped /\ routine = "idle"
  /\ \/ kind = "suspend" /\ MaySuspend /\ ~suspended
     \/ kind = "rekey" /\ ~suspended /\ key < MaxKey
     \/ kind = "resume" /\ suspended /\ key < MaxKey
  /\ suspended' = (suspended /\ kind # "resume")
  /\ resume_requested' = (resume_requested /\ kind # "resume")
  /\ routine' = kind
  /\ BeginBuffering
  /\ ReturnToken
  /\ UNCHANGED <<tx_next, cryptoSt, windowVars, now, retransmit_id, flight,
                 maxVars, sdu_buffer, lifeVars, key, to_retransmit, failure,
                 sent, acked, used>>

StartAt(count) ==
  /\ tx_next' = count /\ tx_trans_crypto' = count /\ tx_reord_crypto' = count
  /\ tx_trans' = count /\ tx_next_ack' = count

ClearWindow      == tx_window' = Empty

\* The COUNT space begins again, with an empty window.
ResetState ==
  /\ StartAt(0)
  /\ ClearWindow
  /\ sent' = {} /\ acked' = {}

\* suspend(); the crypto reordering timer goes on.
Suspend ==
  /\ StrandFree /\ routine = "suspend" /\ Drained
  /\ ResetState
  /\ discard_timer' = NoDeadline
  /\ suspended' = TRUE /\ routine' = "idle"
  /\ StartTokens
  /\ UNCHANGED <<crypto_reordering_timer, now, retransmit_id, flight, maxVars,
                 bufVars, lifeVars, resume_requested, key, to_retransmit,
                 failure, used>>

Rekey ==
  /\ StrandFree /\ routine \in {"rekey", "resume"} /\ Drained
  /\ key' = key + 1 /\ used' = {}
  /\ StartTokens
  /\ routine' = "modify"
  /\ UNCHANGED <<tx_next, cryptoSt, windowVars, now, retransmit_id, flight,
                 maxVars, bufVars, lifeVars, suspended, resume_requested,
                 to_retransmit, failure, sent, acked>>

\* reestablish(): UM starts again, and both of its timers go on; AM
\* retransmits what is not confirmed.
Reestablish ==
  \/ /\ ~IsAm
     /\ ResetState
     /\ routine' = "end_buffering"
     /\ UNCHANGED <<discard_timer, crypto_reordering_timer, retransmit_id,
                    to_retransmit>>
  \/ /\ IsAm /\ retransmit_id < MaxRetransmit
     /\ BeginRetransmit("retransmit")
     /\ UNCHANGED <<tx_next, tx_reord_crypto, crypto_reordering_timer,
                    tx_next_ack, tx_window, discard_timer, sent, acked>>

\* set_count(), on a bearer created to take over from another one.
SetCount(count) ==
  /\ tx_next = 0
  /\ StartAt(count)
  /\ routine' = "end_buffering"
  /\ UNCHANGED <<tx_window, discard_timer, crypto_reordering_timer,
                 retransmit_id, to_retransmit, sent, acked>>

\* The CU-CP has the bearer re-established, its COUNT set, or neither.
ModifyBearer ==
  /\ Alive /\ routine = "modify"
  /\ \/ Reestablish
     \/ \E c \in StartCounts : SetCount(c)
     \/ /\ routine' = "end_buffering"
        /\ UNCHANGED <<tx_next, cryptoSt, windowVars, retransmit_id,
                       to_retransmit, sent, acked>>
  /\ UNCHANGED <<now, flight, mngrVars, maxVars, bufVars, lifeVars, suspended,
                 resume_requested, key, failure, used>>

EndBuffering ==
  /\ Alive /\ routine = "end_buffering"
  /\ buffering' = FALSE /\ routine' = "flush"
  /\ UNCHANGED <<tx_next, cryptoSt, windowVars, now, retransmit_id, flight,
                 mngrVars, maxVars, sdu_buffer, lifeVars, suspended,
                 resume_requested, key, to_retransmit, failure, sent, acked, used>>

\* stop(), by the release of the UE.
StopForRelease ==
  /\ StrandFree /\ ~stopped /\ routine = "idle" /\ MayRelease
  /\ stopped' = TRUE
  /\ ClearWindow
  /\ discard_timer' = NoDeadline /\ crypto_reordering_timer' = FALSE
  /\ ReturnToken
  /\ UNCHANGED <<st, now, retransmit_id, flight, maxVars, bufVars, destroyed,
                 ctrlVars, failure, sent, acked, used>>

Destroy ==
  /\ StrandFree /\ stopped /\ Drained
  /\ destroyed' = TRUE
  /\ UNCHANGED <<tx_next, cryptoSt, windowVars, now, retransmit_id, flight,
                 mngrVars, maxVars, bufVars, stopped, ctrlVars, failure, sent,
                 acked, used>>

-----------------------------------------------------------------------------
Next ==
  \/ HandleSdu
  \/ Flush
  \/ \E s \in CryptoSlots : ApplySecurity(s)
  \/ SecurityFailure
  \/ DropPdu
  \/ StorePdu
  \/ CryptoTimeout
  \/ Tick
  \/ DiscardExpire
  \/ \E c \in Notifiable : TransmitNotification(c)
  \/ \E c \in Notifiable : DeliveryNotification(c)
  \/ \E fmc \in Reportable :
       \E bitmap \in SUBSET {c \in sent : c > fmc} : StatusReport(fmc, bitmap)
  \/ Retransmit
  \/ DataRecovery
  \/ \E kind \in {"suspend", "rekey", "resume"} : BeginRoutine(kind)
  \/ Suspend
  \/ Rekey
  \/ ModifyBearer
  \/ EndBuffering
  \/ StopForRelease
  \/ Destroy

\* The executors run what is posted to them, the crypto reordering timer
\* expires, and loops and routines go on.  Nobody is obliged to send an SDU
\* or a notification, nor the CU-CP to start a procedure.
Fairness ==
  /\ \A s \in CryptoSlots : WF_vars(ApplySecurity(s))
  /\ WF_vars(SecurityFailure) /\ WF_vars(DropPdu) /\ WF_vars(StorePdu)
  /\ WF_vars(Flush) /\ WF_vars(CryptoTimeout) /\ WF_vars(Retransmit)
  /\ WF_vars(Suspend) /\ WF_vars(Rekey) /\ WF_vars(ModifyBearer)
  /\ WF_vars(EndBuffering) /\ WF_vars(Destroy)

Spec == Init /\ [][Next]_vars

FairSpec == Spec /\ Fairness

-----------------------------------------------------------------------------
(* Properties.                                                             *)

StTypeOK ==
  /\ tx_next \in Count /\ tx_trans_crypto \in Count /\ tx_reord_crypto \in Count
  /\ tx_trans \in Count /\ tx_next_ack \in Count
  /\ tx_window \in [Count -> Element \cup {None}]
  /\ discard_timer \in {NoDeadline} \cup 0 .. (2 * MaxTick + DiscardTicks)
  /\ crypto_reordering_timer \in BOOLEAN
  /\ now \in 0 .. MaxTick /\ retransmit_id \in 0 .. MaxRetransmit

FlightTypeOK ==
  /\ crypto \in [CryptoSlots -> CryptoTask \cup {None}]
  /\ ue_queue \in Seq(UeTask) /\ Len(ue_queue) <= UeQueueSize

CtrlTypeOK ==
  /\ max_count_notified \in BOOLEAN /\ max_count_overflow \in BOOLEAN
  /\ buffering \in BOOLEAN /\ sdu_buffer \in 0 .. SduBufferSize
  /\ suspended \in BOOLEAN /\ resume_requested \in BOOLEAN
  /\ stopped \in BOOLEAN /\ destroyed \in BOOLEAN /\ key \in 1 .. MaxKey
  /\ routine \in {"idle", "modify", "retransmit", "recover", "end_buffering",
                  "flush"} \cup Awaiting
  /\ to_retransmit \in Count
  /\ failure \in {"none", "absent_element", "timer_duration"}
  /\ sent \subseteq Count /\ acked \subseteq Count /\ used \subseteq Count

\* The types of all variables: no COUNT leaves its 32 bits.
TypeOK == StTypeOK /\ FlightTypeOK /\ MngrTypeOK /\ CtrlTypeOK

\* The window holds only COUNTs from TX_NEXT_ACK to TX_NEXT, of which there
\* are never as many as the peer's window has: no two of them share a slot
\* (pdcp_entity_tx.cpp:1491), whatever is confirmed, discarded or reset.
WindowOrdered ==
  /\ tx_next_ack <= tx_trans /\ tx_trans <= tx_next
  /\ tx_next - tx_next_ack < Window
  /\ \A c \in Count : HasSn(tx_window, c) => tx_next_ack <= c /\ c < tx_next

\* "The PDCP is not allowed to use the same COUNT value more than once for a
\* given security key" (pdcp_entity_tx.cpp:272): the COUNT of the next SDU was
\* given to none before under the key in use, through suspension, resumption
\* and re-establishment; while the entity buffers it gives out none.
NoCountReuse == buffering \/ tx_next \notin used

\* An SDU leaves the window only when lower layers or the peer confirmed it,
\* when its discard time has passed, or with the bearer or its COUNT space.
KeptUntilSettled ==
  [][\A c \in Count :
       HasSn(tx_window, c) /\ ~HasSn(tx_window', c) =>
         \/ c \in acked' \/ stopped' \/ tx_next' = 0
         \/ Finite /\ now >= tx_window[c].tick + DiscardTicks]_vars

\* In an AM bearer, what lower layers confirmed, by an SN that may belong to
\* the next HFN already, does not stay in the window, where it would be
\* retransmitted and in time stop the bearer.
ConfirmedLeaves == \A c \in acked : ~HasSn(tx_window, c)

\* With a finite discard timer, no SDU is left without one that will expire.
OldestHasTimer ==
  Finite /\ ~stopped /\ tx_next_ack < tx_next => discard_timer # NoDeadline

\* The security engines, which the crypto workers read without a lock, are
\* replaced only while no worker uses them and none of their results waits,
\* retransmissions included.
KeysReplacedWhenDrained == [][key' # key => NothingInFlight]_vars

\* A PDU that waits for those before it goes down or is given up.
PduLeaves ==
  \A c \in Count :
    HasPdu(tx_window, c) /\ c >= tx_trans_crypto
      ~> ~HasPdu(tx_window, c) \/ c < tx_trans_crypto \/ ~Alive

\* A reconfiguration, a flush or a retransmission that began ends.
RoutineCompletes == routine # "idle" ~> routine = "idle" \/ ~Alive

\* The release of the UE gets to the destruction of a stopped entity.
StoppedIsDestroyed == stopped ~> ~Alive

-----------------------------------------------------------------------------
(* What comments, documents and assertions of the code say and the code    *)
(* does not keep; the README names an instance for each.                   *)

\* "update TX_NEXT_ACK to oldest element in tx_window" (pdcp_entity_tx.cpp,
\* stop_discard_timer and discard_pdu): the lower edge of the window is stored.
OldestInWindow ==
  tx_next_ack < tx_next /\ ~stopped => HasSn(tx_window, tx_next_ack)

\* "Accessing non-existent ID" (circular_map.h:390) is never reached.
NoAbsentAccess == failure # "absent_element"

\* "Invalid timer duration" (timers.cpp:217) is never reached.
TimeoutInRange == failure # "timer_duration"

\* "Any PDUs pending transmission will be dropped, as the retransmit ID will
\* no longer match" (pdcp_entity_tx.cpp:973): once the retransmission of a
\* re-establishment begins, no PDU under the old key waits in the window.
PendingDropped ==
  routine = "retransmit" =>
    \A c \in Count : HasPdu(tx_window, c) => tx_window[c].pdu = key

\* "If an in-flight PDU arrives after advancing the window, it will be
\* discarded" (pdcp_entity_tx.h, crypto_reordering_timeout).
LateDiscarded == \A c \in Count : HasPdu(tx_window, c) => c >= tx_trans_crypto

\* reset(): "Reset state variables to their initial state and drop all discard
\* timers with all stored SDUs" (pdcp_entity_tx.h).
ResetDropsTimer == tx_next = 0 => discard_timer = NoDeadline

\* The crypto reordering timer waits for COUNTs ahead: the loop "while
\* tx_trans_crypto != tx_reord_crypto" counts up to TX_REORD_CRYPTO.
ReordAhead == crypto_reordering_timer => tx_trans_crypto <= tx_reord_crypto

=============================================================================
