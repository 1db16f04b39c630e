------------------------------- MODULE RlcAm -------------------------------
(***************************************************************************)
(* Two RLC AM entities, the transmitting side of one and the receiving     *)
(* side of the other, over a channel that loses and reorders PDUs.         *)
(***************************************************************************)
EXTENDS RlcAmTx, RlcAmRx

vars == <<txVars, rxVars, data, status>>

Init == TxInit /\ RxInit /\ data = {} /\ status = {}

\* PDUs that outlived their SN are gone.
Dropped(channel, edge) == {m \in channel : Fresh(edge - m.id)}

Write   == HandleSdu /\ UNCHANGED <<rxVars, status>>
Discard == DiscardSdu /\ UNCHANGED <<rxVars, status>>
Drop    == DropDiscarded /\ UNCHANGED <<rxVars, status>>
Pull    == PullPdu /\ UNCHANGED <<rxVars, status>>

\* Bound: the upper layers, told of max retx, release the bearer before one
\* more retransmission is counted for the SDU.
CountsBounded ==
  \A sn \in DOMAIN tx_window' : tx_window'[sn].retx_count <= MaxRetx

PollExpire ==
  PollRetransmitExpires /\ CountsBounded /\ UNCHANGED <<rxVars, status>>

ReceiveStatus ==
  \E s \in status :
    /\ HandleStatusPdu(s) /\ CountsBounded
    /\ status' = {r \in status \ {s} : Fresh(acked' - r.at)}
    /\ UNCHANGED rxVars

ReceiveData ==
  \E pdu \in data :
    /\ HandleDataPdu(pdu)
    /\ data' = {m \in data \ {pdu} : Fresh(passed' - 1 - m.id)}
    /\ UNCHANGED <<txVars, status>>

Answer == SendStatus /\ UNCHANGED <<txVars, data>>
ProhibitExpire == ProhibitExpires /\ UNCHANGED <<txVars, data, status>>
ReassemblyExpire == ReassemblyExpires /\ UNCHANGED <<txVars, data, status>>

Work ==
  \/ Pull \/ ReceiveStatus \/ PollExpire
  \/ ReceiveData \/ Answer \/ ProhibitExpire \/ ReassemblyExpire

Next == Write \/ Discard \/ Drop \/ Work

Spec == Init /\ [][Next]_vars

\* Something is done as long as there is something to do: the MAC grants what
\* it was told of, the executors run, and timers expire.
FairSpec == Spec /\ WF_vars(Work)

-----------------------------------------------------------------------------
\* The types of all variables: every SN stays within its bits.
TypeOK ==
  /\ sdu_queue \in Seq(BOOLEAN) /\ Len(sdu_queue) <= QueueSize
  /\ taken \in 0 .. Len(Lens)
  /\ acked \in 0 .. Len(Lens) /\ passed \in 0 .. Len(Lens)
  /\ lost \subseteq {Whole(i) : i \in SduIds}
  /\ {tx_next, tx_next_ack, poll_sn, rx_next, rx_next_highest,
      rx_highest_status, rx_next_status_trigger, report.ack_sn} \subseteq Sn
  /\ DOMAIN tx_window \subseteq Sn /\ DOMAIN rx_window \subseteq Sn
  /\ sn_under_segmentation \in Sn \cup {NoSn} /\ retx_sn \in Sn \cup {NoSn}
  /\ pdu_without_poll \in 0 .. PollPdu /\ byte_without_poll \in 0 .. PollByte
  /\ {max_retx_reached, poll_timer, reported, failed, silent, reassembly_timer,
      do_status, status_prohibit} \subseteq BOOLEAN
  /\ data \subseteq Pdu
  /\ \A s \in status \cup {report} : s.nacks \subseteq Nack

SentBytes(sn) ==
  IF sn = sn_under_segmentation THEN tx_window[sn].next_so
  ELSE Length(tx_window[sn].id)

\* What is queued for retransmission is of an SDU in the window, whatever was
\* acknowledged since, and was sent before: "avoid RETX overtaking the
\* original" (rlc_tx_am_entity.cpp:864).  So what build_retx_pdu and
\* get_buffer_state drop from the queue is never there.
RetxWithinSent ==
  \A i \in DOMAIN retx_queue :
    LET retx == retx_queue[i] IN
    /\ InWindow(retx.sn)
    /\ retx.length > 0
    /\ retx.so + retx.length <= SentBytes(retx.sn)

\* The window is what was taken and not acknowledged, without holes, and the
\* SDU that is being segmented is the last of it; pull_pdu would lose the rest
\* of one that is not there (rlc_tx_am_entity.cpp:205).
WindowInOrder ==
  /\ \A sn \in DOMAIN tx_window : tx_window[sn].id = acked + TxBase(sn)
  /\ Cardinality(DOMAIN tx_window) = taken - acked
  /\ sn_under_segmentation # NoSn =>
       /\ sn_under_segmentation = tx_next
       /\ InWindow(tx_next) /\ TxBase(tx_next) = taken - acked - 1

\* However late and in whatever order the reports of a peer that keeps to the
\* protocol come, it is never taken for one that does not, which would have
\* the UE released (rlc_tx_am_entity.cpp:677, 897, 904, 912, 1256, 1268).
NeverAccused == ~failed

\* Of every SDU for which a report that passes the checks has a NACK there is
\* one in the window, which handle_nack reads without asking (:851).
NackedPresent ==
  \A s \in status :
    Valid(s) => \A nack \in s.nacks : InWindow(nack.sn)

\* The entity goes silent for good only after it told the upper layers, though
\* the two are decided on different counts (:565, :962).
StopIsReported == max_retx_reached => reported

\* RX_Next <= RX_Highest_Status <= RX_Next_Highest <= RX_Next + window, and
\* both of the first stand at an SDU that is not complete: a report never has
\* an ACK_SN below what it acknowledges (rlc_rx_am_entity.cpp:246-285, 728).
\* While t-Reassembly runs its trigger is in reach, which an assertion relies
\* on (:731), and the SDU before it is in the window, which is read without
\* asking when it is RX_Next (:306).
ReceiverOrdered ==
  /\ Base(rx_highest_status, rx_next) <= Base(rx_next_highest, rx_next)
  /\ Base(rx_next_highest, rx_next) <= Window
  /\ ~FullyReceived(rx_window, rx_next)
  /\ ~FullyReceived(rx_window, rx_highest_status)
  /\ reassembly_timer =>
       /\ Base(rx_next_status_trigger, rx_next) \in 1 .. Window
       /\ Plus(rx_next_status_trigger, SnMod - 1) \in DOMAIN rx_window

\* What is missing and not in the reports yet is waited for by t-Reassembly:
\* no loss goes unnoticed, whatever started, moved or stopped the timer.
GapIsTimed ==
  \/ reassembly_timer
  \/ /\ Base(rx_next_highest, rx_next) <= Base(rx_highest_status, rx_next) + 1
     /\ rx_next_highest # rx_highest_status =>
          ~HasGap(rx_window, rx_highest_status)

\* The cached report, which is rebuilt only when a PDU changed the window or
\* asked for it, is the one that would be built now: rx_next_highest and the
\* timer change nothing in it by themselves.
ReportIsCurrent == report = Report(rx_window, rx_next, rx_highest_status)

\* A transmitter that waits for acknowledgements and can send nothing by itself,
\* for there is nothing but discarded SDUs in its queue, has a poll on its way,
\* unless one was forgotten (see Silences, OnlyDiscarded and the README): nobody
\* waits for nobody.
PollsOrSilent ==
  /\ acked < taken /\ ~max_retx_reached
  /\ retx_queue = <<>>
  /\ Exhausted(Purged(sdu_queue), retx_queue, sn_under_segmentation, tx_window)
  => poll_timer \/ silent

\* The bearer keeps the promise of AckedDelivery: SDUs are delivered whole and
\* once, and forgotten only when they were or when the receiver had no buffers
\* to reassemble them (rlc_rx_am_entity.cpp:226-229).
Promised == INSTANCE AckedDelivery WITH sent <- taken, handed <- delivered
KeepsDelivery == Promised!Spec

\* All SDUs taken are acknowledged in the end, or the upper layers hear of too
\* many retransmissions, whatever is lost, unless a poll was forgotten.
Settled == acked < taken ~> acked = taken \/ reported \/ silent
=============================================================================
