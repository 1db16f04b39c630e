------------------------------ MODULE RlcAmTx ------------------------------
(***************************************************************************)
(* The transmitting RLC AM entity (lib/rlc/rlc_tx_am_entity.cpp).  Its     *)
(* state belongs to the cell executor; the UE executor only writes and     *)
(* discards SDUs, through the queue that RlcUmTx models step by step: a    *)
(* discarded SDU is marked, and is in the queue until it comes to its end. *)
(***************************************************************************)
EXTENDS RlcAmPdu, FiniteSetsExt, Functions

CONSTANTS
  QueueSize,    \* SDUs that sdu_queue holds
  MayDiscard,   \* PDCP discards SDUs
  Grants,       \* payload bytes that fit into a PDU the MAC asks for
  PollPdu, PollByte, \* pollPDU and pollByte, 0 for none
  MaxRetx       \* max_retx_thresh

ASSUME TxAssumption ==
  /\ QueueSize \in Nat \ {0} /\ MayDiscard \in BOOLEAN
  /\ Grants \subseteq Nat \ {0}
  /\ PollPdu \in Nat /\ PollByte \in Nat /\ MaxRetx \in Nat \ {0}

NotStarted == -1               \* RETX_COUNT_NOT_STARTED

VARIABLES
  sdu_queue,           \* for each SDU, whether it is still to be sent
  tx_next, tx_next_ack, poll_sn, pdu_without_poll, byte_without_poll,
  tx_window,           \* SN -> the SDU, next_so and retx_count
  sn_under_segmentation,
  retx_queue, retx_sn,
  max_retx_reached,
  poll_timer,          \* t-PollRetransmit is running
  taken, acked,        \* SDUs taken from the queue, and acknowledged
  reported, failed,    \* upper layers heard of max retx, of a protocol failure
  silent               \* a poll was forgotten, see Silences and OnlyDiscarded

pollVars == <<poll_sn, pdu_without_poll, byte_without_poll, poll_timer>>
segVars  == <<tx_next, sn_under_segmentation, taken>>
retxVars == <<retx_queue, retx_sn>>
ackVars  == <<tx_next_ack, acked>>
upVars   == <<reported, failed>>
txVars   == <<sdu_queue, pollVars, segVars, retxVars, ackVars, upVars, tx_window,
              max_retx_reached, silent>>

TxInit ==
  /\ sdu_queue = <<>> /\ tx_next = Start /\ tx_next_ack = Start
  /\ poll_sn = IF Start = 0 THEN 0 ELSE Start - 1
  /\ pdu_without_poll = 0 /\ byte_without_poll = 0
  /\ tx_window = <<>>
  /\ sn_under_segmentation = NoSn
  /\ retx_queue = <<>> /\ retx_sn = NoSn
  /\ max_retx_reached = FALSE /\ poll_timer = FALSE
  /\ taken = 0 /\ acked = 0
  /\ reported = FALSE /\ failed = FALSE /\ silent = FALSE

InWindow(sn) == sn \in DOMAIN tx_window
TxBase(sn) == Base(sn, tx_next_ack)
WindowFull(window) == Cardinality(DOMAIN window) >= Window

\* front() and read() take discarded SDUs from the queue up to one that is not.
Purged(queue) ==
  LET valid == {i \in DOMAIN queue : queue[i]}
  IN IF valid = {} THEN <<>> ELSE SubSeq(queue, Min(valid), Len(queue))

\* Discarded SDUs keep the queue from being empty, which is what a poll and the
\* expiry of t-PollRetransmit wait for.
OnlyDiscarded(queue) == queue # <<>> /\ Purged(queue) = <<>>

\* update_mac_buffer_state, of which get_buffer_state is a part: it looks at the
\* front of the queue, unless it has an SDU to go on with.
UpdateMacBufferState ==
  sdu_queue' = IF sn_under_segmentation = NoSn THEN Purged(sdu_queue) ELSE sdu_queue

\* Nothing more can be sent before the peer answers.
Exhausted(queue, retx, under, window) ==
  \/ queue = <<>> /\ retx = <<>> /\ under = NoSn
  \/ WindowFull(window)

Polls_NewOnly(isNew, counted) ==
  /\ isNew
  /\ Exhausted(sdu_queue', retx_queue', sn_under_segmentation', tx_window')
\* get_polling_bit, once the PDU has left the buffers.
Polls(isNew, counted) ==
  \/ isNew /\ PollPdu > 0 /\ pdu_without_poll + 1 >= PollPdu
  \/ isNew /\ PollByte > 0 /\ byte_without_poll + counted >= PollByte
  \/ Exhausted(sdu_queue', retx_queue', sn_under_segmentation', tx_window')

UpTo(max, n) == Min({max, n})

\* The last SN of which a PDU was sent.
Newest == IF sn_under_segmentation' = NoSn THEN Plus(tx_next', SnMod - 1) ELSE tx_next'

\* The counters go no further than what they are compared with.  A poll on a
\* retransmission leaves poll_sn, and ends the silence only when poll_sn is the
\* last SN already, and no discarded SDU is in the way of the next poll.
CountPoll(p, isNew, sn, counted) ==
  /\ poll_sn' = IF p /\ isNew THEN sn ELSE poll_sn
  /\ poll_timer' = (p \/ poll_timer)
  /\ silent' = (\/ silent /\ ~(p /\ poll_sn' = Newest)
                \/ OnlyDiscarded(sdu_queue'))
  /\ IF p \/ ~isNew
       THEN /\ pdu_without_poll' = IF p THEN 0 ELSE pdu_without_poll
            /\ byte_without_poll' = IF p THEN 0 ELSE byte_without_poll
       ELSE /\ pdu_without_poll' = UpTo(PollPdu, pdu_without_poll + 1)
            /\ byte_without_poll' = UpTo(PollByte, byte_without_poll + counted)

Send(id, from, to, sn, isNew, counted) ==
  LET p == Polls(isNew, counted) IN
  /\ CountPoll(p, isNew, sn, counted)
  /\ data' \in Submit(data, [sn |-> sn, id |-> id, from |-> from, to |-> to,
                             p |-> p])

-----------------------------------------------------------------------------
(* The UE executor.  Bound: Lens has the SDUs there are. *)

HandleSdu ==
  /\ Len(sdu_queue) < QueueSize /\ taken + Len(sdu_queue) < Len(Lens)
  /\ sdu_queue' = Append(sdu_queue, TRUE)
  /\ UNCHANGED <<pollVars, segVars, retxVars, ackVars, upVars, tx_window,
                 max_retx_reached, silent, data>>

\* The poll that was to go with the last SDU of the queue is not sent.
DiscardSdu ==
  /\ MayDiscard
  /\ \E i \in DOMAIN sdu_queue :
       sdu_queue[i] /\ sdu_queue' = [sdu_queue EXCEPT ![i] = FALSE]
  /\ silent' = (silent \/ OnlyDiscarded(sdu_queue'))
  /\ UNCHANGED <<pollVars, segVars, retxVars, ackVars, upVars, tx_window,
                 max_retx_reached, data>>

-----------------------------------------------------------------------------
(* pull_pdu, for a grant of n bytes of payload. *)

\* The MAC asks for the buffer state, a task that handle_changed_buffer_state
\* deferred updates it, or read() finds discarded SDUs alone in build_new_pdu.
DropDiscarded ==
  /\ sn_under_segmentation = NoSn
  /\ Purged(sdu_queue) # sdu_queue
  /\ UpdateMacBufferState
  /\ UNCHANGED <<pollVars, segVars, retxVars, ackVars, upVars, tx_window,
                 max_retx_reached, silent, data>>

\* build_new_pdu.  The length of a full SDU is read after the SDU was moved
\* into the window, and is zero.
BuildNewPdu(n) ==
  /\ ~max_retx_reached
  /\ retx_queue = <<>> /\ sn_under_segmentation = NoSn
  /\ Purged(sdu_queue) # <<>> /\ ~WindowFull(tx_window)
  /\ LET len == Length(taken)
         full == len <= n
     IN /\ tx_window' = Put(tx_window, tx_next,
                            [id |-> taken, retx_count |-> NotStarted,
                             next_so |-> IF full THEN 0 ELSE n])
        /\ sn_under_segmentation' = IF full THEN NoSn ELSE tx_next
        /\ tx_next' = IF full THEN Plus(tx_next, 1) ELSE tx_next
        /\ sdu_queue' = Tail(Purged(sdu_queue))
        /\ taken' = taken + 1
        /\ UNCHANGED retxVars
        /\ Send(taken, 0, IF full THEN len - 1 ELSE n - 1, tx_next, TRUE,
                IF full THEN 0 ELSE n)
  /\ UNCHANGED <<ackVars, upVars, max_retx_reached>>

\* build_continued_sdu_segment
BuildContinuedSduSegment(n) ==
  /\ ~max_retx_reached
  /\ retx_queue = <<>> /\ sn_under_segmentation # NoSn
  /\ LET sdu  == tx_window[sn_under_segmentation]
         left == Length(sdu.id) - sdu.next_so
         last == left <= n
         m    == IF last THEN left ELSE n
     IN /\ tx_window' = [tx_window EXCEPT ![sn_under_segmentation].next_so = @ + m]
        /\ sn_under_segmentation' = IF last THEN NoSn ELSE sn_under_segmentation
        /\ tx_next' = IF last THEN Plus(tx_next, 1) ELSE tx_next
        /\ UNCHANGED <<sdu_queue, taken, retxVars>>
        /\ Send(sdu.id, sdu.next_so, sdu.next_so + m - 1, tx_next, TRUE, m)
  /\ UNCHANGED <<ackVars, upVars, max_retx_reached>>

\* build_retx_pdu.  RetxWithinSent says that what the code drops, for want of
\* an SDU or past its end, never is in the queue.
BuildRetxPdu(n) ==
  /\ ~max_retx_reached
  /\ retx_queue # <<>>
  /\ LET retx == Head(retx_queue)
         sdu  == tx_window[retx.sn]
         m    == UpTo(n, retx.length)
         done == m = retx.length
     IN /\ retx_sn' = retx.sn
        /\ retx_queue' = IF done THEN Tail(retx_queue)
                         ELSE [retx_queue EXCEPT ![1] = [sn |-> retx.sn, so |-> retx.so + m,
                                                         length |-> retx.length - m]]
        /\ max_retx_reached' = (done /\ sdu.retx_count = MaxRetx)
        /\ UNCHANGED <<sdu_queue, segVars, tx_window>>
        /\ Send(sdu.id, retx.so, retx.so + m - 1, retx.sn, FALSE, 0)
  /\ UNCHANGED <<ackVars, upVars>>

PullPdu ==
  \E n \in Grants :
    \/ BuildNewPdu(n)
    \/ BuildContinuedSduSegment(n)
    \/ BuildRetxPdu(n)

-----------------------------------------------------------------------------
(* Retransmission counts, each told to the upper layers when it is MaxRetx. *)

\* increment_retx_count, once, for each of the SNs
Increment(window, sns) ==
  [sn \in DOMAIN window |->
     IF sn \in sns THEN [window[sn] EXCEPT !.retx_count = @ + 1] ELSE window[sn]]

Reaches_Beyond(window, sns) ==
  \E sn \in sns \cap DOMAIN window : window[sn].retx_count > MaxRetx
Reaches(window, sns) ==
  \E sn \in sns \cap DOMAIN window : window[sn].retx_count = MaxRetx

\* The retx_queue is cleared: each run of an SN that is not the one being
\* retransmitted counts back.
Rewind(window) ==
  LET Before(i) == IF i = 1 THEN retx_sn ELSE retx_queue[i - 1].sn
      Runs(sn)  == {i \in DOMAIN retx_queue :
                      retx_queue[i].sn = sn /\ Before(i) # sn}
  IN [sn \in DOMAIN window |->
        [window[sn] EXCEPT
           !.retx_count = Max({NotStarted, @ - Cardinality(Runs(sn))})]]

-----------------------------------------------------------------------------
(* handle_status_pdu.  NACKs of a range of SNs are given one by one. *)

ValidAckSn(sn) == 0 < TxBase(sn) /\ TxBase(sn) <= Window
AckTooHigh_NoSegment(s) == TxBase(s.ack_sn) > TxBase(tx_next)
AckTooHigh(s)  == TxBase(s.ack_sn) > TxBase(Plus(tx_next, 1))

NackInside(s, nack) ==
  /\ TxBase(nack.sn) < TxBase(s.ack_sn)
  /\ TxBase(nack.sn) < Window

NackTooHigh(nack) == TxBase(nack.sn) > TxBase(tx_next)

Valid_AckOnly(s) == ValidAckSn(s.ack_sn) /\ ~AckTooHigh(s)
Valid(s) ==
  /\ ValidAckSn(s.ack_sn) /\ ~AckTooHigh(s)
  /\ \A nack \in s.nacks : NackInside(s, nack) /\ ~NackTooHigh(nack)

LastByte_WholeSdu(nack) ==
  IF nack.to # EndOfSdu THEN nack.to ELSE Length(tx_window[nack.sn].id) - 1
\* The last byte a NACK asks for; less than its first when there is nothing
\* to retransmit, since the rest of the SDU was not sent yet.
LastByte(nack) ==
  LET sdu == tx_window[nack.sn] IN
  IF nack.to # EndOfSdu THEN nack.to
  ELSE IF nack.sn = sn_under_segmentation /\ nack.from > 0
         THEN sdu.next_so - 1
         ELSE Length(sdu.id) - 1

\* handle_nack leaves the unsent rest alone.
NackOfUnsent(nack) ==
  /\ nack.sn = sn_under_segmentation
  /\ nack.to = EndOfSdu /\ nack.from > 0
  /\ nack.from >= tx_window[nack.sn].next_so

BadSegment(nack) ==
  ~NackOfUnsent(nack) /\
  \/ nack.from > LastByte(nack)
  \/ nack.from >= Length(tx_window[nack.sn].id)
  \/ LastByte(nack) >= Length(tx_window[nack.sn].id)

\* What the upper layers are told is a protocol failure.
Accused(s) ==
  /\ ValidAckSn(s.ack_sn)
  /\ \/ AckTooHigh(s)
     \/ \E nack \in s.nacks :
          /\ NackTooHigh(nack)
          /\ \A m \in s.nacks : Behind(s, m) >= Behind(s, nack) => NackInside(s, m)
     \/ Valid(s) /\ \E nack \in s.nacks : BadSegment(nack)

FirstNack(s) ==
  CHOOSE nack \in s.nacks : \A m \in s.nacks : Behind(s, m) <= Behind(s, nack)

AckStop_PastNacks(s) == s.ack_sn
AckStop_OneMore(s) ==
  IF s.nacks = {} THEN Plus(s.ack_sn, 1) ELSE FirstNack(s).sn
\* A report acknowledges what comes before its first NACK.
AckStop(s) == IF s.nacks = {} THEN s.ack_sn ELSE FirstNack(s).sn

\* From tx_next_ack on, as far as the window has no hole.
AckedSns(s) ==
  {sn \in Sn : \A k \in 0 .. TxBase(sn) :
     k < TxBase(AckStop(s)) /\ InWindow(Plus(tx_next_ack, k))}

Retx(nack) ==
  LET len  == Length(tx_window[nack.sn].id)
      from == IF nack.from > LastByte(nack) \/ nack.from >= len THEN 0 ELSE nack.from
      to   == UpTo(len - 1, LastByte(nack))
  IN [sn |-> nack.sn, so |-> from, length |-> to - from + 1]

Asked(s) == {nack \in s.nacks : ~NackOfUnsent(nack)}

Precedes(s, m, nack) ==
  \/ Behind(s, m) > Behind(s, nack)
  \/ m.sn = nack.sn /\ m.from < nack.from

\* The first n NACKs that ask for something, in the order of the report: as many
\* as retx_queue takes.
Ordered(s, n) ==
  {order \in [1 .. n -> Asked(s)] :
     /\ \A i \in 1 .. n :
          {m \in Asked(s) : Precedes(s, m, order[i])} = {order[j] : j \in 1 .. i - 1}
     /\ n = Window \/ Asked(s) \subseteq {order[i] : i \in 1 .. n}}

\* The retransmissions a report asks for.
QueuesRetx(s) ==
  \E n \in 0 .. Window : \E order \in Ordered(s, n) :
    retx_queue' = [i \in 1 .. n |-> Retx(order[i])]

Sns(queue) == {queue[i].sn : i \in DOMAIN queue}

\* A report that leaves an SDU unacknowledged takes what was to be sent again
\* out of the queue, while no poll is on its way.
Silences(s) ==
  /\ retx_queue # <<>> /\ ~poll_timer'
  /\ retx_queue' = <<>> /\ DOMAIN tx_window' # {}

ProcessStatus(s) ==
  LET sns  == AckedSns(s)
      kept == Rewind(Restrict(tx_window, DOMAIN tx_window \ sns))
  IN /\ poll_timer' = (poll_timer /\ ~(TxBase(poll_sn) < TxBase(s.ack_sn)))
     /\ tx_next_ack' = Plus(tx_next_ack, Cardinality(sns))
     /\ acked' = acked + Cardinality(sns)
     /\ QueuesRetx(s)
     /\ retx_sn' = NoSn
     /\ tx_window' = Increment(kept, Sns(retx_queue'))
     /\ reported' = (reported \/ Reaches(tx_window', Sns(retx_queue')))
     /\ silent' = (silent \/ Silences(s))
     /\ UpdateMacBufferState

HandleStatusPdu(s) ==
  /\ s \in status
  /\ failed' = (failed \/ Accused(s))
  /\ IF Valid(s)
       THEN ProcessStatus(s)
       ELSE UNCHANGED <<sdu_queue, poll_timer, ackVars, retxVars, tx_window, reported,
                       silent>>
  /\ UNCHANGED <<segVars, poll_sn, pdu_without_poll, byte_without_poll,
                 max_retx_reached, data>>

-----------------------------------------------------------------------------
\* on_expired_poll_retransmit_timer: the oldest SDU is sent again, if nothing
\* else can be.
PollRetransmitExpires ==
  /\ poll_timer /\ poll_timer' = FALSE
  /\ LET retx == [sn |-> tx_next_ack, so |-> 0,
                  length |-> Length(tx_window[tx_next_ack].id)]
         stuck == /\ Exhausted(sdu_queue, retx_queue, sn_under_segmentation, tx_window)
                  /\ InWindow(tx_next_ack)
     IN /\ IF stuck THEN UpdateMacBufferState ELSE UNCHANGED sdu_queue
        /\ IF stuck /\ Len(retx_queue) < Window
             THEN /\ retx_queue' = Append(retx_queue, retx)
                  /\ tx_window' = Increment(tx_window, {tx_next_ack})
                  /\ reported' = (reported \/ Reaches(tx_window', {tx_next_ack}))
             ELSE UNCHANGED <<retx_queue, tx_window, reported>>
  /\ UNCHANGED <<segVars, ackVars, poll_sn, pdu_without_poll, byte_without_poll,
                 retx_sn, failed, max_retx_reached, silent, data>>
=============================================================================
