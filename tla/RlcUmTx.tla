------------------------------- MODULE RlcUmTx -------------------------------
(***************************************************************************)
(* The transmitting RLC UM entity (lib/rlc/rlc_tx_um_entity.cpp) with its  *)
(* lock-free SDU queue (rlc_sdu_queue_lockfree.h), which RLC AM uses too.  *)
(*                                                                         *)
(* Two threads run in it, one action for each access to what they share:   *)
(* the UE executor writes and discards SDUs, the cell executor answers the *)
(* MAC and runs the task that tells the MAC how much there is to send.     *)
(* The queue keeps each SDU in a FIFO, and beside it, in a slot found by   *)
(* its PDCP SN, whether it was discarded; a pair of counters, packed in    *)
(* one word, says how many SDUs and bytes are left.                        *)
(***************************************************************************)
EXTENDS Integers, Sequences, FiniteSets

CONSTANTS
  None,           \* no PDCP SN: a PDCP control PDU
  SNs,            \* PDCP SNs, natural numbers
  Lens,           \* bound: the lengths of the SDUs that there are, in order
  Capacity,       \* of the queue, in SDUs
  ByteLimit,      \* of the queue, in bytes
  CounterMod,     \* 2^32
  HeadFull,       \* bytes of the header of a full SDU
  HeadNotFirst,   \* bytes of the header of a later segment
  MaxDlPdu,       \* MAX_DL_PDU_LENGTH
  Grants,         \* bytes of payload the MAC may ask for in one PDU
  DeferMayFail    \* the queue of the cell executor may be full

ASSUME SizesAssumption ==
  /\ SNs \subseteq Nat /\ None \notin SNs
  /\ Lens \in Seq(Nat \ {0}) /\ Grants \subseteq Nat \ {0}
  /\ Capacity \in Nat \ {0} /\ ByteLimit \in Nat
  /\ CounterMod \in Nat \ {0} /\ MaxDlPdu \in Nat
  /\ HeadFull \in Nat /\ HeadNotFirst \in Nat
  /\ DeferMayFail \in BOOLEAN

\* The queue never holds what the counters cannot count.
ASSUME CounterAssumption == ByteLimit < CounterMod /\ Capacity + 1 < CounterMod

Free == -1
Discarded == -2
Slots == 0 .. Capacity - 1
SduIds == DOMAIN Lens
Sdu == {[id |-> i, sn |-> n, len |-> Lens[i]] : i \in SduIds, n \in SNs \cup {None}}
NoSdu == [id |-> 0, sn |-> None, len |-> 0]

VARIABLES
  fifo, slots,       \* the queue and sdu_states
  nSdus, nBytes,     \* the packed counters
  upc, cur,          \* UE executor: where it is, and with which SDU
  lpc, got, sdu, next_so,  \* cell executor, what it popped, what it sends
  why, bs,           \* what asked for the buffer state, and its bytes
  pending, queued,   \* pending_buffer_state, and the task that it announces
  prev, suspend,     \* prev_buffer_state, suspend_bs_notif_barring
  mac,               \* bytes pending, as the MAC knows it
  written, taken     \* ids of the last SDU written and taken

queueVars == <<fifo, slots>>
counters  == <<nSdus, nBytes>>
upVars    == <<upc, cur, written>>
lowVars   == <<lpc, got, sdu, next_so, why, bs, prev, suspend, mac, taken>>
flagVars  == <<pending, queued>>
vars == <<queueVars, counters, upVars, lowVars, flagVars>>

Init ==
  /\ fifo = <<>> /\ slots = [i \in Slots |-> Free]
  /\ nSdus = 0 /\ nBytes = 0
  /\ upc = "idle" /\ cur = NoSdu /\ written = 0
  /\ lpc = "idle" /\ got = NoSdu /\ sdu = NoSdu /\ next_so = 0
  /\ why = "update" /\ bs = 0 /\ prev = 0 /\ suspend = TRUE /\ mac = 0
  /\ taken = 0 /\ pending = FALSE /\ queued = FALSE

-----------------------------------------------------------------------------
(* The counters.  A borrow of the bytes takes one from the SDUs.           *)

Wrap(n) == n % CounterMod

\* state_add
CountIn(s) ==
  /\ nBytes' = Wrap(nBytes + s.len)
  /\ nSdus' = Wrap(nSdus + 1 + (nBytes + s.len) \div CounterMod)

\* state_sub
CountOut(s) ==
  /\ nBytes' = Wrap(nBytes - s.len)
  /\ nSdus' = Wrap(nSdus - 1 + (nBytes - s.len) \div CounterMod)

-----------------------------------------------------------------------------
(* The UE executor.                                                        *)

SlotOf(sn) == sn % Capacity
SetSlot(sn, v) == slots' = IF sn = None THEN slots ELSE [slots EXCEPT ![SlotOf(sn)] = v]

SlotIsFree(sn) == sn # None => slots[SlotOf(sn)] = Free

WithinLimit(len) == len + nBytes < ByteLimit

\* handle_sdu: an SDU for which there is room takes its slot, where it has an SN.
Write(s) ==
  /\ upc = "idle" /\ s.id = written + 1
  /\ WithinLimit(s.len)
  /\ SlotIsFree(s.sn)
  /\ SetSlot(s.sn, s.sn)
  /\ cur' = s /\ written' = s.id
  /\ upc' = "push"
  /\ UNCHANGED <<fifo, counters, lowVars, flagVars>>

\* of the lock-free FIFO
HasRoom == Len(fifo) < Capacity

PushFails_SlotKept == UNCHANGED slots
\* The slot is given back when the FIFO is full.
PushFails == SetSlot(cur.sn, Free)

Push ==
  /\ upc = "push"
  /\ \/ /\ HasRoom
        /\ fifo' = Append(fifo, cur)
        /\ upc' = "count"
        /\ UNCHANGED <<slots, cur>>
     \/ /\ ~HasRoom
        /\ PushFails
        /\ upc' = "idle" /\ cur' = NoSdu
        /\ UNCHANGED fifo
  /\ UNCHANGED <<counters, written, lowVars, flagVars>>

Count ==
  /\ upc = "count"
  /\ CountIn(cur)
  /\ upc' = "flag"
  /\ UNCHANGED <<queueVars, cur, written, lowVars, flagVars>>

\* The SDUs whose slot, if they have one, is not released yet.
Held == {fifo[i] : i \in DOMAIN fifo} \cup (IF lpc = "release" THEN {got} ELSE {})

\* discard_sdu: the slot still holds the SN, and is marked.
Discard(sn) ==
  /\ upc = "idle"
  /\ slots[SlotOf(sn)] = sn
  /\ SetSlot(sn, Discarded)
  /\ \E s \in Held : s.sn = sn /\ cur' = s
  /\ upc' = "uncount"
  /\ UNCHANGED <<fifo, counters, written, lowVars, flagVars>>

Uncount ==
  /\ upc = "uncount"
  /\ CountOut(cur)
  /\ upc' = "flag"
  /\ UNCHANGED <<queueVars, cur, written, lowVars, flagVars>>

\* handle_changed_buffer_state: one task at a time is enough.
Flag ==
  /\ upc = "flag"
  /\ pending' = TRUE
  /\ \/ pending /\ UNCHANGED queued
     \/ ~pending /\ queued' = TRUE
     \/ ~pending /\ DeferMayFail /\ UNCHANGED queued
  /\ upc' = "idle" /\ cur' = NoSdu
  /\ UNCHANGED <<queueVars, counters, written, lowVars>>

-----------------------------------------------------------------------------
(* The cell executor: pull_pdu.                                            *)

\* The MAC gives grants to a bearer that has something to send.
StartSlot ==
  /\ lpc = "idle" /\ mac > 0
  /\ lpc' = "pull" /\ why' = "query"
  /\ UNCHANGED <<queueVars, counters, upVars, flagVars,
                 got, sdu, next_so, bs, prev, suspend, mac, taken>>

\* A segment, or all of what is left, goes into the PDU.
SendFrom(s, so, grant) ==
  IF s.len - so <= grant
  THEN sdu' = NoSdu /\ next_so' = 0
  ELSE sdu' = s /\ next_so' = so + grant

\* Another PDU for the same transport block, or the end of the slot.
AfterPdu == lpc' \in {"pull", "load"}

Continue(grant) ==
  /\ lpc = "pull" /\ sdu # NoSdu
  /\ SendFrom(sdu, next_so, grant) /\ AfterPdu
  /\ UNCHANGED <<queueVars, counters, upVars, flagVars,
                 got, why, bs, prev, suspend, mac, taken>>

\* read() pops first: until the slot is released, the SDU can be discarded.
Pop ==
  /\ lpc = "pull" /\ sdu = NoSdu /\ fifo # <<>>
  /\ got' = Head(fifo)
  /\ fifo' = Tail(fifo)
  /\ IF Head(fifo).sn = None
     THEN lpc' = "uncount" /\ taken' = Head(fifo).id
     ELSE lpc' = "release" /\ UNCHANGED taken
  /\ UNCHANGED <<slots, counters, upVars, flagVars,
                 sdu, next_so, why, bs, prev, suspend, mac>>

\* read() returns false, but what it popped last stays in the member sdu: an SDU
\* that was discarded goes out with the next PDU, if nothing came after it.
PopNothing ==
  /\ lpc = "pull" /\ sdu = NoSdu /\ fifo = <<>>
  /\ sdu' = got /\ got' = NoSdu
  /\ lpc' = "load"
  /\ UNCHANGED <<queueVars, counters, upVars, flagVars,
                 next_so, why, bs, prev, suspend, mac, taken>>

StillValid_NotChecked(s) == TRUE
\* check_and_release() finds that the SDU was not discarded.
StillValid(s) == slots[SlotOf(s.sn)] = s.sn

Release ==
  /\ lpc = "release"
  /\ SetSlot(got.sn, Free)
  /\ IF StillValid(got)
     THEN lpc' = "uncount" /\ taken' = got.id
     ELSE lpc' = "pull" /\ UNCHANGED taken
  /\ UNCHANGED <<fifo, counters, upVars, flagVars,
                 got, sdu, next_so, why, bs, prev, suspend, mac>>

\* The totals are updated, the upper layer is notified and the PDU is built.
SendNew(grant) ==
  /\ lpc = "uncount"
  /\ CountOut(got)
  /\ SendFrom(got, 0, grant) /\ AfterPdu
  /\ got' = NoSdu
  /\ UNCHANGED <<queueVars, upVars, flagVars, why, bs, prev, suspend, mac, taken>>

-----------------------------------------------------------------------------
(* The cell executor: the buffer state.                                    *)

ClearFlag_AtTheEnd == UNCHANGED pending
\* The flag is cleared before the state is read.
ClearFlag == pending' = FALSE

RunUpdate ==
  /\ lpc = "idle" /\ queued
  /\ queued' = FALSE /\ ClearFlag
  /\ lpc' = "load" /\ why' = "update"
  /\ UNCHANGED <<queueVars, counters, upVars,
                 got, sdu, next_so, bs, prev, suspend, mac, taken>>

\* get_buffer_state: the counters, and the rest of the SDU being sent.
Load ==
  /\ lpc = "load"
  /\ bs' = Wrap(nBytes + nSdus * HeadFull
                + IF sdu = NoSdu THEN 0 ELSE sdu.len - next_so + HeadNotFirst)
  /\ lpc' = "front"
  /\ UNCHANGED <<queueVars, counters, upVars, flagVars,
                 got, sdu, next_so, why, prev, suspend, mac, taken>>

FrontInvalid ==
  /\ sdu = NoSdu /\ fifo # <<>>
  /\ Head(fifo).sn # None /\ ~StillValid(Head(fifo))

\* front() drops what was discarded.
FrontDrop ==
  /\ lpc = "front" /\ FrontInvalid
  /\ SetSlot(Head(fifo).sn, Free)
  /\ fifo' = Tail(fifo)
  /\ UNCHANGED <<counters, upVars, flagVars, lowVars>>

Notifies_NotAfterSmall == bs <= MaxDlPdu \/ prev <= MaxDlPdu
\* update_mac_buffer_state: while much is pending the MAC need not know more.
Notifies == bs <= MaxDlPdu \/ prev <= MaxDlPdu \/ suspend

Report ==
  /\ lpc = "front" /\ ~FrontInvalid
  /\ LET small == suspend \/ bs <= MaxDlPdu IN
     \/ /\ why = "query"
        /\ mac' = bs /\ suspend' = small
        /\ UNCHANGED prev
     \/ /\ why = "update" /\ Notifies
        /\ mac' = bs /\ suspend' = FALSE /\ prev' = bs
     \/ /\ why = "update" /\ ~Notifies
        /\ suspend' = small /\ prev' = bs
        /\ UNCHANGED mac
  /\ lpc' = "idle" /\ bs' = 0 /\ why' = "update"
  /\ UNCHANGED <<queueVars, counters, upVars, flagVars,
                 got, sdu, next_so, taken>>

-----------------------------------------------------------------------------
UpperStep == Push \/ Count \/ Uncount \/ Flag
PullStep ==
  \/ Pop \/ PopNothing \/ Release
  \/ \E g \in Grants : Continue(g) \/ SendNew(g)
StateStep == Load \/ FrontDrop \/ Report

Next ==
  \/ \E s \in Sdu : Write(s)
  \/ \E sn \in SNs : Discard(sn)
  \/ UpperStep
  \/ StartSlot \/ PullStep
  \/ RunUpdate \/ StateStep

Spec == Init /\ [][Next]_vars

\* Both threads go on with what they began; a task that was queued runs, and a
\* bearer of which the MAC knows that it has data is scheduled, among others.
FairSpec ==
  /\ Spec
  /\ WF_vars(UpperStep)
  /\ WF_vars(PullStep \/ StateStep)
  /\ SF_vars(RunUpdate) /\ SF_vars(StartSlot)

-----------------------------------------------------------------------------
(* Properties.                                                             *)

TypeOK ==
  /\ fifo \in Seq(Sdu) /\ Len(fifo) <= Capacity
  /\ slots \in [Slots -> SNs \cup {Free, Discarded}]
  /\ nSdus \in 0 .. CounterMod - 1 /\ nBytes \in 0 .. CounterMod - 1
  /\ upc \in {"idle", "push", "count", "uncount", "flag"}
  /\ cur \in Sdu \cup {NoSdu}
  /\ lpc \in {"idle", "pull", "release", "uncount", "load", "front"}
  /\ got \in Sdu \cup {NoSdu} /\ sdu \in Sdu \cup {NoSdu}
  /\ next_so \in Nat /\ why \in {"update", "query"}
  /\ {bs, prev, mac} \subseteq 0 .. CounterMod - 1
  /\ {suspend, pending, queued} \subseteq BOOLEAN
  /\ {written, taken} \subseteq SduIds \cup {0}

\* What a later read() will find: neither taken nor discarded.
Valid(s) == s.sn # None => slots[SlotOf(s.sn)] = s.sn
Buffered == {s \in Held : Valid(s)}

\* The slot of an SDU is its own, from before it is in the FIFO until after it
\* left it, and no slot is taken by none: else an SDU could be discarded in
\* place of another, or a slot be lost to the queue (sdu_states).
SlotHeld ==
  LET holders == Held \cup (IF upc = "push" THEN {cur} ELSE {}) IN
  /\ \A s \in holders : s.sn # None =>
       /\ slots[SlotOf(s.sn)] \in {s.sn, Discarded}
       /\ \A t \in holders : t.sn # None /\ SlotOf(t.sn) = SlotOf(s.sn) => t = s
  /\ \A i \in Slots : slots[i] # Free =>
       \E s \in holders : s.sn # None /\ SlotOf(s.sn) = i

When(b, n) == IF b THEN n ELSE 0

\* The bytes of the SDUs in S, no two of which have the same id.
Bytes(S) ==
  LET sum[n \in 0 .. Len(Lens)] ==
        IF n = 0 THEN 0 ELSE sum[n - 1] + When(\E s \in S : s.id = n, Lens[n])
  IN  sum[Len(Lens)]

\* Whoever takes an SDU out, by reading or by discarding it, and only he,
\* counts it out, in any interleaving; until then the counters differ from what
\* is buffered by exactly the SDUs that the two threads have in hand.  They
\* may differ by less than nothing, and then they wrap (state_add after push).
CountersAgree ==
  LET n == Cardinality(Buffered) + When(lpc = "uncount", 1)
           + When(upc = "uncount", 1) - When(upc = "count", 1)
      b == Bytes(Buffered) + When(lpc = "uncount", got.len)
           + When(upc = "uncount", cur.len) - When(upc = "count", cur.len)
  IN  /\ nBytes = Wrap(b)
      /\ nSdus = Wrap(n + b \div CounterMod)

\* The queue is linearizable: with the effect of a write at the push, of a read
\* at the release of the slot and of a discard at its mark, each accepted SDU
\* is taken once, in order, or discarded once, and never both.
Offered == IF upc = "push" THEN written - 1 ELSE written
Buffer == INSTANCE SduBuffer WITH buffered <- Buffered, offered <- Offered
KeepsOrder == Buffer!Spec

AtRest == upc = "idle" /\ lpc = "idle" /\ ~queued

\* No wake-up is lost: while nobody is on the way, the MAC knows that there is
\* data exactly when there is, in spite of the updates that are left out
\* because one is pending or because the buffer is large.
MacKnows == AtRest => (mac = 0 <=> Buffered = {} /\ sdu = NoSdu)

\* "pops and drops SDUs that are marked as discarded" (rlc_sdu_queue_lockfree.h,
\* of read()): the SDU being sent was taken.  The code does not keep this one.
SendsWhatItTook == sdu # NoSdu => sdu.id = taken

\* "the already queued task will pick the latest buffer state upon execution"
\* (rlc_tx_um_entity.h, of the flag): while the flag is set there is a task.
\* Not kept either, with DeferMayFail.
FlagHasTask == pending => queued

\* Whatever was accepted is taken or discarded in the end.
AcceptedLeaves ==
  \A i \in SduIds :
    (\E s \in Buffered : s.id = i) ~> ~(\E s \in Buffered : s.id = i)
=============================================================================
