# Specifications of the OCUDU gNB

This directory specifies parts of the 5G gNB in `src/project/ocudu` (C++17, a
descendant of srsRAN Project), the data path of a bearer: the PDCP entities of the
CU-UP, both directions, with the crypto workers they share and the control
procedures that reconfigure them; the RLC UM transmitter of the DU with its
lock-free SDU queue; and the two sides of an RLC AM bearer over a channel that
loses and reorders. The modules are model-checked with TLC on small instances; the
safety of all of them is proved with TLAPS for every instance that meets the
assumptions of section 4.

The repository is a testbed: beside the gNB it holds `src/project/srsRAN_4G`
(an LTE stack whose UE the gNB is tested against) and `src/docs` (reports). Both
are outside of this development.

## 1. The system

One process, or several connected by F1 and E1, runs the layers of the base
station. Every layer is a set of objects without locks. An object belongs to an
*executor*; the executors of one UE are *strands*, queues whose tasks run one at
a time on a pool of threads. Objects on different executors talk by posting
tasks, which fails when a queue is full. Control procedures are *coroutines* that
await events on the executor of their UE.

| Component | State | Operations, and with whom | What is hard | What makes it correct |
|---|---|---|---|---|
| PDCP receiver, `lib/pdcp/pdcp_entity_rx.*` | RX_NEXT, RX_DELIV, RX_REORD; window of SDUs; t-Reordering; tokens; buffer; flags stopped, suspended, buffering, max-count flags | PDUs from F1-U or RLC; crypto workers; SDUs to SDAP or RRC; stop, suspend, resume, reestablish, set_count, configure_security, status report | results of the workers come back in any order, after any reconfiguration; COUNT estimated from the SN; queues that are full; several gaps under one timer | no COUNT delivered twice; in order; what is stored goes up; no gap without a timer; keys never change under a worker |
| PDCP transmitter, `lib/pdcp/pdcp_entity_tx.*` | TX_NEXT, TX_TRANS_CRYPTO, TX_REORD_CRYPTO, TX_TRANS, TX_NEXT_ACK; window of SDUs with the PDUs that wait; two timers; retransmission id; tokens; buffer; flags | SDUs from SDAP or RRC; crypto workers; PDUs to F1-U or RLC; transmit and delivery notifications; status reports; the control operations above | the SDU may be discarded or confirmed while its PDU is with a worker; one discard timer for all SDUs; COUNTs estimated for notifications; retransmission overtakes what is in flight | no COUNT used twice under a key; SDUs kept until confirmed or due; window never wraps |
| Crypto tokens, `lib/pdcp/pdcp_crypto_token.h` | a counter and an event | taken with each PDU, returned wherever the task dies | the last one may come back on a worker, or before stop() | event set by the last one only |
| Bearers of a UE in the CU-UP, `lib/cu_up/pdu_session_manager_impl.cpp`, `ue_context.h`, `routines/` | PDU sessions, DRBs, security configuration | bearer context set-up, modification, release (E1AP); drives SDAP, PDCP, GTP-U, F1-U | awaits the tokens of all bearers in the middle of a procedure; sessions removed meanwhile | quiescence before keys change or objects die; every routine ends |
| CU-UP manager, UE manager, `lib/cu_up/cu_up_manager_impl.cpp`, `ue_manager.cpp` | UEs, E1 connection | creation and release of UEs, resumption requests, E1 loss | resumption racing release | one request per activity, none after release |
| RRC SRB context, `lib/rrc/ue/rrc_ue_srb_context.h` | a PDCP entity with inline executors | send, receive, re-establish | - | as PDCP |
| RLC AM, `lib/rlc/rlc_{tx,rx}_am_entity.cpp` | TX_Next, TX_Next_Ack, POLL_SN, poll counters, TX window, retransmission queue and counts; RX_Next, RX_Next_Highest, RX_Highest_Status, trigger, RX window, cached report; t-PollRetransmit, t-Reassembly, t-StatusProhibit | SDUs from PDCP, PDUs pulled by the MAC, data and status PDUs from the peer | late, lost and reordered reports against a window of SNs that wraps; reports about an SDU that is still being segmented; one timer for all gaps; a cached report; who still owes an answer | SDUs once, whole, acknowledged only when delivered (or when the receiver has no buffers for them); windows in step; never both sides waiting |
| RLC UM transmitter, `lib/rlc/rlc_tx_um_entity.cpp` | the SDU being segmented; what the MAC was told; the flag of a pending update | SDUs and discards on the UE executor, pulls and buffer state on the cell executor | updates left out because one is pending or the buffer is large | no wake-up lost |
| RLC UM receiver, TM | reassembly window and timer | as above, no feedback | segments out of order at a window edge | no SDU made of parts of two |
| RLC SDU queue, `lib/rlc/rlc_sdu_queue_lockfree.h` | wait-free FIFO, slot per PDCP SN, packed SDU and byte counters | written and discarded by one thread, read by another | discard of the element that is being read; two SNs in one slot; counting after publishing | linearizable; counters agree with contents |
| F1-U bearers, `lib/f1u/` | highest transmitted and delivered SN | NR-U messages between PDCP and RLC | notifications of a previous COUNT space | monotone reports |
| GTP-U, `lib/gtpu/` | demultiplexing table, SN reordering window and timer | PDUs of N3 | removal of a tunnel with PDUs in flight | in order, once |
| SDAP, `lib/sdap/` | none | header of QoS flows | - | - |
| CU-CP, `lib/cu_cp/`, RRC UE, `lib/rrc/` | UEs, transactions with timeouts | some sixty coroutine procedures over NGAP, E1AP, F1AP, RRC | timeout racing an answer; two procedures for one UE | each procedure ends, releases what it took |
| NGAP, E1AP, F1AP, XnAP, NRPPa, E2AP | transactions | ASN.1 messages | late answers | one outcome per request |
| DU manager, F1AP of the DU, `lib/du/` | UEs, cells | set-up and release procedures | same as CU-CP | same |
| MAC, `lib/mac/`; scheduler, `lib/scheduler/` | logical channels, HARQ processes | per slot | feedback racing retransmission | HARQ process in one state |
| PHY, RU, FAPI, open fronthaul, radio | buffers per slot | signal processing | real time | out of reach here |
| Timers, `lib/support/timers.cpp` | wheel of timers, front-end per object | run, stop, expiry posted to the executor of the owner | expiry on its way while the owner stops or restarts the timer | no expiry of a stopped run is acted on |
| Executors, coroutines, `include/ocudu/support/executors`, `.../async` | queues, flag of the running thread, awaiters | post, resume | who resumes a coroutine, full queues | one task at a time, none lost |
| ASN.1, containers, security algorithms, ROHC, logging, metrics, pcap, NTN, E2, apps | - | - | data structures, cryptography, I/O | out of this plan |

How the modelled parts interact: an E1AP request starts the modification routine
(`cu_up_bearer_context_modification_routine.cpp`) on the strand of the UE. It
calls `begin_buffering` and `notify_pdu_processing_stopped` on each PDCP entity,
awaits the event of each token manager, suspends or installs keys and calls
`restart_pdu_processing`, re-establishes or sets COUNTs, and calls
`end_buffering`. PDUs, timers and notifications run on the same strand in
between; the crypto workers run beside it.

On the DU side two executors meet in each RLC entity. The UE executor writes and
discards SDUs and runs timers of the receiver; the cell executor answers the MAC
(`pull_pdu`), handles status PDUs and t-PollRetransmit, and runs the task that tells
the MAC the buffer state. They meet in the SDU queue, in the flag
`pending_buffer_state`, and in the report that the receiver keeps for the
transmitter beside it.

The hazards, each at its line, are in `PROJECT.json`; those without a property
say why in a note.

## 2. Modules

| Module | What it is |
|---|---|
| `PdcpSn` | SN, HFN and COUNT arithmetic in 32 bits (scaled: `HfnMod * SnMod` COUNTs), and the window |
| `SduWindow` | the ring of SDUs by COUNT (`sdu_window` over `circular_map`) |
| `PdcpTokens` | the token manager: state and two operations, part of both entities |
| `PdcpRx` | the receiving entity, its executors and its callers |
| `SduDelivery` | what upper layers may rely on: the abstract specification that `PdcpRx` implements |
| `PdcpTx` | the transmitting entity of a DRB, its executors, callers, and what lower layers and the peer tell it |
| `RlcUmTx` | the RLC UM transmitter and its lock-free SDU queue, one action per access to what the two executors share |
| `SduBuffer` | what a transmission buffer owes the layer above: the abstract specification that `RlcUmTx` implements |
| `RlcAmPdu` | SN arithmetic, SDUs, and the two channels of an RLC AM bearer |
| `RlcAmTx`, `RlcAmRx` | the transmitting and the receiving RLC AM entity |
| `RlcAm` | both composed over the channels |
| `AckedDelivery` | what a bearer in acknowledged mode promises: the abstract specification that `RlcAm` implements |
| `MCPdcpRx`, `MCPdcpTx`, `MCRlcUmTx`, `MCRlcAm` | sets for TLC |
| `PdcpRx_proofs` | types, tokens, quiescence, window and timer of `PdcpRx` |
| `PdcpRxDelivery_proofs` | no repetition, order, refinement of `SduDelivery`, no silent loss, authenticity |
| `PdcpTx_proofs` | types, window, COUNTs, keys, discard timer and notifications of `PdcpTx` |
| `RlcUmTx_proofs` | slots, order and counters of the SDU queue, refinement of `SduBuffer`, types, wake-ups |
| `RlcAmPdu_proofs` | SN arithmetic: which SN is which SDU's, and when two are told apart |
| `RlcAmTx_proofs`, `RlcAmRx_proofs` | lemmas about the operators of the two entities |
| `RlcAm_proofs` | every safety property of `RlcAm`, and its refinement of `AckedDelivery` |

A definition `X_Mutation` next to `X` is a wrong version of `X`, used to confirm
that a run would notice it; no specification uses it.

### PdcpRx and the code

State: `rx_next`, `rx_deliv`, `rx_reord`, `rx_window`, the timer and the flags are
the members of the same names. `crypto` holds the tasks on the crypto workers, one
per slot, `ue_queue` the tasks they posted back to the strand, `routine` where the
modification routine is; `key` names the keys that are installed. The ghost
`delivered` lists what went up in the present COUNT space.

* A PDU is identified by the COUNT and key with which the peer sent it; the entity
  sees the SN. `Arriving` lets any such PDU arrive at any time, so loss, repetition
  and reordering need no channel. `PeerInWindow` restricts the COUNTs to those a
  conforming peer can send.
* `HandlePdu` is `handle_pdu` with `handle_data_pdu`; `ApplySecurity(s)` is a
  worker; `SecurityFailure`, `DropPdu`, `StorePdu` are the three outcomes of the
  task that comes back; `ReorderingExpire` the timer. Deciphering succeeds under
  the right key and COUNT; without integrity protection it always does, and the
  SDU delivered then is rubbish (`Authentic`).
* `BeginRoutine`, `Suspend`, `Rekey`, `ModifyBearer`, `EndBuffering`, `Flush` are
  the steps of the modification routine between which the strand may run other
  tasks, or which loop. `StopForRelease` and `Destroy` are the release of the UE,
  `RemoveSession` the removal of one session.
* An SRB has inline executors: one PDU is processed from end to end before the
  next, which `StrandIdle` says.
* A full crypto executor, a full strand and a full buffer drop the PDU, and its
  token comes back.
* `tokens = -1` stands for the counter at UINT32_MAX.
* Assumed of the CU-CP, here and in `PdcpTx`: one modification either re-establishes a
  bearer or sets its COUNTs, and does either only after new keys were installed, while
  `pdu_session_manager_impl.cpp:533-558` would do both, and without security
  information; a resumption comes with new keys, and a change of keys does not
  leave the UE suspended (`cu_up_bearer_context_modification_routine.cpp:60-77`, `118`);
  COUNTs are set before a PDU was delivered (of the transmitter: before an SDU was
  sent), where `pdcp_entity_rx.h:126-129` and `pdcp_entity_tx.h:154-163` warn
  otherwise but set them.

Left out: control PDUs, ROHC, metrics, logging. `resume_required` is recorded
only as `resume_requested`.

### PdcpTx and the code

State as in the code; an element of `tx_window` keeps the tick of arrival and the
key under which the waiting PDU was protected (0 when there is none). Ghosts:
`sent`, `acked`, and `used`, the COUNTs given out under the present key.

* `HandleSdu` is `handle_sdu` on the strand, `ApplySecurity(s)` the worker,
  `SecurityFailure`, `DropPdu`, `StorePdu` the outcomes of `apply_reordering`,
  `CryptoTimeout` the crypto reordering timer, which may expire at any time while
  it runs.
* The discard timer counts ticks. `DiscardExpire` is `discard_callback`: the
  expiry is a task of the strand, so it may come any number of ticks late, and a
  notification may come before it.
* `TransmitNotification`, `DeliveryNotification` and `StatusReport` come from the
  environment: about COUNTs that were submitted, repeated and out of order, not
  older than a window, and never of a previous COUNT space. Only SNs are passed;
  `NotifiedCount` is the estimate of the code.
* `BeginRetransmit` and `Retransmit` are `retransmit_all_pdus`: the loop holds the
  strand while workers run. `DataRecovery` has no caller in production code, only
  in a test.
* `failure` records that an assertion of the code failed, which ends the program
  in builds with assertions; in release builds the read that the assertion guards
  is undefined.

Left out: SRBs and DRBs without a discard timer, ROHC, failure of memory
allocation, the desired buffer size (a drop without effect), the coding and the
validation of status reports, metrics.

### RlcUmTx and the code

`fifo` and `slots` are the queue and `sdu_states` of the SDU queue; `nSdus` and
`nBytes` the two halves of its packed counter, with the borrow from one to the
other. `upc` says where the UE executor is in `handle_sdu` or `discard_sdu`, `lpc`
where the cell executor is in `pull_pdu` or in an update of the buffer state; each
step between is one atomic access of the code.

* `Write`, `Push`, `Count` are `write` (slot, FIFO, counter, in this order);
  `Discard`, `Uncount` are `try_discard`; `Flag` is `handle_changed_buffer_state`.
* `Pop`, `PopNothing`, `Release` are `read`, `SendNew` the rest of `pull_pdu` for an SDU
  that was read; `Continue` the next segment of the SDU being sent; `FrontDrop` the loop
  of `front`.
* `RunUpdate`, `Load`, `Report` are the task that clears `pending_buffer_state`, reads
  the counters and tells the MAC, or does not, as more than a maximum PDU is pending.
* A segment is the progress of `next_so`. The MAC pulls when it was told that there
  is something; it may put several PDUs into one slot.

Left out: grants without room for a byte of payload, stop, metrics, the layout of
PDUs. The wait-free FIFO is taken as linearizable.

### RlcAm and the code

SDU number n has SN `Start + n`, modulo `SnMod`. A PDU names its SDU (a ghost) and
the bytes it carries; a window element of the receiver holds the pairs (SDU, byte) that
it got, so that an SDU pieced together from two would show in `delivered`.

* `HandleSdu`, `DiscardSdu` are the UE executor on the transmitting side. `sdu_queue` holds
  for each SDU whether it is still to be sent: `try_discard` only marks an SDU, and the
  mark leaves with the SDU when `front()` or `read()` comes to it (`Purged`), that is in
  the buffer state towards the MAC when no SDU is being segmented (`DropDiscarded`,
  `UpdateMacBufferState`) and in `build_new_pdu`. Until then `is_empty()` is false, which
  `Exhausted` tests for polls and at the expiry of t-PollRetransmit. The slots of the
  queue, by which a write may be refused, are in `RlcUmTx`.
* `BuildNewPdu`, `BuildContinuedSduSegment`, `BuildRetxPdu` the three branches of
  `pull_pdu`, with `Polls` as `get_polling_bit` and `CountPoll` its bookkeeping;
  `HandleStatusPdu` is `handle_status_pdu` with `Valid` its checks, `AckedSns` the
  acknowledgement loop, `Ordered` and `Retx` `handle_nack` for one NACK after the
  other, `Rewind` the counts taken back;
  `PollRetransmitExpires` is `on_expired_poll_retransmit_timer`.
* `HandleDataPdu` is `handle_data_pdu`: `DropDataPdu` outside the window or received
  already, `PlaceDataPdu` with `ReassembleSdu` (which fails when there are no buffers:
  the SDU is in `lost`, and everything else goes on as if it had been handed up, so
  that its SN is acknowledged; `rlc_rx_am_entity.cpp:226-229`), `Advance`,
  `UpdateReassembly` and `Refresh` (the status report). `ReassemblyExpires` and `ProhibitExpires` are the timers, `SendStatus`
  the status branch of `pull_pdu`, trimmed to what fits into the grant (`Trimmed`).
* `data` and `status` lose PDUs (`Submit`) and hand over any of them next. A PDU that
  outlived its SN is gone (`Fresh`): the lower layers do not keep one while the
  peer moves on by all SNs less a window, which is what the window of half the SN
  space relies on.
* A report is the set of its NACKs and its ACK_SN: the code writes NACKs in the order
  of their SNs and bytes, and `Precedes` restores that order where it counts, in
  the first NACK (`FirstNack`) and in the retransmission queue (`Ordered`).
* An expiry is one step with its handler: `timers.cpp:504` changes the state of the
  timer on the executor of the owner, right before the callback.
* Ghosts: `taken`, `acked`, `passed` count SDUs; `reported`, `failed` record what upper
  layers were told; `silent` that a poll was forgotten, in the ways of section 5.

Left out: stop, the buffer state towards the MAC beyond what it takes out of the queue
(the state of UM is in `RlcUmTx`), the
triple buffer in which the report passes from one executor to the other (taken as
atomic), `max_window` (0, that is, off), NACKs for a range of SNs (given one by one, so that
what trimming makes of a range, `rlc_am_pdu.cpp:64-133`, is what it makes of its SNs),
failures of allocation other than that of the reassembly, metrics, and the test hook
`RLC_TEST_SCENARIO` of `handle_data_pdu`, whose drops are the losses of the channel.

## 3. Runs

The PDCP instances have two crypto slots (one where stated), a strand queue of one
task and a buffer of one SDU, so that every queue is full at times. Slots are
interchangeable, and TLC uses that symmetry in the safety runs. Deadlock is not
checked: peer and CU-CP may stop, a destroyed entity does nothing, and a bearer
without SDUs rests. That nothing stops which should go on is what the liveness
properties and `PollsOrSilent`, `MacKnows` say.

| Run | Instance | Shows |
|---|---|---|
| `PdcpRxReorder` | AM, integrity, window 4, 2 keys, suspension, COUNTs 0, 1, 3, 8 | window, first missing COUNT, timer with several gaps, no silent loss |
| `PdcpRxZeroReordering` | 0 ms, no integrity, window 2, COUNTs 0-8, peer in window | the estimate is right across two wraps; order |
| `PdcpRxSrb` | SRB, 2 keys, COUNTs 0-4 | refinement of `SduDelivery` with inline executors |
| `PdcpRxLive` | UM, 2 keys, suspension, release, COUNTs 0 and 2, fair | types; keys; destruction; refinement of `SduDelivery`; stored SDUs go up; routines end; stopped entities are destroyed |
| `PdcpTxAm` | AM, window 4, 4 COUNTs, status reports, a data recovery | window bounds; SDUs kept until settled |
| `PdcpTxWrap` | AM, one slot, COUNTs 0-2 or 6-8, 2 keys | confirmed SDUs leave across the wrap; keys |
| `PdcpTxDiscard` | UM, discard time 2 ticks, 4 ticks, suspension | the timer runs for the oldest SDU; none early |
| `PdcpTxLive` | UM, failing workers, 2 keys, suspension, release, fair | PDUs leave; routines end; no COUNT twice under a key |
| `PdcpTxAbsentRetx` | violated | a delivery notification after a re-establishment makes the next PDU read an absent element |
| `RlcUmTx` | 3 SDUs of 2, 1, 2 bytes, queue of 2, SNs 0 and 2 in one slot or none, fair | slots; counters; refinement of `SduBuffer`; no lost wake-up; every SDU leaves |
| `RlcAm` | window 2 of 4 SNs, SDUs of 1, 1, 2 bytes over the wrap, grants of 1 and 2, 2 PDUs and 2 reports on their way, discards, the last two SDUs may be lost in reassembly, both poll counters, 1 retransmission | windows of both sides; reports neither misread nor stale; timers; polls; refinement of `AckedDelivery` |
| `RlcAmLive` | SDUs of 4 and 1 bytes, grants of 1, one PDU on its way, reports of one SN, fair | types; retransmissions never overtake; everything is acknowledged or given up with notice |

The largest, `PdcpTxWrap`, has 637,380 distinct states; `RlcAm` has 335,390.

**Bounds.** A window of 4 SNs of 8 lets two separate gaps be open; a window of 2 of 4
makes wraps cheap. COUNTs on both sides of a wrap reach each branch of both
estimates. Two keys show what of the old one survives. `MaxTick` is one discard
time after the last that matters. `MaxRetransmit` is 1 in the passing runs: a
second retransmission begins in the state in which the first one may. The hard
maximum COUNT is a parameter of the code too, so a small one is an instance, not a
cut. In `RlcUmTx` a queue of two with two SNs in one slot reaches a full FIFO, a
slot that is taken and a queue whose every element was discarded; three SDUs let
one be sent, one be discarded and one be written at a time. In `RlcAm`, `Start` puts
the wrap of the SNs among the first SDUs; two PDUs on their way overtake each other;
`Mixed` has two full SDUs and one in segments that needs the window to move. A
discarded SDU stays behind one that is pulled and holds its poll back there; that it
does so while another SDU is being segmented takes one SDU more, and is left to the
theorem `PollOnItsWay`. `MayBeLost` names the SDUs for which the receiver may run out of
buffers, two of the three in `RlcAm` and none in `RlcAmLive`, where all are to arrive.
`CountsBounded` has the upper layers release the bearer once they are told of the
maximum number of retransmissions, before one more is counted. The bounds that the code
does not have are `PeerCounts`, `StartCounts`, `MaxKey`, `MaxTick`, `MaxRetransmit`,
`Lens` of `RlcUmTx` and of `RlcAmPdu`, `MaxInFlight`, `MayBeLost`; each is a guard. That
they are large enough is supported by a mutation for each property that the same
instance detects (`PROJECT.json`).

**Fairness.** In PDCP (`FairSpec`): weak fairness of each crypto worker, of the tasks
queued on the strand, of the two reordering timers once they run, and of the
continuation of routines and loops. The executors run what they accepted and the
timer manager ticks; none is assumed of peer, lower layers or CU-CP. Weak is
enough, as a task stays enabled until it runs. In `RlcUmTx`: both threads go on with
what they began (weak); the queued task runs and a bearer with pending bytes is
scheduled, although other work of the cell executor comes between (strong). `Write`
and `Discard` are free. In `RlcAm`, only weak fairness of `Work`, all that is not a
decision of the upper layers, nor `Drop`, which the MAC need not ask for: as long as
the MAC, an executor or a timer has something to do, one of them does it. The channel
may lose everything.

## 4. Proofs

`PdcpRx_proofs` proves, for all values of the constants that satisfy the named
assumptions of the modules:

* `TypeCorrect`: `Spec => []TypeOK`.
* `TokensCounted`: the number of tokens is the number of tasks in flight, plus one
  while the entity processes PDUs. This is the strengthening from which
  `Quiescence`, `KeysSafe` and, when sessions are not removed one by one
  (`"session_removal" \notin Removals`), `ReleaseSafe` follow: the event alone says
  nothing about the tasks, the count does. Section 5 shows that the assumption is
  needed.
* `Inductive`, `WindowSafe`, `FirstIsMissing`, `GapsClose`: the stored SDUs lie in
  `RX_DELIV .. RX_NEXT - 1`, fewer than the window, RX_DELIV itself is missing, and a gap has a
  running timer.
  They rest on `UnderflowRefused`: an estimate with HFN -1 is refused, by the hard
  maximum or by integrity protection. `RcvdCountBound` bounds the estimate,
  `SlotsApart` and `AddSnKeeps` say that two COUNTs of a window do not share a slot.

`PdcpRxDelivery_proofs` adds the history: `HistoryInductive` (what was delivered lies
below RX_DELIV), from it `NoReuse`, `DeliveredInOrder`, `NothingLost` and `Implements`,
the refinement of `SduDelivery`, step by step; and `AuthenticCount`, which assumes
integrity protection.

`PdcpTx_proofs` does the same for the transmitter, for both RLC modes and with every
optional behaviour (failing workers, status reports, data recovery, suspension,
release) on or off. Its invariant `TxInv` has four parts beside `TypeOK`.
`CtrlInv` says where the strand is: the entity buffers from the start of a
procedure to its `end_buffering`, and between the replacement of the keys and
`end_buffering` no COUNT is used yet; `CountsFresh` (`Spec => []NoCountReuse`)
follows. `WindowOrdered` needs the early drop one COUNT before the window is full
and the two ways in which the lower edge moves, and gives `WindowKept`. `AgeInv`,
SDUs are stored in the order of their arrival, keeps the restarted discard timer
within its type. `TokenInv` counts tokens as in the receiver, but the
retransmission loop puts tasks in flight in the middle of a procedure, after the
keys were replaced; `KeysSafe` (`Spec => KeysReplacedWhenDrained`) follows.
`TypeCorrect` is proved only; no run checks `TypeOK` of `PdcpTx`.

The second half of the module is about what leaves the window. `KindsOfSteps` reduces
the twenty-one actions to the seven things that a step may do to the SDUs kept
(`Keeps`, `Adds`, `Expires`, `Settles`, `Reports`, `Restarts`, `Stops`), and
`NotifiedExact` shows that the COUNT estimated from a notified SN is right up to a
window away from TX_NEXT_ACK on either side. Then

* `TimerRuns` (`Spec => []OldestHasTimer`) holds in every instance. `EdgeInv` is the
  invariant: with a finite discard time the lower edge of the window is stored, and the
  timer runs. That the edge is stored is half of what the comments want (`OldestInWindow`
  of section 5); it is kept at the price of the assertion `absent_element`, which ends
  the program where a confirmation would leave it otherwise.
* `ConfirmedGone` (`Spec => []ConfirmedLeaves`) assumes a finite discard time, UM, or no
  status reports. Without a discard time nothing asserts that the edge is stored, and
  only the order of the confirmations does (`WholeInv`: the window has no holes).
* `KeptLongEnough` (`Spec => KeptUntilSettled`) assumes `TimerFollows`: with a finite
  discard time, no status reports in AM, and no re-establishment in UM (`MaxKey = 1`).
  `TimelyInv` is the invariant: the timer is at or after the discard time of the
  oldest SDU, and stopped when there is none.

Section 5 has an instance without each of the two assumptions in which the property
fails.

`RlcUmTx_proofs` proves `SlotsOwned`: `Spec => []SlotHeld`. The invariant speaks of
sets of SDUs, which cannot tell the same SDU twice from once. `QueueInv` lines up the
places where an SDU may hold a slot instead (popped, in the FIFO by position, about to
be pushed) and says that no two places share a slot, that each holds its slot, and that
each slot taken is held. Every step then makes an SDU join the line at its end
(`WriteKeeps`), leave it (`LeavingKeeps`), or move on in it (`StayingKeeps`). It needs
no assumption on how SDUs, SNs and the capacity relate.

`ReadsInTurn` adds the order: `OrderInv` says that the ids ascend along the line and
are all above `taken`, so `read()` takes the first that was not discarded, and whatever
leaves the line was taken, discarded or refused by a full FIFO. That is what
`KeepsOrder` says of the order of SDUs, stated on the line, and `Implements`
(`Spec => KeepsOrder`) is that property itself: with the refinement mapping that takes
`Buffered`, the SDUs that are in the queue and whose slot is not marked, for what an
`SduBuffer` holds, every atomic step of the two threads is one of its operations or a
stutter. `LineInv` is `QueueInv`, `OrderInv` and `OfferInv`, by which the SDU that is
about to be pushed is the last that was written and has its slot already; so the push
is where it is offered. A push is an `Accept` or, with the FIFO full, a `Refuse`; a mark
is a `Discard`; the pop of an SDU without an SN, or the release of a slot that was not
marked, a `Take`; everything else (the pop of an SDU with an SN, `FrontDrop`, the release
of a marked slot) leaves `Buffered` as it is. `TypeCorrect` bounds the counters and the
FIFO.

`CountersExact` (`Spec => []CountersAgree`) is the same statement as its invariant
(`CountInv`), given `LineInv`: no two SDUs in the queue have one id, so one more, or one
less, changes `Cardinality(Buffered)` by one and `Bytes(Buffered)` by its length. `Bytes`
is a recursive function over ids; what is proved about it needs an induction, which is
taken from the well-foundedness of the natural numbers, for a set that has 0 and with
each number the next (`Induction`). The other half is arithmetic: `Carry` says that the
two halves of the word, with the carry and the borrow between them, add up like two
integers whatever wraps on the way. It rests on the uniqueness of quotient and remainder
(`Unique`), as the solver knows nothing of `%` by a divisor that is not a literal.

`WakeUps` (`Spec => []MacKnows`) assumes `~DeferMayFail`, without which the code does not
keep it (section 5), and `BufferStateFits`: the limit of the queue in bytes twice (what is
buffered, and an SDU being sent), a header for each SDU of its capacity and one more are
less than 2^32. With the sizes of `du_qos_config_helpers.h` they are some 12.4 million;
the instance TLC checks has 15 of 16. `LimitInv` says that what is counted, with the SDU
that is about to be, is within the limit: `Write` checks it against a counter that is
exact by then (`BytesExact`). So a buffer state does not wrap to zero, and one read while
the UE executor is at rest is zero exactly when nothing is left (`LoadExact`). `WakeInv`
carries that to what the MAC knows. While `pending_buffer_state` is set a task is queued;
without one, and with the UE executor idle or before its push, what the cell executor has read
(`bs`), or told last (`mac`), is right; and where the notification of a large state may
be left out, the MAC was told of one before.

`RlcAm_proofs` proves all safety properties of the composed bearer, for every size of
the SNs and of the window, all SDUs and grants, and any number of PDUs on their way.
It assumes `AmAssumption` and `TxAssumption`: the SNs are at least two windows
(`SnMod >= 2 * Window`, in the code exactly two) and the window has two SDUs or more
(2048 or 131072 in the code; with a window of one, t-PollRetransmit would send an SDU
again whole while it is still being segmented, and its acknowledgement would take it
from under the segmentation: TLC finds this in seven steps). The one thing
assumed of the channel is `Fresh`.

Nothing that the entities compare as SNs is inductive by itself: an SN names an SDU only
together with the bounds of the window of the one who reads it, and these are in the
state of the other side. `IInv` therefore counts SDUs from the start of the
bearer, `SnOf(i)` being the SN of SDU i, and has four parts:

* `TxInv`: the window is `acked .. taken - 1`, without holes; the SDU being segmented
  is the last; what is queued was sent; counts at the maximum are reported;
  `QueueOk`, no poll is promised (`silent`) while nothing but discarded SDUs is in the
  queue; `LastPolled`, the last SDU taken carried a poll if the queue is empty. From the
  two a report can stop t-PollRetransmit only when it acknowledges everything or asks
  for something: where no poll was held back, what `is_empty()` says and what there
  is to send are the same (`PurgedExhausts`, `QueueGone`).
* `RxInv`: `acked <= passed <= Status <= High <= taken`, where RX_Next is the SN of SDU
  `passed`, RX_Highest_Status of `Status`, RX_Next_Highest of `High`; no byte is stored that was
  not sent; what was handed up or lost in reassembly is exactly the SDUs that
  are complete; the timer.
* `DataInv`: each PDU on its way has bytes of its SDU that were sent, under its SN, and
  is fresh, so that the receiver's comparison with RX_Next tells an old SN from a new.
* `StatusInv`: each report speaks of SDUs up to some count `at`, acknowledges only below
  what RX_Next was then (`Spans`), and its NACKs ask for bytes that were sent
  (`NackOk`). It is kept while the transmitter moves on, since SDUs below the first
  NACK are all that a report acknowledges; `NoFalseAccusation`, the least obvious
  result, follows, also for a NACK that asks for the rest of an SDU that is still being
  segmented.

`BaseAhead`, `BaseBehind`, `SnDiffer` and `RangeUnique` of `RlcAmPdu_proofs` are the
arithmetic beneath: two SNs less than a cycle apart are of different SDUs, and
`(sn - edge) % mod` is their distance. `NackFacts`, `ReportFacts`, `TrimmedFacts` say
what the receiver's report says of its window, `FirstIncompleteFacts` where RX_Next and
RX_Highest_Status come to stand. `Implements` maps each step: a pull that
begins an SDU is `SendNext`, a data PDU that completes one `Deliver` or `Lose`, a status
PDU `Acknowledge`, everything else a stutter. Where the code's loops go to the first SN
of a kind, the proofs take the least element of a set of naturals, which needs only
well-foundedness (`LeastNat`), not induction over an operator.

Every safety property of the passing runs, and each of the three refinements, is stated by
a theorem. Only model-checked is liveness, which the prover does not reach
(`StoredIsReleased`, `StoppedIsDestroyed`, `PduLeaves`, `AcceptedLeaves`, `Settled`, and
`RoutineCompletes` of both PDCP entities).

## 5. Where code and documentation disagree

One run is a counterexample that TLC finds (`findings` in `PROJECT.json`).

### PDCP

The last section of `PdcpTx` states further sentences of comments, headers and
assertions that the code does not keep. No run is kept for them; each is violated
as an invariant (or action property) of `PdcpTx` with `SnMod = 8`, `HfnMod = 2`,
`MaxCountHard = 4`, two slots and

| Property | Instance | Behaviour |
|---|---|---|
| `OldestInWindow` | AM, `StatusReports` | a status report acknowledges COUNT 1, a delivery notification COUNT 0: TX_NEXT_ACK stops at 1, which is gone, and later notifications are ignored (`pdcp_entity_tx.cpp:1312`) |
| `NoAbsentAccess` | UM, `DiscardTicks = 1` | the discard timer removes an SDU whose PDU is with a worker; the next PDU reads it (`:416`) |
| `PendingDropped` | AM, `MaxKey = 2`, `MaxRetransmit = 1` | a PDU under the old key waits behind a gap during a re-establishment, and goes down later as it is (`:973`) |
| `LateDiscarded` | AM | a PDU that comes after the crypto reordering timeout is stored (`pdcp_entity_tx.h:351`) |
| `ResetDropsTimer` | UM, `DiscardTicks = 2`, `MaxKey = 2` | the re-establishment leaves the discard timer running (`:952`) |
| `TimeoutInRange` | AM, `DiscardTicks = 1`, `MaxTick = 3` | a notification that overtakes an overdue expiry computes a negative timeout (`:1346`) |
| `KeptUntilSettled` | AM, `StatusReports`, `DiscardTicks = 2` | a status report removes the oldest SDU, and its timer discards the next one early (`:1353`) |
| `ReordAhead` | AM, `DiscardTicks = 1`, `MaxKey = 2`, `MaxRetransmit = 1` | a re-establishment moves TX_TRANS_CRYPTO past TX_REORD_CRYPTO while the timer runs; its loop counts through 2^32 (`:1448`) |

This is why `KeptUntilSettled` and `ConfirmedLeaves` are checked on instances without
the operation that breaks them: UM re-establishment (it fails in the instance of
`ResetDropsTimer` too), and status reports.
(`ConfirmedLeaves` fails as `OldestInWindow` does, and as `ConfirmedGone` says only
without a discard time.)

In `PdcpRx`, `WindowBounded` fails with `IntegrityEnabled = FALSE` and a hard maximum
just below the top of the COUNT range, which is what production code configures
(`include/ocudu/pdcp/pdcp_config.h:86`; the lower default at line 79 is used by
tests only): an estimate with HFN -1 is accepted. `WindowSafe` proves that a lower
maximum, or integrity protection, suffices.

Two more of `PdcpRx`, with the constants of `PdcpRxReorder`:

* `RrcNotifiedOfMaxCount` (`MaxCountNotify = 1`, COUNTs 0-4, two keys): the notification
  of the maximum COUNT is latched, and after one refresh of the keys RRC is never
  notified again (`pdcp_entity_rx.cpp:348`, `pdcp_entity_tx.cpp:276`; the comment at
  `pdcp_entity_rx.cpp:344` relies on the notification to have the keys refreshed).
* `DestroyedWhenDrained` (`Removals` with `"session_removal"`): the removal of a single
  PDU session erases the entity with tasks in the crypto workers
  (`pdu_session_manager_impl.cpp:623`); `ue_context::stop` awaits the tokens, this does not.

From reading, outside of the models: the padding check of a status report
(`pdcp_entity_tx.cpp:594`) refuses reports whose bitmap is shorter than the longest
possible one, or whose number of COUNTs is a multiple of 8; a PDU that arrives
while the suspension awaits the crypto workers is buffered before the entity counts as
suspended, and does not ask for the resumption (`pdcp_entity_rx.cpp:200`);
`handle_pdcp_resume_required` logs that it ignores a UE that is being released, and goes
on (`cu_up_manager_impl.cpp:254`).

### RLC

* *A poll is forgotten.* t-PollRetransmit expires and queues the oldest SDU again; a
  report without NACKs, sent before, then clears the queue
  (`rlc_tx_am_entity.cpp:759-770`). No timer runs, no poll is on its way, and the
  oldest SDU waits until the upper layers bring a new one, although the comment at
  `:1146-1153` wants it to be considered for retransmission with a poll.
* *A poll is held back.* A discarded SDU stays in the queue until its end is looked at,
  which does not happen while another SDU is being segmented. Alone in the queue, it is
  not to be sent and not counted in the buffer state, but `is_empty()` is false: the
  last PDU does not poll (`:1088`) and the expiry of t-PollRetransmit retransmits
  nothing (`:1154`). The SDUs that were sent wait for an answer that nobody asked for.
  The same follows at once when the SDU behind which a PDU did not poll is discarded.
* `silent` marks both. It is set by such a report (`Silences`), and whenever only discarded
  SDUs are in the queue after a discard or a PDU (`OnlyDiscarded`), and lasts until, with the
  queue not in that state, there is a poll on a new PDU, or on a retransmission while
  POLL_SN is the last SN already: a poll on a retransmission does not move POLL_SN
  (`:1108`; the comment at `:1102` sets it to the highest SN that was submitted), so that a report past the old
  POLL_SN stops the timer while later SDUs, not polled for, are still not acknowledged.
  `PollOnItsWay` proves, and `PollsOrSilent` and `Settled` check, that nothing else leads
  there. Without `\/ silent` both are violated.
* *An SDU is acknowledged and lost.* When the receiver has no buffers to reassemble an
  SDU that it has in full, it drops it and moves on (`rlc_rx_am_entity.cpp:226-229`),
  and the transmitter is told that the SDU arrived. `AckedDelivery` allows it for the
  SDUs of `MayBeLost` alone; with `MayBeLost = {}` it is the promise without exception.
* BYTE_WITHOUT_POLL counts nothing for a full SDU: its length is read after the SDU was
  moved into the window (`rlc_tx_am_entity.cpp:253`, `:283`), while the comment at
  `:1061` counts every new byte. `BuildNewPdu` does as the code does.
* `src/docs/rlc_am_detailed_analysis.md:19-22` says that an SDU out of order stays
  buffered until the missing SNs arrive; the code hands it up at once
  (`rlc_rx_am_entity.cpp:224-236`), and so does `PlaceDataPdu`.
* The comment at `rlc_rx_am_entity.cpp:292-300` does not stop t-Reassembly when its trigger
  is RX_Next plus the window; the code stops it there too, and starts it again. Only the
  time differs.
* retx_count may pass max_retx_thresh before the release takes effect; the test for
  equality (`rlc_tx_am_entity.cpp:565`) then misses it and the entity goes on.
* Where a failure is handed to the upper layers, the result of `defer` is tested the
  wrong way round: the log says "failed" when it worked (`:897`, `:904`, `:912`, `:1256`).
* *A discarded SDU is sent.* `pull_pdu` of UM lets `read` pop into its member `sdu`
  (`rlc_tx_um_entity.cpp:122`). When the last SDU popped was discarded, `read` returns
  false and leaves it there (`rlc_sdu_queue_lockfree.h:163-183`); the next PDU sends it,
  without the notification that a transmission began, although it was counted out and
  the comment at `:147` says that `read` drops it. `SendsWhatItTook` of `RlcUmTx` is
  violated by: write, update, discard, pull. AM reads into a local variable.
* `pending_buffer_state` stays set when the cell executor refuses the task
  (`rlc_tx_um_entity.cpp:281`, and AM): no later SDU asks for an update.
  `FlagHasTask` of `RlcUmTx` is violated with `DeferMayFail = TRUE`; the comment at the
  flag promises a queued task.
* When the UE executor has no room to start t-StatusProhibit, the flag that says it
  runs stays set (`rlc_rx_am_entity.cpp:661`): no report is sent any more.
* The report passes through three buffers and a flag beside them. The flag is reset
  before the buffers are exchanged (`rlc_rx_am_entity.cpp:653`), so a refresh in between
  is answered twice, the second time with the buffer that the reader gave back;
  `rlc_am_interconnect.h:21-28` promises the latest. From reading.
* `valid_ack_sn` also accepts an ACK_SN a whole window ahead, and a report about SNs a
  whole cycle old would pass; `Fresh` is the assumption that none lives so long.

## 6. What is not modelled

The proportion of the repository that is modelled is small, and will stay so: of its
2.4 million lines most are generated ASN.1 packing, a vendored LTE stack, signal
processing, and message translation. Of the protocol state machines, in the order in
which they would be worth it:

1. `PdcpStatus`: compiling a status report against its validation and effect, over
   bounded bitmaps (`PdcpTx` takes the reports as honest and always well-formed).
2. A link of `PdcpTx`, `RlcAm` and `PdcpRx`: each has an abstract specification that the
   others could use; the state space of the composition is out of TLC's reach without
   it, and the notifications between RLC and PDCP pass the F1-U bearers, not modelled.
3. The triple buffer of the status report and the wait-free FIFO, at the level of the
   memory model.
4. F1-U bearers, GTP-U receiver (SN reordering), RLC UM receiver: smaller relatives of
   what is here.
5. Timers and strands as specifications of their own; here they are assumptions
   (one task at a time; an expiry changes the timer right before its handler).
6. HARQ entities of the scheduler; transactions with timeouts of RRC and CU-CP; the
   E1AP procedures around the modification routine.

Signal processing, radio and fronthaul are real-time numeric pipelines without a finite
model worth the name; ASN.1 is generated; SDAP and TM keep no state.
