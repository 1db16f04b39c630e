------------------------------ MODULE RlcAmRx ------------------------------
(***************************************************************************)
(* The receiving RLC AM entity (lib/rlc/rlc_rx_am_entity.cpp).  It runs on *)
(* the UE executor; its transmitting side sends the report that it keeps.  *)
(***************************************************************************)
EXTENDS RlcAmPdu, FiniteSetsExt, Functions, Bags

CONSTANTS
  MaxSnPerStatus,       \* max_nof_sn_per_status_report
  MayBeLost             \* bound: SDUs for which the buffers may run out

ASSUME RxAssumption ==
  MaxSnPerStatus \in 1 .. Window /\ MayBeLost \subseteq SduIds

VARIABLES
  rx_next, rx_next_highest, rx_highest_status, rx_next_status_trigger,
  rx_window,          \* SN -> the bytes stored, and whether the last is there
  reassembly_timer,   \* t-Reassembly is running
  report,             \* the status report for the transmitting side
  do_status,
  status_prohibit,    \* t-StatusProhibit is running
  delivered,          \* bag of the SDUs delivered, byte for byte
  lost,               \* SDUs that could not be reassembled
  passed              \* SDUs below rx_next, ever

rxVars == <<rx_next, rx_next_highest, rx_highest_status, rx_next_status_trigger,
            rx_window, reassembly_timer, report, do_status, status_prohibit,
            delivered, lost, passed>>

RxInit ==
  /\ rx_next = Start /\ rx_next_highest = Start /\ rx_highest_status = Start
  /\ rx_next_status_trigger = 0
  /\ rx_window = <<>>
  /\ reassembly_timer = FALSE
  /\ report = [ack_sn |-> Start, nacks |-> {}]
  /\ do_status = FALSE /\ status_prohibit = FALSE
  /\ delivered = EmptyBag /\ lost = {}
  /\ passed = 0

Inside(sn, next) == Base(sn, next) < Window

Offsets(got) == {b[2] : b \in got}
Contiguous(got) == \A o \in Offsets(got) : 0 .. o \subseteq Offsets(got)

\* update_segment_inventory
FullyReceived(window, sn) ==
  /\ sn \in DOMAIN window
  /\ window[sn].end /\ Contiguous(window[sn].got)
HasGap(window, sn) ==
  /\ sn \in DOMAIN window
  /\ ~Contiguous(window[sn].got)

Bytes(pdu) == {pdu.id} \X (pdu.from .. pdu.to)

\* handle_full_data_sdu, handle_segment_data_sdu and store_segment: a segment
\* is kept as far as its bytes are not there yet.
Stores_NewSnOnly(pdu) == pdu.sn \notin DOMAIN rx_window
Stores(pdu) ==
  \/ IsFull(pdu) \/ pdu.sn \notin DOMAIN rx_window
  \/ ~(pdu.from .. pdu.to \subseteq Offsets(rx_window[pdu.sn].got))

Store(pdu) ==
  LET old  == IF pdu.sn \in DOMAIN rx_window THEN rx_window[pdu.sn]
              ELSE [got |-> {}, end |-> FALSE]
      more == {b \in Bytes(pdu) : b[2] \notin Offsets(old.got)}
      new  == IF IsFull(pdu) THEN [got |-> Bytes(pdu), end |-> TRUE]
              ELSE [got |-> old.got \cup more,
                    end |-> old.end \/ (Stores(pdu) /\ IsLast(pdu))]
  IN Put(rx_window, pdu.sn, new)

\* The first SN from one on that is not fully received, up to another.
FirstIncomplete(window, from, to, next) ==
  LET stops == {k \in 0 .. Window :
                  \/ Base(Plus(from, k), next) >= Base(to, next)
                  \/ ~FullyReceived(window, Plus(from, k))}
  IN Plus(from, Min(stops))

-----------------------------------------------------------------------------
(* refresh_status_report *)

NacksOf(window, sn) ==
  IF sn \notin DOMAIN window
    THEN {[sn |-> sn, from |-> 0, to |-> EndOfSdu]}
    ELSE LET offs   == Offsets(window[sn].got)
             starts == {o \in offs : o > 0 /\ o - 1 \notin offs}
             gap(o) == [sn |-> sn, to |-> o - 1,
                        from |-> Max({-1} \cup {b \in offs : b < o}) + 1]
             rest   == [sn |-> sn, from |-> Max(offs) + 1, to |-> EndOfSdu]
         IN {gap(o) : o \in starts} \cup (IF window[sn].end THEN {} ELSE {rest})

Report(window, next, highest_status) ==
  LET stop == IF Base(highest_status, next) > MaxSnPerStatus
                THEN Plus(next, MaxSnPerStatus) ELSE highest_status
      missing == {k \in 0 .. Base(stop, next) - 1 : ~FullyReceived(window, Plus(next, k))}
  IN [ack_sn |-> stop, nacks |-> UNION {NacksOf(window, Plus(next, k)) : k \in missing}]

Refresh == report' = Report(rx_window', rx_next', rx_highest_status')

-----------------------------------------------------------------------------
(* handle_data_pdu *)

\* A poll is answered even if the PDU is not new.
Requested(pdu) ==
  /\ do_status' = (do_status \/ pdu.p)
  /\ IF pdu.p THEN Refresh ELSE UNCHANGED report

DropDataPdu(pdu) ==
  /\ \/ ~Inside(pdu.sn, rx_next)
     \/ FullyReceived(rx_window, pdu.sn)
  /\ UNCHANGED <<rx_next, rx_next_highest, rx_highest_status,
                 rx_next_status_trigger, rx_window, reassembly_timer,
                 delivered, lost, passed>>
  /\ Requested(pdu)
  /\ UNCHANGED status_prohibit

Advance_StatusStays(window, sn) ==
  /\ UNCHANGED rx_highest_status
  /\ rx_next' = IF sn = rx_next
                  THEN FirstIncomplete(window, sn, rx_next_highest', rx_next)
                  ELSE rx_next
  /\ passed' = passed + Base(rx_next', rx_next)
  /\ rx_window' = Restrict(window, {s \in DOMAIN window :
                             Base(s, rx_next) >= Base(rx_next', rx_next)})
\* rx_highest_status, rx_next and the window, after an SDU is complete.
Advance(window, sn) ==
  /\ rx_highest_status' =
       IF sn = rx_highest_status
         THEN FirstIncomplete(window, Plus(sn, 1), rx_next_highest', rx_next)
         ELSE rx_highest_status
  /\ rx_next' = IF sn = rx_next
                  THEN FirstIncomplete(window, sn, rx_next_highest', rx_next)
                  ELSE rx_next
  /\ passed' = passed + Base(rx_next', rx_next)
  /\ rx_window' = Restrict(window, {s \in DOMAIN window :
                             Base(s, rx_next) >= Base(rx_next', rx_next)})

StopsReassembly ==
  \/ rx_next_status_trigger = rx_next'
  \/ /\ rx_next_status_trigger = Plus(rx_next', 1)
     /\ ~HasGap(rx_window', rx_next')
  \/ ~Inside(rx_next_status_trigger, rx_next')

Awaits_SdusOnly(from) ==
  Base(rx_next_highest', rx_next') > Base(Plus(from, 1), rx_next')
\* t-Reassembly has something to wait for, from an SN on.
Awaits(from) ==
  \/ Base(rx_next_highest', rx_next') > Base(Plus(from, 1), rx_next')
  \/ /\ rx_next_highest' = Plus(from, 1)
     /\ HasGap(rx_window', from)

UpdateReassembly ==
  IF reassembly_timer /\ ~StopsReassembly
    THEN UNCHANGED <<reassembly_timer, rx_next_status_trigger>>
    ELSE /\ reassembly_timer' = Awaits(rx_next')
         /\ rx_next_status_trigger' =
              IF Awaits(rx_next') THEN rx_next_highest'
              ELSE rx_next_status_trigger

\* reassemble_sdu, and on_new_sdu unless it failed.  The SDU counts as received
\* either way.
ReassembleSdu(id, got) ==
  \/ /\ delivered' = delivered (+) SetToBag({got})
     /\ UNCHANGED lost
  \/ /\ id \in MayBeLost
     /\ lost' = lost \cup {got}
     /\ UNCHANGED delivered

PlaceDataPdu(pdu) ==
  /\ Inside(pdu.sn, rx_next)
  /\ ~FullyReceived(rx_window, pdu.sn)
  /\ rx_next_highest' =
       IF Base(pdu.sn, rx_next) >= Base(rx_next_highest, rx_next)
         THEN Plus(pdu.sn, 1) ELSE rx_next_highest
  /\ LET window == Store(pdu) IN
       IF FullyReceived(window, pdu.sn)
         THEN /\ ReassembleSdu(pdu.id, window[pdu.sn].got)
              /\ Advance(window, pdu.sn)
         ELSE /\ rx_window' = window
              /\ UNCHANGED <<rx_next, rx_highest_status, delivered, lost, passed>>
  /\ UpdateReassembly
  /\ do_status' = (do_status \/ pdu.p)
  /\ IF Stores(pdu) \/ pdu.p THEN Refresh ELSE UNCHANGED report
  /\ UNCHANGED status_prohibit

HandleDataPdu(pdu) ==
  /\ pdu \in data
  /\ DropDataPdu(pdu) \/ PlaceDataPdu(pdu)

-----------------------------------------------------------------------------
\* What trim leaves of the report when the first NACK that does not fit is of an
\* SN: none of that SN, which is the new ACK_SN, and none after.
Trimmed(sn) ==
  [ack_sn |-> sn,
   nacks  |-> {nack \in report.nacks : Behind(report, nack) > Base(report.ack_sn, sn)}]

\* The status branch of pull_pdu of the transmitting side, get_status_pdu.
SendStatus ==
  /\ do_status /\ ~status_prohibit
  /\ do_status' = FALSE /\ status_prohibit' = TRUE
  /\ \E sn \in {report.ack_sn} \cup {nack.sn : nack \in report.nacks} :
       LET s == Trimmed(sn)
       IN status' \in Submit(status, [ack_sn |-> s.ack_sn, nacks |-> s.nacks,
                                      at |-> passed + Base(s.ack_sn, rx_next)])
  /\ UNCHANGED <<rx_next, rx_next_highest, rx_highest_status,
                 rx_next_status_trigger, rx_window, reassembly_timer, report,
                 delivered, lost, passed>>

\* on_expired_status_prohibit_timer
ProhibitExpires ==
  /\ status_prohibit /\ status_prohibit' = FALSE
  /\ UNCHANGED <<rx_next, rx_next_highest, rx_highest_status,
                 rx_next_status_trigger, rx_window, reassembly_timer, report,
                 do_status, delivered, lost, passed>>

\* on_expired_reassembly_timer.  ReceiverOrdered says that the trigger is valid.
ReassemblyExpires ==
  /\ reassembly_timer
  /\ UNCHANGED <<rx_next, rx_next_highest, rx_window, status_prohibit,
                 delivered, lost, passed>>
  /\ rx_highest_status' = FirstIncomplete(rx_window, rx_next_status_trigger,
                                          rx_next_highest, rx_next)
  /\ reassembly_timer' = Awaits(rx_highest_status')
  /\ rx_next_status_trigger' =
       IF Awaits(rx_highest_status') THEN rx_next_highest
       ELSE rx_next_status_trigger
  /\ Refresh
  /\ do_status' = TRUE
=============================================================================
