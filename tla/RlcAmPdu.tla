------------------------------ MODULE RlcAmPdu ------------------------------
(***************************************************************************)
(* What both sides of an RLC AM bearer know: sequence numbers, the SDUs to *)
(* be sent, and the channels that the two MACs make up between them.       *)
(*                                                                         *)
(* The n-th SDU that the transmitter takes from its queue is n - 1; its SN *)
(* is n - 1 after Start.  A PDU names the SDU and the bytes [from, to] of  *)
(* it that it carries.  The MAC may lose a PDU and hand PDUs over in any   *)
(* order, but none survives so long that its SN means another SDU to the   *)
(* peer.                                                                   *)
(***************************************************************************)
EXTENDS Integers, Sequences, FiniteSets

CONSTANTS
  SnMod,        \* cardinality of the SNs
  Window,       \* AM_Window_Size
  Start,        \* SN of the first SDU: a run begins after Start were settled
  Lens,         \* bytes of each SDU from then on: a sequence
  MaxInFlight   \* bound: PDUs, and status reports, on their way

ASSUME AmAssumption ==
  /\ Window \in Nat /\ Window > 1
  /\ SnMod \in Nat /\ SnMod >= 2 * Window
  /\ Start \in 0 .. SnMod - 1
  /\ Lens \in Seq(Nat \ {0}) /\ Len(Lens) > 0
  /\ MaxInFlight \in Nat \ {0}

Sn == 0 .. SnMod - 1
NoSn == -1                     \* INVALID_RLC_SN
SduIds == 0 .. Len(Lens) - 1
Length(i) == Lens[i + 1]
EndOfSdu == -1                 \* so_end_of_sdu

\* What SDU i is, byte for byte.
Whole(i) == {i} \X (0 .. Length(i) - 1)

\* (sn - edge) % mod
Base(sn, edge) == (sn - edge) % SnMod
Plus_NoWrap(sn, n) == sn + n
Plus(sn, n) == (sn + n) % SnMod

\* SI: full_sdu, and last_segment or full_sdu.
IsLast(pdu) == pdu.to = Length(pdu.id) - 1
IsFull(pdu) == pdu.from = 0 /\ IsLast(pdu)

\* A status PDU has its NACKs in the order of their SNs and bytes, all before
\* ACK_SN.
Pdu  == [sn : Sn, id : SduIds, from : Nat, to : Nat, p : BOOLEAN]
Nack == [sn : Sn, from : Nat, to : Nat \cup {EndOfSdu}]
Behind(s, nack) == Base(s.ack_sn, nack.sn)

\* A window with an entry more, or another entry, for an SN.
Put(window, sn, entry) ==
  [k \in DOMAIN window \cup {sn} |-> IF k = sn THEN entry ELSE window[k]]

VARIABLES
  data,    \* data PDUs on their way
  status   \* status PDUs on their way

\* The peer gets a PDU some time, or never.
Submit(channel, pdu) ==
  {channel} \cup
  IF Cardinality(channel) < MaxInFlight THEN {channel \cup {pdu}} ELSE {}

\* What is n SDUs behind the peer, or less, can still be told from what is new.
Fresh(n) == n < SnMod - Window
=============================================================================
