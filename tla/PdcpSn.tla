------------------------------- MODULE PdcpSn -------------------------------
(***************************************************************************)
(* Sequence numbers (SN), hyper frame numbers (HFN) and COUNTs of a PDCP   *)
(* entity: lib/pdcp/pdcp_sn.h and pdcp_entity_tx_rx_base.h.  A COUNT has   *)
(* 32 bits, of which the SN is the lower part and the HFN the rest.        *)
(***************************************************************************)
EXTENDS Integers

CONSTANTS
  SnMod,   \* number of sequence numbers, 2^sn_size
  HfnMod   \* number of HFNs: COUNT has HfnMod * SnMod values

ASSUME WindowAssumption ==
  /\ SnMod \in Nat /\ SnMod > 0 /\ SnMod % 2 = 0
  /\ HfnMod \in Nat /\ HfnMod > 0

Window == SnMod \div 2
Count  == 0 .. (HfnMod * SnMod - 1)

SN(count)  == count % SnMod
HFN(count) == count \div SnMod

COUNT_Unwrapped(hfn, sn) == hfn * SnMod + sn
COUNT(hfn, sn)           == (hfn % HfnMod) * SnMod + sn

=============================================================================
