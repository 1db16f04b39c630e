------------------------------ MODULE MCPdcpTx ------------------------------
(***************************************************************************)
(* Small instances of PdcpTx for TLC: 8 sequence numbers (a window of 4,   *)
(* in which 3 SDUs may wait), 2 HFNs and 2 crypto slots, which are         *)
(* interchangeable.                                                        *)
(***************************************************************************)
EXTENDS PdcpTx, TLC

CONSTANTS w1, w2

TwoSlots == {w1, w2}
OneSlot  == {w1}
SlotSymmetry == Permutations(TwoSlots)

NoStart    == {}
BeforeWrap == {6}
=============================================================================
