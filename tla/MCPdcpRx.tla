------------------------------ MODULE MCPdcpRx ------------------------------
(***************************************************************************)
(* Small instances of PdcpRx for TLC: 4 sequence numbers (a window of 2)   *)
(* or 8 (a window of 4), and 2 crypto slots, which are interchangeable.    *)
(***************************************************************************)
EXTENDS PdcpRx, TLC

CONSTANTS w1, w2

TwoSlots == {w1, w2}
SlotSymmetry == Permutations(TwoSlots)

Counts02  == {0, 2}
CountsTo2 == 0 .. 2
CountsTo4 == 0 .. 4
CountsTo8 == 0 .. 8
WithGaps  == {0, 1, 3, 8}
NoRemoval == {}
Release   == {"ue_release"}
Session   == {"session_removal"}
Both      == Release \cup Session
=============================================================================
