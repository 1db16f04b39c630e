------------------------------ MODULE MCRlcUmTx ------------------------------
(***************************************************************************)
(* A small instance of RlcUmTx for TLC: a queue of two SDUs, two PDCP SNs   *)
(* that share a slot, and SDUs without a PDCP SN.                          *)
(***************************************************************************)
EXTENDS RlcUmTx

OneTwo == {1, 2}
Mixed  == <<2, 1, 2>>
Evens  == {0, 2}
=============================================================================
