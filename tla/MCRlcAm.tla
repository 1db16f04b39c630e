------------------------------ MODULE MCRlcAm ------------------------------
(***************************************************************************)
(* Small instances of RlcAm for TLC: 4 sequence numbers, a window of two,  *)
(* SDUs of one to four bytes, PDUs that carry one or two.                  *)
(***************************************************************************)
EXTENDS RlcAm

Mixed  == <<1, 1, 2>>
Long   == <<4, 1>>
One    == {1}
OneTwo == {1, 2}
=============================================================================
