------------------------------ MODULE SduWindow ------------------------------
(***************************************************************************)
(* The window of a PDCP entity (sdu_window over circular_map): one slot    *)
(* per COUNT modulo Window; adding a COUNT evicts whatever another COUNT   *)
(* left in its slot.                                                       *)
(***************************************************************************)
EXTENDS PdcpSn

CONSTANT None

Empty == [c \in Count |-> None]

HasSn(w, c) == w[c] # None

AddSn(w, count, sdu) ==
  [c \in Count |-> IF c = count THEN sdu
                   ELSE IF c % Window = count % Window THEN None
                   ELSE w[c]]

RemoveAll(w, S) == [c \in Count |-> IF c \in S THEN None ELSE w[c]]

=============================================================================
