------------------------------ MODULE SduBuffer ------------------------------
(***************************************************************************)
(* What a transmission buffer owes to the layer above it: each SDU that is *)
(* offered is accepted or refused once, the SDUs that were accepted are    *)
(* taken one by one in the order in which they were accepted, except those *)
(* that were discarded before their turn, and each of the four operations  *)
(* takes effect at once.                                                   *)
(***************************************************************************)
EXTENDS Integers

CONSTANT Sdu       \* records with an id, ascending in the order of offers

VARIABLES
  buffered,        \* accepted, and neither taken nor discarded
  offered,         \* the id of the last SDU that was accepted or refused
  taken            \* the id of the last SDU that was taken

vars == <<buffered, offered, taken>>

Init == buffered = {} /\ offered = 0 /\ taken = 0

Accept(s) ==
  /\ s.id > offered /\ offered' = s.id
  /\ buffered' = buffered \cup {s}
  /\ UNCHANGED taken

Refuse(s) ==
  /\ s.id > offered /\ offered' = s.id
  /\ UNCHANGED <<buffered, taken>>

Discard(s) ==
  /\ s \in buffered /\ buffered' = buffered \ {s}
  /\ UNCHANGED <<offered, taken>>

\* The oldest goes first, and after all that went before.
Take(s) ==
  /\ s \in buffered /\ \A t \in buffered : s.id <= t.id
  /\ s.id > taken /\ taken' = s.id
  /\ buffered' = buffered \ {s}
  /\ UNCHANGED offered

Next == \E s \in Sdu : Accept(s) \/ Refuse(s) \/ Discard(s) \/ Take(s)

Spec == Init /\ [][Next]_vars
=============================================================================
