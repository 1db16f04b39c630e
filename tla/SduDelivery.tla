----------------------------- MODULE SduDelivery -----------------------------
(***************************************************************************)
(* What a receiving PDCP entity promises to the layer above it, whatever   *)
(* the network loses, repeats or reorders: while it is open it hands up    *)
(* SDUs in ascending order of COUNT, at most one for each COUNT; it closes *)
(* when the bearer is suspended or reconfigured, and opens again either    *)
(* with a new key and an empty history or where everything handed up under *)
(* the same history lies below it.                                         *)
(***************************************************************************)
EXTENDS Integers, Sequences

CONSTANTS Count, Sdu

VARIABLES
  low,     \* the least COUNT that may still be handed up
  handed,  \* COUNT -> the SDUs handed up under it
  open

vars == <<low, handed, open>>

Nothing == [c \in Count |-> <<>>]

Init == low = 0 /\ handed = Nothing /\ open = TRUE

\* Some of the COUNTs from low up to, not including, to are handed up.
HandUp(to) ==
  /\ handed' \in [Count -> Seq(Sdu)]
  /\ \A c \in Count :
       \/ handed'[c] = handed[c]
       \/ /\ low <= c /\ c < to
          /\ handed[c] = <<>>
          /\ Len(handed'[c]) = 1

\* Deliver, or skip COUNTs that are given up.
Advance ==
  /\ open
  /\ low <= low' /\ HandUp(low')
  /\ UNCHANGED open

\* Hand up what is left, perhaps, and close.
Close ==
  /\ \E to \in Count : HandUp(to)
  /\ low' \in Count
  /\ open' = FALSE

\* Open where everything handed up lies below.
Reopen ==
  /\ low' \in Count
  /\ \A c \in Count : handed[c] # <<>> => c < low'
  /\ open' = TRUE
  /\ UNCHANGED handed

\* Open with a new history.
Renew ==
  /\ handed' = Nothing
  /\ low' = 0
  /\ open' = TRUE

Next == Advance \/ Close \/ Reopen \/ Renew

Spec == Init /\ [][Next]_vars

=============================================================================
