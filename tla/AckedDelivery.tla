--------------------------- MODULE AckedDelivery ---------------------------
(***************************************************************************)
(* What a bearer in acknowledged mode promises: each SDU reaches the other *)
(* side at most once and whole, the transmitter forgets SDUs in order, no  *)
(* one before it was delivered, and it is never a window ahead.  If the    *)
(* other side may lose an SDU that it has in full, it is forgotten as if   *)
(* it had been delivered, and is not delivered later.                      *)
(***************************************************************************)
EXTENDS Integers, Bags

CONSTANTS
  Window,     \* SDUs that may wait for their acknowledgement
  SduIds,     \* SDUs, from 0 on
  Whole(_),   \* what an SDU is
  MayBeLost   \* SDUs that the other side may lose instead of handing them up

VARIABLES
  sent, acked,   \* counts
  handed,        \* bag of what was handed up
  lost           \* set of what was not

vars == <<sent, acked, handed, lost>>

Init == sent = 0 /\ acked = 0 /\ handed = EmptyBag /\ lost = {}

Done(i) == BagIn(Whole(i), handed) \/ Whole(i) \in lost

SendNext ==
  /\ sent \in SduIds /\ sent - acked < Window
  /\ sent' = sent + 1
  /\ UNCHANGED <<acked, handed, lost>>

Deliver(i) ==
  /\ i < sent /\ ~Done(i)
  /\ handed' = handed (+) SetToBag({Whole(i)})
  /\ UNCHANGED <<sent, acked, lost>>

Lose(i) ==
  /\ i \in MayBeLost
  /\ i < sent /\ ~Done(i)
  /\ lost' = lost \cup {Whole(i)}
  /\ UNCHANGED <<sent, acked, handed>>

Acknowledge ==
  /\ acked' > acked /\ acked' <= sent
  /\ \A i \in acked .. acked' - 1 : Done(i)
  /\ UNCHANGED <<sent, handed, lost>>

Next == SendNext \/ Acknowledge \/ \E i \in SduIds : Deliver(i) \/ Lose(i)

Spec == Init /\ [][Next]_vars
=============================================================================
