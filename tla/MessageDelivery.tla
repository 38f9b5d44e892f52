---------------------------- MODULE MessageDelivery ----------------------------
(***************************************************************************)
(* What the RDMA transport promises for one message: its bytes are         *)
(* delivered in order, the sender learns of bytes that were delivered and  *)
(* of no others, and it reports completion once, when all of them were (or *)
(* when the time the application set has passed).                          *)
(***************************************************************************)
EXTENDS Integers

VARIABLES
  size,       \* of the message; never changes
  delivered,  \* how many of its bytes the receiver has accepted in order
  confirmed,  \* how many of them the sender knows to be delivered
  expired,    \* the application's stop time has passed
  complete    \* the application has been told

vars == <<size, delivered, confirmed, expired, complete>>

Init ==
  /\ size \in Nat \ {0}
  /\ delivered = 0 /\ confirmed = 0
  /\ expired = FALSE /\ complete = FALSE

Deliver ==
  /\ delivered < size
  /\ delivered' \in delivered + 1 .. size
  /\ UNCHANGED <<size, confirmed, expired, complete>>

Confirm ==
  /\ ~complete
  /\ confirmed' \in confirmed .. delivered
  /\ complete' = (confirmed' = size \/ expired)
  /\ UNCHANGED <<size, delivered, expired>>

Expire ==
  /\ expired' = TRUE
  /\ UNCHANGED <<size, delivered, confirmed, complete>>

Next == Deliver \/ Confirm \/ Expire

Spec == Init /\ [][Next]_vars
===============================================================================
