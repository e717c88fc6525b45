------------------------------- MODULE Mailbox -------------------------------
(***************************************************************************)
(* What a relay with a single message slot promises.  Messages are offered *)
(* one after the other; the slot keeps the newest one; a delivery hands on *)
(* the newest offered message and never the same message twice.  A message *)
(* that was overwritten, or that a restart dropped, is never delivered:    *)
(* loss is allowed, duplication, reordering and invention are not.         *)
(***************************************************************************)
EXTENDS Naturals

CONSTANT Max    \* how many messages are ever offered

VARIABLES offered,     \* number of the newest message offered
          delivered,   \* number of the newest message delivered, 0 for none
          deliveries   \* how many deliveries there were

Init == offered = 0 /\ delivered = 0 /\ deliveries = 0

Offer ==
    /\ offered < Max
    /\ offered' = offered + 1
    /\ UNCHANGED <<delivered, deliveries>>

Deliver ==
    /\ delivered < offered
    /\ delivered' = offered
    /\ deliveries' = deliveries + 1
    /\ UNCHANGED offered

Next == Offer \/ Deliver

Spec == Init /\ [][Next]_<<offered, delivered, deliveries>>
=============================================================================
