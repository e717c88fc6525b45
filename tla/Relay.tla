-------------------------------- MODULE Relay --------------------------------
(***************************************************************************)
(* What a chain of single-slot relays promises from end to end.  Messages  *)
(* are offered one after the other at one end and delivered at the other:  *)
(* only messages that were offered, in their order, and none twice.  Any   *)
(* message may be lost on the way.  One slot alone promises more: Mailbox. *)
(***************************************************************************)
EXTENDS Naturals

VARIABLES offered,     \* number of the newest message offered
          delivered,   \* number of the newest message delivered, 0 for none
          deliveries   \* how many deliveries there were

Init == offered = 0 /\ delivered = 0 /\ deliveries = 0

Offer ==
    /\ offered' = offered + 1
    /\ UNCHANGED <<delivered, deliveries>>

Deliver ==
    /\ delivered' \in delivered + 1 .. offered
    /\ deliveries' = deliveries + 1
    /\ UNCHANGED offered

Next == Offer \/ Deliver

Spec == Init /\ [][Next]_<<offered, delivered, deliveries>>
=============================================================================
