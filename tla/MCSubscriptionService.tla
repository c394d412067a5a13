----------------------- MODULE MCSubscriptionService -----------------------
(* SubscriptionService on a small instance.                                *)
EXTENDS SubscriptionService, TLC

(* The subscribe calls' identifiers are interchangeable.                   *)
SagaSymmetry == Permutations(Sagas)
=============================================================================
