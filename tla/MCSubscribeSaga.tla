-------------------------- MODULE MCSubscribeSaga --------------------------
(* SubscribeSaga on a small instance: one address and one repository.      *)
EXTENDS SubscribeSaga, TLC

OneKey == [s \in Sagas |-> CHOOSE k \in Keys : TRUE]
SagaSymmetry == Permutations(Sagas)
=============================================================================
