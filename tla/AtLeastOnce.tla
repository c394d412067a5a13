---------------------------- MODULE AtLeastOnce ----------------------------
(***************************************************************************)
(* What a transactional outbox promises, without saying how: a message is  *)
(* accepted when its transaction commits; an accepted message is delivered *)
(* at least once and may be delivered again until it is forgotten; only    *)
(* then is it never delivered again.  Nothing else is ever delivered.      *)
(***************************************************************************)
EXTENDS Sequences

CONSTANT Msgs

VARIABLES
    held,       \* accepted and not yet forgotten
    delivered   \* every delivery, in order

obVars == <<held, delivered>>

IsDelivered(m) == \E i \in DOMAIN delivered : delivered[i] = m

ObInit == held = {} /\ delivered = <<>>

Accept(m) ==
    /\ m \notin held
    /\ ~IsDelivered(m)
    /\ held' = held \cup {m}
    /\ UNCHANGED delivered

Deliver(m) ==
    /\ m \in held
    /\ delivered' = Append(delivered, m)
    /\ UNCHANGED held

Forget(S) ==
    /\ \A m \in S : IsDelivered(m)
    /\ held' = held \ S
    /\ UNCHANGED delivered

ObNext == \/ \E m \in Msgs : Accept(m) \/ Deliver(m)
          \/ \E S \in SUBSET Msgs : Forget(S)

ObSpec == ObInit /\ [][ObNext]_obVars
=============================================================================
