------------------------------- MODULE Events -------------------------------
(***************************************************************************)
(* What the services share: the business keys, the identifiers and the     *)
(* events of internal/shared/events that take part in the Subscribe        *)
(* transaction.                                                            *)
(*                                                                         *)
(* One value of Sagas stands for everything one subscribe call mints: the  *)
(* saga id of its pending event, the JWT of its link and, when it creates  *)
(* a row, the row's unsubscribe token.                                     *)
(***************************************************************************)
EXTENDS Naturals, Sequences, FiniteSets

CONSTANTS
    Emails,   \* subscriber addresses
    Repos,    \* GitHub repositories
    Sagas,    \* identifiers that subscribe calls mint (uuid, JWT, token)
    NoSaga    \* "no identifier"

ASSUME NoSagaIsNew == NoSaga \notin Sagas

Keys == Emails \X Repos

(* There are finitely many keys: any set of them can be counted.           *)
ASSUME KeysAreFinite == \A S \in SUBSET Keys : Cardinality(S) \in Nat

Subjects == {"pending", "confirmed", "removed", "expired",  \* stream SUBSCRIPTIONS
             "sent", "failed", "dead",                      \* stream NOTIFICATIONS
             "compensate"}                                  \* stream SAGAS

(* Every payload names its e-mail and repository or its saga.  `id` is the *)
(* saga id, except in a confirmed event, whose saga id no handler reads:   *)
(* there it is the unsubscribe token.  `link` is history, the link that    *)
(* caused a confirmation; no payload carries it.                           *)
Event(t, k, s, l) == [type |-> t, key |-> k, id |-> s, link |-> l]

EventSet(types) == [type : types, key : Keys,
                    id : Sagas \cup {NoSaga}, link : Sagas \cup {NoSaga}]

IsEvent(e, t, k) == e.type = t /\ e.key = k

(* The identifier occurs in an event of the given type.                    *)
Published(lg, t, s) == \E i \in DOMAIN lg : lg[i].type = t /\ lg[i].id = s
=============================================================================
