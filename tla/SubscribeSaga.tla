--------------------------- MODULE SubscribeSaga ---------------------------
(***************************************************************************)
(* The distributed Subscribe transaction: the subscription service, the    *)
(* notifier's confirmations and the saga orchestrator, connected by their  *)
(* outbox relays and by JetStream.                                         *)
(*                                                                         *)
(* Each service's relay publishes its outbox in order and then deletes     *)
(* what it published; stopping in between publishes it again (OutboxRelay  *)
(* has the relay in detail).  A durable                                    *)
(* consumer has one message outstanding (MaxAckPending 1), so it handles   *)
(* its subject in order, and the next message waits until this one is      *)
(* acknowledged or has been delivered MaxDeliver times.  Different         *)
(* durables proceed independently of each other: there is no order across  *)
(* subjects.                                                               *)
(***************************************************************************)
EXTENDS SubscriptionService, SagaCoordinator, Confirmations

CONSTANTS
    MaxDeliver,   \* deliveries of one message to one durable
    MaxFaults     \* bound: crashes, handler errors, lost acknowledgements

ASSUME DeliveryLimits == MaxDeliver \in Nat \ {0} /\ MaxFaults \in Nat

Services == {"subscription", "notifier", "saga"}

(* Variant: the orchestrator listens to `failed` for dead confirmations.   *)
SubjectFailed ==
    [notifier_pending |-> "pending", saga_pending |-> "pending", saga_sent |-> "sent",
     saga_dead |-> "failed", saga_confirmed |-> "confirmed", saga_expired |-> "expired",
     sub_compensate |-> "compensate"]

(* The durables of the transaction and the subject each one filters.       *)
Subject ==
    [notifier_pending |-> "pending",  \* bootstrap/notifier/consumers.go
     saga_pending |-> "pending",      \* bootstrap/saga/consumers.go
     saga_sent |-> "sent",
     saga_dead |-> "dead",
     saga_confirmed |-> "confirmed",
     saga_expired |-> "expired",
     sub_compensate |-> "compensate"] \* bootstrap/subscription/consumers.go

Durables == DOMAIN Subject

VARIABLES
    queue,     \* per durable: the messages it has not finished with
    tries,     \* per durable: earlier deliveries of the first of them
    relayed,   \* per service: outbox messages published and deleted
    faults     \* faults so far

wireVars == <<queue, tries, relayed, faults>>
vars == <<subVars, sagaVars, confVars, wireVars>>

Outboxes == [subscription |-> subLog, notifier |-> notLog, saga |-> sagaLog]

Init ==
    /\ SubInit /\ SagaInit /\ ConfInit
    /\ queue = [d \in Durables |-> <<>>]
    /\ tries = [d \in Durables |-> 0]
    /\ relayed = [v \in Services |-> 0]
    /\ faults = 0

----------------------------------------------------------------------------
(* The relay of a service (outbox/relay.go).                               *)

(* The messages of a batch on one subject, in their order: the p-th is the *)
(* one up to which there are p.                                            *)
OnSubject(b, t) ==
    LET at == {i \in DOMAIN b : b[i].type = t} IN
    [p \in 1..Cardinality(at) |-> b[CHOOSE i \in at : Cardinality({h \in at : h <= i}) = p]]

(* The next n messages of the outbox reach every durable of their subject. *)
Publish(v, n) ==
    LET batch == SubSeq(Outboxes[v], relayed[v] + 1, relayed[v] + n) IN
    queue' = [d \in Durables |-> queue[d] \o OnSubject(batch, Subject[d])]

Relay(v) ==
    /\ relayed[v] < Len(Outboxes[v])
    /\ Publish(v, 1)
    /\ relayed' = [relayed EXCEPT ![v] = @ + 1]
    /\ UNCHANGED <<subVars, sagaVars, confVars, tries, faults>>

Fault == faults < MaxFaults /\ faults' = faults + 1

(* The relay stops between publishing a batch and committing its deletion: *)
(* the batch will be published again.                                      *)
RelayCrash(v, n) ==
    /\ Publish(v, n)
    /\ Fault
    /\ UNCHANGED <<subVars, sagaVars, confVars, tries, relayed>>

----------------------------------------------------------------------------
(* Delivery (broker.go).  The handler's outcome settles the message.       *)

HasMessage(d) == queue[d] # <<>>
Msg(d) == Head(queue[d])

Ack(d) ==
    /\ queue' = [queue EXCEPT ![d] = Tail(@)]
    /\ tries' = [tries EXCEPT ![d] = 0]
    /\ UNCHANGED <<relayed, faults>>

(* Variant: there is no second delivery.                                   *)
RedeliverNever(d) ==
    /\ Fault /\ queue' = [queue EXCEPT ![d] = Tail(@)]
    /\ UNCHANGED <<tries, relayed>>

(* The handler failed, or its acknowledgement did not arrive: the message  *)
(* is delivered again, up to MaxDeliver times, and then dropped.           *)
Redeliver(d) ==
    /\ Fault
    /\ IF tries[d] + 1 < MaxDeliver
       THEN tries' = [tries EXCEPT ![d] = @ + 1] /\ UNCHANGED queue
       ELSE tries' = [tries EXCEPT ![d] = 0] /\ queue' = [queue EXCEPT ![d] = Tail(@)]
    /\ UNCHANGED relayed

(* Its effects are there, whether or not the acknowledgement arrives.      *)
Done(d) == Ack(d) \/ Redeliver(d)

Idle(d) == /\ d = "notifier_pending" => sending = {}
           /\ d = "saga_dead" => deadJob = {}

(* A handler fails before it has any effect.                               *)
HandlerFails(d) ==
    /\ HasMessage(d) /\ Idle(d)
    /\ Redeliver(d)
    /\ UNCHANGED <<subVars, sagaVars, confVars>>

----------------------------------------------------------------------------
(* The handlers.                                                           *)

HandlePending ==
    /\ HasMessage("saga_pending")
    /\ OnPending(Msg("saga_pending").key, Msg("saga_pending").id)
    /\ Done("saga_pending")
    /\ UNCHANGED <<subVars, confVars>>

HandleSent ==
    /\ HasMessage("saga_sent")
    /\ OnConfirmationSent(Msg("saga_sent").id)
    /\ Done("saga_sent")
    /\ UNCHANGED <<subVars, confVars>>

HandleConfirmed ==
    /\ HasMessage("saga_confirmed")
    /\ OnConfirmed(Msg("saga_confirmed").key)
    /\ Done("saga_confirmed")
    /\ UNCHANGED <<subVars, confVars>>

HandleExpired ==
    /\ HasMessage("saga_expired")
    /\ OnExpired(Msg("saga_expired").key)
    /\ Done("saga_expired")
    /\ UNCHANGED <<subVars, confVars>>

HandleDead ==
    /\ HasMessage("saga_dead") /\ deadJob = {}
    /\ \/ /\ DeadIgnored(Msg("saga_dead").id)
          /\ Done("saga_dead")
          /\ UNCHANGED sagaVars
       \/ /\ \E k \in Keys : OnConfirmationDead(k, Msg("saga_dead").id)
          /\ UNCHANGED wireVars
    /\ UNCHANGED <<subVars, confVars>>

DeadCompensates(j) ==
    /\ \/ CompensateNATS(j) /\ Done("saga_dead")
       \/ CompensateGRPC(j) /\ UNCHANGED wireVars
       \/ DeadAborted(j) /\ Redeliver("saga_dead")
    /\ UNCHANGED <<subVars, confVars>>

(* Variant: the service reports success and does nothing.                  *)
CompensateNothing(k) == UNCHANGED subVars

(* DeletePendingByEmailAndRepo: zero rows is not an error.                 *)
CompensateRow(k) == Compensate(k) \/ (~Compensable(k) /\ UNCHANGED subVars)

(* The gRPC call reaches the service; its answer may not come back.        *)
DeadCalls(j) ==
    /\ CompensateRPC(j)
    /\ CompensateRow(j.key)
    /\ Done("saga_dead")
    /\ UNCHANGED confVars

HandleCompensate ==
    /\ HasMessage("sub_compensate")
    /\ CompensateRow(Msg("sub_compensate").key)
    /\ Done("sub_compensate")
    /\ UNCHANGED <<sagaVars, confVars>>

HandleConfirmation ==
    /\ HasMessage("notifier_pending")
    /\ \E ok \in BOOLEAN :
          SendConfirmation(Msg("notifier_pending").key, Msg("notifier_pending").id, ok)
    /\ UNCHANGED <<subVars, sagaVars, wireVars>>

ConfirmationRecorded(j) ==
    /\ \/ RecordOutcome(j) /\ Done("notifier_pending")
       \/ RecordAborted(j) /\ Redeliver("notifier_pending")
    /\ UNCHANGED <<subVars, sagaVars>>

----------------------------------------------------------------------------
(* Steps of one service on its own.                                        *)

(* A link is clicked once it has been e-mailed.                            *)
Users ==
    /\ \/ \E k \in Keys, s \in Sagas : SagaKey[s] = k /\ SubscribeResolve(k, s)
       \/ \E q \in reqs : SubscribeCommit(q) \/ SubscribeAbort(q)
       \/ \E i \in DOMAIN subLog : subLog[i].id \in mailed /\ Confirm(i)
       \/ \E k \in Keys : Unsubscribe(k)
    /\ UNCHANGED <<sagaVars, confVars, wireVars>>

Sweep == Cleanup /\ UNCHANGED <<sagaVars, confVars, wireVars>>

Retrier ==
    /\ \/ \E k \in Keys : DeadLetterExpired(k)
       \/ ListRetryable
       \/ \E k \in todo, ok \in BOOLEAN : RetrySend(k, ok)
       \/ \E j \in retrying : RetryOutcome(j)
    /\ UNCHANGED <<subVars, sagaVars, wireVars>>

RetrierFails ==
    /\ \E j \in retrying : RetryAborted(j)
    /\ Fault
    /\ UNCHANGED <<subVars, sagaVars, queue, tries, relayed>>

(* The notifier stops; the message it was handling is delivered again.     *)
NotifierStops ==
    /\ NotifierCrash
    /\ IF sending # {} THEN Redeliver("notifier_pending")
                       ELSE Fault /\ UNCHANGED <<queue, tries, relayed>>
    /\ UNCHANGED <<subVars, sagaVars>>

(* One clock for the two services whose deadlines matter.                  *)
Time == Tick /\ ConfTick /\ UNCHANGED <<sagaVars, wireVars>>

Handlers ==
    \/ HandlePending \/ HandleSent \/ HandleConfirmed \/ HandleExpired
    \/ HandleDead \/ (\E j \in deadJob : DeadCompensates(j) \/ DeadCalls(j))
    \/ HandleCompensate
    \/ HandleConfirmation \/ (\E j \in sending : ConfirmationRecorded(j))

Next ==
    \/ Users \/ Sweep \/ Time
    \/ Retrier \/ RetrierFails \/ NotifierStops
    \/ Handlers
    \/ \E d \in Durables : HandlerFails(d)
    \/ \E v \in Services : Relay(v)
    \/ \E v \in Services : \E n \in 1..(Len(Outboxes[v]) - relayed[v]) : RelayCrash(v, n)

Spec == Init /\ [][Next]_vars

(* Calls end, relays tick, durables deliver and handlers return, time      *)
(* passes, and the maintenance ticker keeps starting passes that go on to  *)
(* their end.  A row that is too old is dead-lettered only between passes, *)
(* at the start of each one: strong fairness.  Users need not act, and     *)
(* nothing is assumed of the sweep.                                        *)
Fairness ==
    /\ WF_vars(Time)
    /\ WF_vars(Users /\ reqs' # reqs /\ reqs' \subseteq reqs)
    /\ \A v \in Services : WF_vars(Relay(v))
    /\ WF_vars(HandlePending) /\ WF_vars(HandleSent) /\ WF_vars(HandleConfirmed)
    /\ WF_vars(HandleExpired) /\ WF_vars(HandleDead) /\ WF_vars(HandleCompensate)
    /\ WF_vars(\E j \in deadJob : DeadCompensates(j) \/ DeadCalls(j))
    /\ WF_vars(HandleConfirmation)
    /\ WF_vars(\E j \in sending : ConfirmationRecorded(j))
    /\ WF_vars(Retrier /\ (retrying # {} \/ todo # {}))
    /\ \A k \in Keys : SF_vars(Retrier /\ DeadLetterExpired(k))

FairSpec == Spec /\ Fairness

----------------------------------------------------------------------------
(* Type invariant of the composition: of the orchestrator and the notifier *)
(* with their steps under way, and of relays, queues and delivery          *)
(* counters.  A durable holds only its subject.                            *)
WireTypeOK ==
    /\ SagaTypeOK /\ ConfTypeOK
    /\ queue \in [Durables -> Seq(EventSet(Subjects))]
    /\ \A d \in Durables : \A i \in DOMAIN queue[d] : queue[d][i].type = Subject[d]
    /\ tries \in [Durables -> 0..(MaxDeliver - 1)]
    /\ relayed \in [Services -> Nat] /\ \A v \in Services : relayed[v] <= Len(Outboxes[v])
    /\ faults \in 0..MaxFaults

HasEvent(lg, t, k) == \E i \in DOMAIN lg : IsEvent(lg[i], t, k)

(* The orchestrator never invents progress: the state of a saga reflects   *)
(* an event that some service committed, for this very saga where the      *)
(* event carries its id, whatever was duplicated, delayed or reordered.    *)
SagaJustified ==
    \A k \in Keys :
        /\ sagaState[k] # "none" => Published(subLog, "pending", sagaId[k])
        /\ sagaState[k] = "confirmation_sent" => Published(notLog, "sent", sagaId[k])
        /\ sagaState[k] = "completed" => HasEvent(subLog, "confirmed", k)
        /\ sagaState[k] = "expired" => HasEvent(subLog, "expired", k)
        /\ sagaState[k] = "compensated" => Published(notLog, "dead", sagaId[k])

(* docs/adr/013-orchestrated-saga.md:41-43: only a dead confirmation rolls *)
(* back.  Every command follows a dead event of the same saga, which       *)
(* follows a failed one, which follows the pending event of that key.      *)
RollbackJustified ==
    \A i \in DOMAIN sagaLog :
        /\ Published(notLog, "dead", sagaLog[i].id)
        /\ Published(notLog, "failed", sagaLog[i].id)
        /\ \E j \in DOMAIN subLog :
              IsEvent(subLog[j], "pending", sagaLog[i].key) /\ subLog[j].id = sagaLog[i].id

(* Nothing is under way: outboxes and queues are drained, no handler, no   *)
(* call and no retry is in progress.                                       *)
Quiet ==
    /\ \A v \in Services : relayed[v] = Len(Outboxes[v])
    /\ \A d \in Durables : queue[d] = <<>>
    /\ reqs = {} /\ sending = {} /\ retrying = {} /\ deadJob = {}
    /\ \A k \in Keys : ~HasRow(k)

(* docs/adr/013-orchestrated-saga.md:98-99: "a permanently failed          *)
(* confirmation no longer leaves an orphan pending row until the daily     *)
(* sweep".  When everything has settled, a row whose confirmation was      *)
(* declared dead and was never sent is gone.                               *)
NoOrphanRow ==
    Quiet => \A k \in Keys :
        HasEvent(notLog, "dead", k) /\ ~HasEvent(notLog, "sent", k) => status[k] # "pending"

(* The gRPC compensator marks the saga before it calls the subscription    *)
(* service (grpc_compensator.go:27-33), and a marked saga is never tried   *)
(* again.  Until something fails, the row of a compensated saga outlives   *)
(* the mark only while the call is under way.                              *)
MarkedIsRolledBack ==
    Transport = "grpc" /\ faults = 0 => \A k \in Keys :
        sagaState[k] = "compensated" /\ status[k] = "pending" /\ unsub[k] = sagaId[k] =>
            [key |-> k, id |-> sagaId[k], phase |-> "marked"] \in deadJob

(* A subscriber's first confirmation is never forgotten between outbox,    *)
(* broker, handler, failed_confirmations and retrier: the pending event is *)
(* answered by a sent or a dead event of its saga.                         *)
ConfirmationAnswered ==
    \A s \in Sagas : Published(subLog, "pending", s) ~>
        Published(notLog, "sent", s) \/ Published(notLog, "dead", s)

(* docs/adr/013-orchestrated-saga.md:58-60: "the rollback can never be     *)
(* lost".  Once a saga is compensated, its pending row goes, without the   *)
(* sweep having to take it, even when the orchestrator's relay, the broker *)
(* or the compensate handler fails on the way.                             *)
RollbackArrives ==
    \A k \in Keys : sagaState[k] = "compensated" ~> status[k] # "pending"
=============================================================================
