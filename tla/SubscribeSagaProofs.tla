------------------------ MODULE SubscribeSagaProofs ------------------------
(***************************************************************************)
(* Proofs about the Subscribe transaction as a whole, for every number of  *)
(* keys and sagas, both transports, any number of deliveries and faults.   *)
(*                                                                         *)
(* The composition is shown to implement each of its components            *)
(* (ComponentSteps), so that their inductive invariants carry over.  What  *)
(* is left is the wire: a queued message was committed to an outbox        *)
(* (QueuedWasCommitted), a handler under way has its message still         *)
(* outstanding (InHand), and identifiers and keys belong together          *)
(* (PendingFitsKey).                                                       *)
(***************************************************************************)
EXTENDS SubscribeSaga, SubscriptionServiceProofs, SagaServicesProofs

Committed(e) == \E v \in Services : \E i \in DOMAIN Outboxes[v] : Outboxes[v][i] = e

QueuedWasCommitted == \A d \in Durables : \A i \in DOMAIN queue[d] : Committed(queue[d][i])

(* The broker waits for the acknowledgement of a handler under way.        *)
InHand ==
    /\ deadJob # {} => HasMessage("saga_dead")
    /\ sending # {} => HasMessage("notifier_pending")

(* A subscribe call mints its identifier for its own key.                  *)
PendingFitsKey ==
    /\ \A q \in reqs : q.key = SagaKey[q.id]
    /\ \A i \in DOMAIN subLog : subLog[i].type = "pending" =>
          subLog[i].id \in Sagas /\ subLog[i].key = SagaKey[subLog[i].id]

(* The dead event being handled is that of a saga that was started.        *)
DeadJobJustified ==
    \A j \in deadJob : Published(notLog, "dead", j.id) /\ Published(subLog, "pending", j.id)

FlowInd ==
    /\ SubInv /\ SagaInd /\ ConfInd
    /\ WireTypeOK
    /\ QueuedWasCommitted
    /\ InHand
    /\ PendingFitsKey
    /\ DeadJobJustified
    /\ SagaJustified
    /\ RollbackJustified
    /\ MarkedIsRolledBack

(* It holds when nothing has happened yet.                                 *)
LEMMA FlowStart == Init => FlowInd
<1> SUFFICES ASSUME Init
             PROVE  FlowInd
  OBVIOUS
<1>1. SubInv /\ SagaInd /\ ConfInd
  BY InitInv, SagaStart, ConfStart DEF Init
<1>2. /\ subLog = <<>> /\ notLog = <<>> /\ sagaLog = <<>>
      /\ reqs = {} /\ deadJob = {} /\ sending = {}
      /\ sagaState = [k \in Keys |-> "none"]
      /\ queue = [d \in Durables |-> <<>>] /\ tries = [d \in Durables |-> 0]
      /\ relayed = [v \in Services |-> 0] /\ faults = 0
  BY DEF Init, SubInit, SagaInit, ConfInit
<1>3. \A v \in Services : Len(Outboxes[v]) = 0
  BY <1>2 DEF Outboxes, Services
<1>4. \A d \in Durables : queue[d] = <<>> /\ DOMAIN queue[d] = {}
  BY <1>2
<1>5. WireTypeOK
  BY <1>1, <1>2, <1>3, <1>4, DeliveryLimits DEF WireTypeOK, SagaInd, ConfInd
<1>6. QueuedWasCommitted /\ InHand /\ PendingFitsKey /\ DeadJobJustified /\ RollbackJustified
  BY <1>2, <1>4 DEF QueuedWasCommitted, InHand, PendingFitsKey, DeadJobJustified, RollbackJustified
<1>7. SagaJustified /\ MarkedIsRolledBack
  BY <1>2 DEF SagaJustified, MarkedIsRolledBack
<1>8. QED
  BY <1>1, <1>5, <1>6, <1>7 DEF FlowInd

----------------------------------------------------------------------------
(* What a message that is delivered says.                                  *)

(* The outboxes, by service, hold the events of that service.              *)
LEMMA OutboxFacts ==
    ASSUME FlowInd
    PROVE  /\ Outboxes["subscription"] = subLog
           /\ Outboxes["notifier"] = notLog
           /\ Outboxes["saga"] = sagaLog
           /\ \A v \in Services : Outboxes[v] \in Seq(EventSet(Subjects))
           /\ \A i \in DOMAIN subLog : subLog[i].type \in {"pending", "confirmed", "removed", "expired"}
           /\ \A i \in DOMAIN notLog : notLog[i].type \in {"sent", "failed", "dead"}
           /\ \A i \in DOMAIN sagaLog : sagaLog[i].type = "compensate"
<1>1. /\ subLog \in Seq(SubEvents)
      /\ notLog \in Seq(EventSet({"sent", "failed", "dead"}))
      /\ sagaLog \in Seq(EventSet({"compensate"}))
  BY DEF FlowInd, SubInv, SubTypeOK, SagaInd, SagaTypeOK, ConfInd, ConfTypeOK
<1>2. /\ \A e \in SubEvents : e \in EventSet(Subjects) /\ e.type \in {"pending", "confirmed", "removed", "expired"}
      /\ \A e \in EventSet({"sent", "failed", "dead"}) :
            e \in EventSet(Subjects) /\ e.type \in {"sent", "failed", "dead"}
      /\ \A e \in EventSet({"compensate"}) : e \in EventSet(Subjects) /\ e.type = "compensate"
  BY DEF SubEvents, EventSet, Subjects
<1>3. /\ subLog \in Seq(EventSet(Subjects))
      /\ notLog \in Seq(EventSet(Subjects))
      /\ sagaLog \in Seq(EventSet(Subjects))
  BY <1>1, <1>2
<1>4. /\ \A i \in DOMAIN subLog : subLog[i] \in SubEvents
      /\ \A i \in DOMAIN notLog : notLog[i] \in EventSet({"sent", "failed", "dead"})
      /\ \A i \in DOMAIN sagaLog : sagaLog[i] \in EventSet({"compensate"})
  BY <1>1
<1>5. /\ Outboxes["subscription"] = subLog
      /\ Outboxes["notifier"] = notLog
      /\ Outboxes["saga"] = sagaLog
  BY DEF Outboxes
<1>6. \A v \in Services : Outboxes[v] \in Seq(EventSet(Subjects))
  BY <1>3, <1>5 DEF Services
<1>7. QED
  BY <1>2, <1>4, <1>5, <1>6

(* The durables and their subjects.                                        *)
LEMMA DurableFacts ==
    /\ Durables = {"notifier_pending", "saga_pending", "saga_sent", "saga_dead",
                   "saga_confirmed", "saga_expired", "sub_compensate"}
    /\ Subject["notifier_pending"] = "pending" /\ Subject["saga_pending"] = "pending"
    /\ Subject["saga_sent"] = "sent" /\ Subject["saga_dead"] = "dead"
    /\ Subject["saga_confirmed"] = "confirmed" /\ Subject["saga_expired"] = "expired"
    /\ Subject["sub_compensate"] = "compensate"
BY DEF Durables, Subject

(* The first message of a queue.                                           *)
LEMMA MessageFacts ==
    ASSUME FlowInd, NEW d \in Durables, HasMessage(d)
    PROVE  /\ Msg(d) \in EventSet(Subjects) /\ Msg(d).type = Subject[d]
           /\ Msg(d).key \in Keys /\ Committed(Msg(d))
<1>1. queue[d] \in Seq(EventSet(Subjects)) /\ queue[d] # <<>>
  BY DEF FlowInd, WireTypeOK, HasMessage
<1>2. 1 \in DOMAIN queue[d] /\ Msg(d) = queue[d][1]
  BY <1>1 DEF Msg
<1>3. Msg(d) \in EventSet(Subjects)
  BY <1>1, <1>2
<1>4. Msg(d).type = Subject[d] /\ Committed(Msg(d))
  BY <1>2 DEF FlowInd, WireTypeOK, QueuedWasCommitted
<1>5. QED
  BY <1>3, <1>4 DEF EventSet

(* Every subject has one publisher.                                        *)
LEMMA PublisherOf ==
    ASSUME FlowInd, NEW e, Committed(e)
    PROVE  \/ /\ e.type \in {"pending", "confirmed", "removed", "expired"}
              /\ \E i \in DOMAIN subLog : subLog[i] = e
           \/ /\ e.type \in {"sent", "failed", "dead"}
              /\ \E i \in DOMAIN notLog : notLog[i] = e
           \/ e.type = "compensate"
<1>1. PICK v \in Services : \E i \in DOMAIN Outboxes[v] : Outboxes[v][i] = e
  BY Zenon DEF Committed
<1>2. CASE v = "subscription"
  BY <1>1, <1>2, OutboxFacts, Zenon
<1>3. CASE v = "notifier"
  BY <1>1, <1>3, OutboxFacts, Zenon
<1>4. CASE v = "saga"
  BY <1>1, <1>4, OutboxFacts, Zenon
<1>5. QED
  BY <1>2, <1>3, <1>4 DEF Services

(* A pending event names a saga minted for its key.                        *)
LEMMA PendingMessage ==
    ASSUME FlowInd, NEW d \in Durables, HasMessage(d), Subject[d] = "pending"
    PROVE  /\ Msg(d).id \in Sagas /\ Msg(d).key = SagaKey[Msg(d).id]
           /\ Published(subLog, "pending", Msg(d).id)
<1>1. Msg(d).type = "pending" /\ Committed(Msg(d))
  BY MessageFacts
<1>2. PICK i \in DOMAIN subLog : subLog[i] = Msg(d)
  BY <1>1, PublisherOf
<1>3. QED
  BY <1>1, <1>2 DEF FlowInd, PendingFitsKey, Published

(* A confirmed or an expired event is one of the subscription service.     *)
LEMMA MembershipMessage ==
    ASSUME FlowInd, NEW d \in Durables, HasMessage(d), Subject[d] \in {"confirmed", "expired"}
    PROVE  HasEvent(subLog, Subject[d], Msg(d).key)
<1>1. Msg(d).type = Subject[d] /\ Committed(Msg(d))
  BY MessageFacts
<1>2. PICK i \in DOMAIN subLog : subLog[i] = Msg(d)
  BY <1>1, PublisherOf
<1>3. QED
  BY <1>1, <1>2 DEF HasEvent, IsEvent

(* A sent or a dead event is one of the notifier.                          *)
LEMMA OutcomeMessage ==
    ASSUME FlowInd, NEW d \in Durables, HasMessage(d), Subject[d] \in {"sent", "dead"}
    PROVE  /\ Published(notLog, Subject[d], Msg(d).id)
           /\ Subject[d] = "sent" => Msg(d).id \in Sagas
<1>1. Msg(d).type = Subject[d] /\ Committed(Msg(d))
  BY MessageFacts
<1>2. PICK i \in DOMAIN notLog : notLog[i] = Msg(d)
  BY <1>1, PublisherOf
<1>3. Subject[d] = "sent" => Msg(d).id \in mailed
  BY <1>1, <1>2 DEF FlowInd, ConfInd, OutcomeJustified
<1>4. QED
  BY <1>1, <1>2, <1>3, Zenon DEF Published, FlowInd, ConfInd, ConfTypeOK

----------------------------------------------------------------------------
(* Every step of the composition is, for each component, a step of that    *)
(* component or leaves it alone.                                           *)

(* An active saga was started, so its id is a saga's.                      *)
LEMMA StartedSaga ==
    ASSUME FlowInd, NEW k \in Keys, sagaState[k] # "none"
    PROVE  sagaId[k] \in Sagas /\ Published(subLog, "pending", sagaId[k])
BY DEF FlowInd, SagaJustified, PendingFitsKey, Published

(* DeletePendingByEmailAndRepo is a step of the subscription service.      *)
LEMMA CompensateRowStep ==
    ASSUME NEW k \in Keys, CompensateRow(k)
    PROVE  [SubNext]_subVars
BY DEF CompensateRow, SubNext

(* The handlers, seen by each component.                                   *)
LEMMA HandlerSteps ==
    ASSUME FlowInd, Handlers
    PROVE  [SubNext]_subVars /\ [SagaNext]_sagaVars /\ [ConfNext]_confVars
<1> DEFINE Good == [SubNext]_subVars /\ [SagaNext]_sagaVars /\ [ConfNext]_confVars
<1>1. CASE HandlePending
  <2>1. Msg("saga_pending").id \in Sagas /\ Msg("saga_pending").key = SagaKey[Msg("saga_pending").id]
    BY <1>1, PendingMessage, DurableFacts DEF HandlePending
  <2>2. QED
    BY <1>1, <2>1 DEF HandlePending, SagaNext
<1>2. CASE HandleSent
  <2>1. Msg("saga_sent").id \in Sagas
    BY <1>2, OutcomeMessage, DurableFacts DEF HandleSent
  <2>2. QED
    BY <1>2, <2>1 DEF HandleSent, SagaNext
<1>3. CASE HandleConfirmed
  <2>1. Msg("saga_confirmed").key \in Keys
    BY <1>3, MessageFacts, DurableFacts DEF HandleConfirmed
  <2>2. QED
    BY <1>3, <2>1 DEF HandleConfirmed, SagaNext
<1>4. CASE HandleExpired
  <2>1. Msg("saga_expired").key \in Keys
    BY <1>4, MessageFacts, DurableFacts DEF HandleExpired
  <2>2. QED
    BY <1>4, <2>1 DEF HandleExpired, SagaNext
<1>5. CASE HandleDead
  <2>1. ASSUME NEW k \in Keys, OnConfirmationDead(k, Msg("saga_dead").id)
        PROVE  Msg("saga_dead").id \in Sagas
    BY <2>1, StartedSaga DEF OnConfirmationDead, Active
  <2>2. QED
    BY <1>5, <2>1 DEF HandleDead, SagaNext
<1>6. ASSUME NEW j \in deadJob, DeadCompensates(j)
      PROVE  Good
  BY <1>6 DEF DeadCompensates, SagaNext
<1>7. ASSUME NEW j \in deadJob, DeadCalls(j)
      PROVE  Good
  <2>1. j.key \in Keys
    BY DeadJobFields DEF FlowInd, SagaInd
  <2>2. QED
    BY <1>7, <2>1, CompensateRowStep DEF DeadCalls, SagaNext
<1>8. CASE HandleCompensate
  <2>1. Msg("sub_compensate").key \in Keys
    BY <1>8, MessageFacts, DurableFacts DEF HandleCompensate
  <2>2. QED
    BY <1>8, <2>1, CompensateRowStep DEF HandleCompensate
<1>9. CASE HandleConfirmation
  <2>1. Msg("notifier_pending").id \in Sagas /\ Msg("notifier_pending").key \in Keys
    BY <1>9, PendingMessage, MessageFacts, DurableFacts DEF HandleConfirmation
  <2>2. QED
    BY <1>9, <2>1 DEF HandleConfirmation, ConfNext
<1>10. ASSUME NEW j \in sending, ConfirmationRecorded(j)
       PROVE  Good
  BY <1>10 DEF ConfirmationRecorded, ConfNext
<1>11. QED
  BY <1>1, <1>2, <1>3, <1>4, <1>5, <1>6, <1>7, <1>8, <1>9, <1>10 DEF Handlers

(* All steps.                                                              *)
LEMMA ComponentSteps ==
    ASSUME FlowInd, [Next]_vars
    PROVE  [SubNext]_subVars /\ [SagaNext]_sagaVars /\ [ConfNext]_confVars
<1>1. CASE Users
  BY <1>1 DEF Users, SubNext
<1>2. CASE Sweep
  BY <1>2 DEF Sweep, SubNext
<1>3. CASE Time
  BY <1>3 DEF Time, SubNext, ConfNext
<1>4. CASE Retrier
  BY <1>4 DEF Retrier, ConfNext
<1>5. CASE RetrierFails \/ NotifierStops
  BY <1>5 DEF RetrierFails, NotifierStops, ConfNext
<1>6. CASE Handlers
  BY <1>6, HandlerSteps
<1>7. CASE \E d \in Durables : HandlerFails(d)
  BY <1>7 DEF HandlerFails
<1>8. CASE \E v \in Services : Relay(v) \/ \E n \in 1..(Len(Outboxes[v]) - relayed[v]) : RelayCrash(v, n)
  BY <1>8 DEF Relay, RelayCrash
<1>9. CASE UNCHANGED vars
  BY <1>9 DEF vars
<1>10. QED
  BY <1>1, <1>2, <1>3, <1>4, <1>5, <1>6, <1>7, <1>8, <1>9 DEF Next

(* So the components' invariants are preserved.                            *)
LEMMA ComponentInds ==
    ASSUME FlowInd, [Next]_vars
    PROVE  SubInv' /\ SagaInd' /\ ConfInd'
BY ComponentSteps, SubInvStep, SagaStep, ConfStep DEF FlowInd

----------------------------------------------------------------------------
(* An outbox only grows: rows that a relay deletes stay in this history.   *)

Keeps(lg, lh) ==
    Len(lg) <= Len(lh) /\ \A i \in DOMAIN lg : i \in DOMAIN lh /\ lh[i] = lg[i]

(* One more event.                                                         *)
LEMMA AppendKeeps ==
    ASSUME NEW E, NEW lg \in Seq(E), NEW e
    PROVE  /\ Keeps(lg, Append(lg, e)) /\ Len(Append(lg, e)) = Len(lg) + 1
           /\ DOMAIN Append(lg, e) = DOMAIN lg \cup {Len(lg) + 1}
           /\ Append(lg, e)[Len(lg) + 1] = e
BY DEF Keeps

(* An unchanged outbox.                                                    *)
LEMMA SameKeeps ==
    ASSUME NEW E, NEW lg \in Seq(E)
    PROVE  Keeps(lg, lg)
BY DEF Keeps

(* What was published stays published.                                     *)
LEMMA KeepsPublished ==
    ASSUME NEW lg, NEW lh, Keeps(lg, lh)
    PROVE  /\ \A t, s : Published(lg, t, s) => Published(lh, t, s)
           /\ \A t, k : HasEvent(lg, t, k) => HasEvent(lh, t, k)
BY DEF Keeps, Published, HasEvent

(* The subscription service: a new pending event is that of a call in      *)
(* flight.                                                                 *)
LEMMA SubLogGrows ==
    ASSUME SubInv, [SubNext]_subVars
    PROVE  /\ Keeps(subLog, subLog')
           /\ \A i \in DOMAIN subLog' \ DOMAIN subLog : subLog'[i].type = "pending" =>
                 \E q \in reqs : subLog'[i].key = q.key /\ subLog'[i].id = q.id
<1>1. subLog \in Seq(SubEvents)
  BY DEF SubInv, SubTypeOK
<1>2. ASSUME NEW q \in reqs, SubscribeCommit(q)
      PROVE  /\ Keeps(subLog, subLog')
             /\ \A i \in DOMAIN subLog' \ DOMAIN subLog :
                   subLog'[i].key = q.key /\ subLog'[i].id = q.id
  <2> DEFINE e == Event("pending", q.key, q.id, NoSaga)
  <2>1. subLog' = Append(subLog, e)
    BY <1>2 DEF SubscribeCommit
  <2>2. e.key = q.key /\ e.id = q.id
    BY DEF Event
  <2> HIDE DEF e
  <2>3. QED
    BY <1>1, <2>1, <2>2, AppendKeeps
<1>3. ASSUME NEW t \in {"confirmed", "removed"}, NEW k, NEW s, NEW l,
             subLog' = Append(subLog, Event(t, k, s, l))
      PROVE  /\ Keeps(subLog, subLog')
             /\ \A i \in DOMAIN subLog' \ DOMAIN subLog : subLog'[i].type # "pending"
  <2> DEFINE e == Event(t, k, s, l)
  <2>1. e.type # "pending"
    BY DEF Event
  <2> HIDE DEF e
  <2>2. QED
    BY <1>1, <1>3, <2>1, AppendKeeps DEF e
<1>4. ASSUME Cleanup
      PROVE  /\ Keeps(subLog, subLog')
             /\ \A i \in DOMAIN subLog' \ DOMAIN subLog : subLog'[i].type # "pending"
  <2>1. SweepLog({k \in Keys : Expired(k)})
    BY <1>4, SweptAreExpired
  <2>2. QED
    BY <2>1 DEF SweepLog, Keeps
<1>5. ASSUME subLog' = subLog
      PROVE  Keeps(subLog, subLog') /\ DOMAIN subLog' \ DOMAIN subLog = {}
  BY <1>1, <1>5, SameKeeps
<1>6. CASE \E q \in reqs : SubscribeCommit(q)
  BY <1>2, <1>6
<1>7. CASE \E i \in DOMAIN subLog : Confirm(i)
  BY <1>3, <1>7 DEF Confirm
<1>8. CASE \E k \in Keys : Unsubscribe(k)
  BY <1>3, <1>8 DEF Unsubscribe
<1>9. CASE Cleanup
  BY <1>4, <1>9
<1>10. CASE subLog' = subLog
  BY <1>5, <1>10
<1>11. QED
  BY <1>6, <1>7, <1>8, <1>9, <1>10
     DEF SubNext, SubscribeResolve, SubscribeAbort, Compensate, Tick, subVars

(* The notifier.                                                           *)
LEMMA NotLogGrows ==
    ASSUME ConfInd, [ConfNext]_confVars
    PROVE  Keeps(notLog, notLog')
<1>1. notLog \in Seq(Outcomes)
  BY DEF ConfInd, ConfTypeOK, Outcomes
<1>2. notLog' = notLog \/ \E e : notLog' = Append(notLog, e)
  BY Zenon DEF ConfNext, confVars, SendConfirmation, RecordOutcome, RecordAborted, DeadLetterExpired,
         ListRetryable, RetrySend, RetryOutcome, RetryAborted, NotifierCrash, ConfTick, Outbox
<1>3. QED
  BY <1>1, <1>2, AppendKeeps, SameKeeps, Zenon

(* The orchestrator.                                                       *)
LEMMA SagaLogGrows ==
    ASSUME SagaInd, [SagaNext]_sagaVars
    PROVE  Keeps(sagaLog, sagaLog')
<1>1. sagaLog \in Seq(EventSet({"compensate"}))
  BY DEF SagaInd, SagaTypeOK
<1>2. sagaLog' = sagaLog \/ \E e : sagaLog' = Append(sagaLog, e)
  BY DEF SagaNext, sagaVars, OnPending, OnConfirmationSent, OnConfirmationDead, OnConfirmed,
         OnExpired, CompensateNATS, CompensateGRPC, CompensateRPC, DeadAborted
<1>3. QED
  BY <1>1, <1>2, AppendKeeps, SameKeeps, Zenon

(* All three, seen through Outboxes.                                       *)
LEMMA OutboxesGrow ==
    ASSUME FlowInd, [Next]_vars
    PROVE  /\ \A v \in Services : Keeps(Outboxes[v], Outboxes'[v])
           /\ \A e : Committed(e) => Committed(e)'
<1>1. Keeps(subLog, subLog') /\ Keeps(notLog, notLog') /\ Keeps(sagaLog, sagaLog')
  BY ComponentSteps, SubLogGrows, NotLogGrows, SagaLogGrows DEF FlowInd
<1>2. \A v \in Services : Keeps(Outboxes[v], Outboxes'[v])
  BY <1>1 DEF Outboxes, Services
<1>3. QED
  BY <1>2 DEF Committed, Keeps

----------------------------------------------------------------------------
(* The wire.                                                               *)

(* The next queues hold messages of their subjects that were committed.    *)
QueuesFit ==
    /\ queue' \in [Durables -> Seq(EventSet(Subjects))]
    /\ \A d \in Durables : \A i \in DOMAIN queue'[d] :
          queue'[d][i].type = Subject[d] /\ Committed(queue'[d][i])

CountersFit ==
    /\ tries' \in [Durables -> 0..(MaxDeliver - 1)]
    /\ relayed' \in [Services -> Nat]
    /\ \A v \in Services : relayed'[v] <= Len(Outboxes[v])
    /\ faults' \in 0..MaxFaults

(* Nothing happens on the wire.                                            *)
LEMMA WireSame ==
    ASSUME FlowInd, UNCHANGED <<queue, tries, relayed>>, faults' = faults \/ Fault
    PROVE  QueuesFit /\ CountersFit
<1>1. QueuesFit
  BY DEF FlowInd, WireTypeOK, QueuedWasCommitted, QueuesFit
<1>2. QED
  BY <1>1, DeliveryLimits DEF FlowInd, WireTypeOK, CountersFit, Fault

(* A message is settled, or will be delivered again.                       *)
LEMMA SettleFacts ==
    ASSUME FlowInd, NEW d \in Durables, HasMessage(d), Done(d)
    PROVE  /\ QueuesFit /\ CountersFit
           /\ \A c \in Durables : c # d => queue'[c] = queue[c]
<1>1. queue \in [Durables -> Seq(EventSet(Subjects))] /\ queue[d] # <<>>
  BY DEF FlowInd, WireTypeOK, HasMessage
<1>2. queue' = queue \/ queue' = [queue EXCEPT ![d] = Tail(@)]
  BY DEF Done, Ack, Redeliver
<1>3. /\ Tail(queue[d]) \in Seq(EventSet(Subjects))
      /\ \A i \in DOMAIN Tail(queue[d]) : i + 1 \in DOMAIN queue[d] /\ Tail(queue[d])[i] = queue[d][i + 1]
  BY <1>1
<1>4. QueuesFit /\ \A c \in Durables : c # d => queue'[c] = queue[c]
  <2>1. CASE queue' = queue
    BY <2>1 DEF FlowInd, WireTypeOK, QueuedWasCommitted, QueuesFit
  <2>2. CASE queue' = [queue EXCEPT ![d] = Tail(@)]
    <3>1. queue' \in [Durables -> Seq(EventSet(Subjects))]
      BY <1>1, <1>3, <2>2
    <3>2. queue'[d] = Tail(queue[d]) /\ \A c \in Durables : c # d => queue'[c] = queue[c]
      BY <1>1, <2>2
    <3>3. \A i \in DOMAIN queue'[d] : queue'[d][i].type = Subject[d] /\ Committed(queue'[d][i])
      BY <1>3, <3>2 DEF FlowInd, WireTypeOK, QueuedWasCommitted
    <3>4. \A c \in Durables : c # d => \A i \in DOMAIN queue'[c] :
             queue'[c][i].type = Subject[c] /\ Committed(queue'[c][i])
      BY <3>2 DEF FlowInd, WireTypeOK, QueuedWasCommitted
    <3>5. QED
      BY <3>1, <3>2, <3>3, <3>4, Zenon DEF QueuesFit
  <2>3. QED
    BY <1>2, <2>1, <2>2
<1>5. tries' \in [Durables -> 0..(MaxDeliver - 1)]
  <2>1. tries \in [Durables -> 0..(MaxDeliver - 1)] /\ tries[d] \in 0..(MaxDeliver - 1)
    BY DEF FlowInd, WireTypeOK
  <2>2. \/ tries' = tries
        \/ tries' = [tries EXCEPT ![d] = 0]
        \/ tries[d] + 1 < MaxDeliver /\ tries' = [tries EXCEPT ![d] = tries[d] + 1]
    BY DEF Done, Ack, Redeliver
  <2>3. 0 \in 0..(MaxDeliver - 1) /\ (tries[d] + 1 < MaxDeliver => tries[d] + 1 \in 0..(MaxDeliver - 1))
    BY <2>1, DeliveryLimits
  <2>4. QED
    BY <2>1, <2>2, <2>3
<1>6. relayed' = relayed /\ (faults' = faults \/ Fault)
  BY DEF Done, Ack, Redeliver
<1>7. CountersFit
  BY <1>5, <1>6, DeliveryLimits DEF FlowInd, WireTypeOK, CountersFit, Fault
<1>8. QED
  BY <1>4, <1>7

(* A handler settles its own message; one under way has not yet.           *)
HandsFit ==
    /\ deadJob' # {} => queue'["saga_dead"] # <<>>
    /\ sending' # {} => queue'["notifier_pending"] # <<>>

(* The handlers leave the wire in order.                                   *)
LEMMA HandlerWire ==
    ASSUME FlowInd, Handlers
    PROVE  QueuesFit /\ CountersFit /\ HandsFit
<1> USE DurableFacts
<1>1. /\ deadJob # {} => queue["saga_dead"] # <<>>
      /\ sending # {} => queue["notifier_pending"] # <<>>
  BY DEF FlowInd, InHand, HasMessage
<1>2. CASE HandlePending
  BY <1>1, <1>2, SettleFacts DEF HandlePending, OnPending, confVars, HandsFit
<1>3. CASE HandleSent
  BY <1>1, <1>3, SettleFacts DEF HandleSent, OnConfirmationSent, confVars, HandsFit
<1>4. CASE HandleConfirmed
  BY <1>1, <1>4, SettleFacts DEF HandleConfirmed, OnConfirmed, confVars, HandsFit
<1>5. CASE HandleExpired
  BY <1>1, <1>5, SettleFacts DEF HandleExpired, OnExpired, confVars, HandsFit
<1>6. CASE HandleDead
  <2>1. HasMessage("saga_dead") /\ queue["saga_dead"] # <<>> /\ deadJob = {} /\ sending' = sending
    BY <1>6 DEF HandleDead, confVars, HasMessage
  <2>2. CASE Done("saga_dead") /\ UNCHANGED sagaVars
    BY <1>1, <2>1, <2>2, SettleFacts DEF sagaVars, HandsFit
  <2>3. CASE UNCHANGED wireVars
    BY <1>1, <2>1, <2>3, WireSame DEF wireVars, HandsFit
  <2>4. QED
    BY <1>6, <2>2, <2>3 DEF HandleDead
<1>7. ASSUME NEW j \in deadJob, DeadCompensates(j)
      PROVE  QueuesFit /\ CountersFit /\ HandsFit
  <2>1. HasMessage("saga_dead") /\ queue["saga_dead"] # <<>> /\ sending' = sending
    BY <1>1, <1>7 DEF DeadCompensates, confVars, HasMessage
  <2>2. CASE deadJob' = {} /\ Done("saga_dead")
    BY <1>1, <2>1, <2>2, SettleFacts DEF HandsFit
  <2>3. CASE UNCHANGED wireVars
    BY <1>1, <2>1, <2>3, WireSame DEF wireVars, HandsFit
  <2>4. QED
    BY <1>7, <2>2, <2>3 DEF DeadCompensates, CompensateNATS, DeadAborted, Done
<1>8. ASSUME NEW j \in deadJob, DeadCalls(j)
      PROVE  QueuesFit /\ CountersFit /\ HandsFit
  <2>1. HasMessage("saga_dead") /\ sending' = sending /\ deadJob' = {} /\ Done("saga_dead")
    BY <1>1, <1>8 DEF DeadCalls, CompensateRPC, confVars, HasMessage
  <2>2. QED
    BY <1>1, <2>1, SettleFacts DEF HandsFit
<1>9. CASE HandleCompensate
  BY <1>1, <1>9, SettleFacts DEF HandleCompensate, sagaVars, confVars, HandsFit
<1>10. CASE HandleConfirmation
  <2>1. queue["notifier_pending"] # <<>> /\ UNCHANGED wireVars /\ deadJob' = deadJob
    BY <1>10, Zenon DEF HandleConfirmation, HasMessage, sagaVars
  <2>2. QED
    BY <1>1, <2>1, WireSame DEF wireVars, HandsFit
<1>11. ASSUME NEW j \in sending, ConfirmationRecorded(j)
       PROVE  QueuesFit /\ CountersFit /\ HandsFit
  <2>1. /\ HasMessage("notifier_pending") /\ Done("notifier_pending")
        /\ sending' = {} /\ deadJob' = deadJob
    BY <1>1, <1>11, Zenon DEF ConfirmationRecorded, RecordOutcome, RecordAborted, Done, sagaVars, HasMessage
  <2>2. QED
    BY <1>1, <2>1, SettleFacts DEF HandsFit
<1>12. QED
  BY <1>2, <1>3, <1>4, <1>5, <1>6, <1>7, <1>8, <1>9, <1>10, <1>11 DEF Handlers

----------------------------------------------------------------------------
(* What justifies the orchestrator's progress and its rollbacks.           *)

(* A call that enters carries an identifier minted for its key.            *)
LEMMA KeyStep ==
    ASSUME FlowInd, [Next]_vars
    PROVE  PendingFitsKey'
<1>1. ASSUME NEW q \in reqs'
      PROVE  q \in reqs \/ q.key = SagaKey[q.id]
  <2>1. CASE Users
    <3>1. ASSUME NEW k \in Keys, NEW s \in Sagas, SagaKey[s] = k, SubscribeResolve(k, s)
          PROVE  q \in reqs \/ q.key = SagaKey[q.id]
      <4>1. reqs' = reqs \cup {[key |-> k, isNew |-> status[k] = "none", id |-> s]}
        BY <3>1, Zenon DEF SubscribeResolve
      <4>2. q \in reqs \/ q = [key |-> k, isNew |-> status[k] = "none", id |-> s]
        BY <4>1, Zenon
      <4>3. QED
        BY <3>1, <4>2
    <3>2. ASSUME NEW r \in reqs, SubscribeCommit(r) \/ SubscribeAbort(r)
          PROVE  q \in reqs
      BY <3>2, Zenon DEF SubscribeCommit, SubscribeAbort
    <3>3. ASSUME NEW i \in DOMAIN subLog, Confirm(i)
          PROVE  q \in reqs
      BY <3>3, Zenon DEF Confirm
    <3>4. ASSUME NEW k \in Keys, Unsubscribe(k)
          PROVE  q \in reqs
      BY <3>4, Zenon DEF Unsubscribe
    <3>5. QED
      BY <2>1, <3>1, <3>2, <3>3, <3>4, Zenon DEF Users
  <2>2. CASE Sweep \/ Time
    BY <2>2 DEF Sweep, Cleanup, Time, Tick
  <2>3. CASE Handlers
    BY <2>3, Zenon DEF Handlers, HandlePending, HandleSent, HandleConfirmed, HandleExpired, HandleDead,
                DeadCompensates, DeadCalls, HandleCompensate, CompensateRow, Compensate,
                HandleConfirmation, ConfirmationRecorded, subVars
  <2>4. CASE UNCHANGED subVars
    BY <2>4 DEF subVars
  <2>5. QED
    BY <2>1, <2>2, <2>3, <2>4 DEF Next, vars, Retrier, RetrierFails, NotifierStops, HandlerFails,
                                  Relay, RelayCrash
<1>2. \A q \in reqs' : q.key = SagaKey[q.id]
  BY <1>1 DEF FlowInd, PendingFitsKey
<1>3. ASSUME NEW i \in DOMAIN subLog', subLog'[i].type = "pending"
      PROVE  subLog'[i].id \in Sagas /\ subLog'[i].key = SagaKey[subLog'[i].id]
  <2>1. CASE i \in DOMAIN subLog
    <3>1. subLog'[i] = subLog[i]
      BY <2>1, ComponentSteps, SubLogGrows DEF FlowInd, Keeps
    <3>2. QED
      BY <1>3, <2>1, <3>1 DEF FlowInd, PendingFitsKey
  <2>2. CASE i \notin DOMAIN subLog
    <3>1. PICK q \in reqs : subLog'[i].key = q.key /\ subLog'[i].id = q.id
      BY <1>3, <2>2, ComponentSteps, SubLogGrows DEF FlowInd
    <3>2. q.id \in Sagas /\ q.key = SagaKey[q.id]
      BY DEF FlowInd, PendingFitsKey, SubInv, SubTypeOK, Requests
    <3>3. QED
      BY <3>1, <3>2
  <2>3. QED
    BY <2>1, <2>2
<1>4. QED
  BY <1>2, <1>3 DEF PendingFitsKey

(* The event a saga's new state rests on.                                  *)
Moved(k) ==
    /\ sagaId'[k] = sagaId[k]
    /\ \/ sagaState'[k] = "confirmation_sent" /\ Published(notLog, "sent", sagaId[k])
       \/ sagaState'[k] = "completed" /\ HasEvent(subLog, "confirmed", k)
       \/ sagaState'[k] = "expired" /\ HasEvent(subLog, "expired", k)
       \/ /\ sagaState'[k] = "compensated" /\ Published(notLog, "dead", sagaId[k])
          /\ Transport = "grpc" => [key |-> k, id |-> sagaId[k], phase |-> "marked"] \in deadJob'

Started(k) == sagaState'[k] = "pending" /\ Published(subLog, "pending", sagaId'[k])

Stays(k) == sagaState'[k] = sagaState[k] /\ sagaId'[k] = sagaId[k]

(* Marking the saga of a dead event under way.                             *)
LEMMA MarkMoves ==
    ASSUME FlowInd, NEW j \in deadJob, TransitionByID(j.id, "compensated"), sagaId' = sagaId,
           Transport = "grpc" => deadJob' = {[j EXCEPT !.phase = "marked"]},
           NEW k \in Keys
    PROVE  Stays(k) \/ (sagaState[k] \in Active /\ Moved(k))
<1>1. SagaTypeOK /\ IdsFitKeys
  BY DEF FlowInd, SagaInd
<1>2. \/ sagaState'[k] = sagaState[k]
      \/ sagaId[k] = j.id /\ sagaState[k] \in Active /\ sagaState'[k] = "compensated"
  BY <1>1, TransitionFacts DEF TransitionByID, Terminal
<1>3. ASSUME sagaId[k] = j.id
      PROVE  /\ Published(notLog, "dead", sagaId[k])
             /\ Transport = "grpc" => [key |-> k, id |-> sagaId[k], phase |-> "marked"] \in deadJob'
  <2>1. j.key = k /\ j \in DeadJobs
    BY <1>1, <1>3, DeadJobFields, NoSagaIsNew DEF IdsFitKeys
  <2>2. [j EXCEPT !.phase = "marked"] = [key |-> k, id |-> sagaId[k], phase |-> "marked"]
    BY <1>3, <2>1 DEF DeadJobs
  <2>3. QED
    BY <1>3, <2>2 DEF FlowInd, DeadJobJustified
<1>4. QED
  BY <1>2, <1>3 DEF Stays, Moved, Active

(* Whatever happens, a saga stays, starts or moves for a reason.           *)
LEMMA SagaMoves ==
    ASSUME FlowInd, [Next]_vars, NEW k \in Keys
    PROVE  Stays(k) \/ Started(k) \/ (sagaState[k] \in Active /\ Moved(k))
<1> USE DurableFacts
<1>1. SagaTypeOK
  BY DEF FlowInd, SagaInd
<1>2. CASE HandlePending
  <2>1. Published(subLog, "pending", Msg("saga_pending").id)
    BY <1>2, PendingMessage, Zenon DEF HandlePending
  <2>2. QED
    BY <1>1, <1>2, <2>1 DEF HandlePending, OnPending, Started, Stays, SagaTypeOK
<1>3. CASE HandleSent
  <2>1. Published(notLog, "sent", Msg("saga_sent").id)
    BY <1>3, OutcomeMessage DEF HandleSent
  <2>2. \/ sagaState'[k] = sagaState[k]
        \/ /\ sagaId[k] = Msg("saga_sent").id
           /\ sagaState[k] \in Active /\ sagaState'[k] = "confirmation_sent"
    BY <1>1, <1>3, TransitionFacts DEF HandleSent, OnConfirmationSent, TransitionByID
  <2>3. QED
    BY <1>3, <2>1, <2>2, Zenon DEF HandleSent, OnConfirmationSent, Stays, Moved
<1>4. CASE HandleConfirmed
  <2>1. HasEvent(subLog, "confirmed", Msg("saga_confirmed").key)
    BY <1>4, MembershipMessage DEF HandleConfirmed
  <2>2. \/ sagaState'[k] = sagaState[k]
        \/ /\ k = Msg("saga_confirmed").key
           /\ sagaState[k] \in Active /\ sagaState'[k] = "completed"
    <3>1. Transition({Msg("saga_confirmed").key}, "completed")
      BY <1>4 DEF HandleConfirmed, OnConfirmed, TransitionByEmailRepo
    <3>2. "completed" \in {"confirmation_sent"} \cup Terminal
      BY DEF Terminal
    <3>3. QED
      BY <1>1, <3>1, <3>2, TransitionFacts
  <2>3. QED
    BY <1>4, <2>1, <2>2 DEF HandleConfirmed, OnConfirmed, Stays, Moved
<1>5. CASE HandleExpired
  <2>1. HasEvent(subLog, "expired", Msg("saga_expired").key)
    BY <1>5, MembershipMessage DEF HandleExpired
  <2>2. \/ sagaState'[k] = sagaState[k]
        \/ /\ k = Msg("saga_expired").key
           /\ sagaState[k] \in Active /\ sagaState'[k] = "expired"
    <3>1. Transition({Msg("saga_expired").key}, "expired")
      BY <1>5 DEF HandleExpired, OnExpired, TransitionByEmailRepo
    <3>2. "expired" \in {"confirmation_sent"} \cup Terminal
      BY DEF Terminal
    <3>3. QED
      BY <1>1, <3>1, <3>2, TransitionFacts
  <2>3. QED
    BY <1>5, <2>1, <2>2, Zenon DEF HandleExpired, OnExpired, Stays, Moved
<1>6. ASSUME NEW j \in deadJob, DeadCompensates(j)
      PROVE  Stays(k) \/ (sagaState[k] \in Active /\ Moved(k))
  <2>1. CASE DeadAborted(j)
    BY <2>1 DEF DeadAborted, Stays
  <2>2. CASE CompensateNATS(j) \/ CompensateGRPC(j)
    BY <2>2, MarkMoves DEF CompensateNATS, CompensateGRPC
  <2>3. QED
    BY <1>6, <2>1, <2>2 DEF DeadCompensates
<1>7. CASE UNCHANGED <<sagaId, sagaState>>
  BY <1>7, Zenon DEF Stays
<1>8. CASE Handlers
  BY <1>2, <1>3, <1>4, <1>5, <1>6, <1>7, <1>8, Zenon
     DEF Handlers, HandleDead, OnConfirmationDead, DeadCalls, CompensateRPC, HandleCompensate,
         HandleConfirmation, ConfirmationRecorded, sagaVars
<1>9. QED
  BY <1>7, <1>8, Zenon DEF Next, vars, sagaVars, Users, Sweep, Time, Retrier, RetrierFails, NotifierStops,
                    HandlerFails, Relay, RelayCrash

(* The outboxes keep what justifies a state.                               *)
LEMMA StillPublished ==
    ASSUME FlowInd, [Next]_vars
    PROVE  /\ \A t, s : Published(subLog, t, s) => Published(subLog', t, s)
           /\ \A t, s : Published(notLog, t, s) => Published(notLog', t, s)
           /\ \A t, k : HasEvent(subLog, t, k) => HasEvent(subLog', t, k)
<1>1. Keeps(subLog, subLog') /\ Keeps(notLog, notLog')
  BY ComponentSteps, SubLogGrows, NotLogGrows, Zenon DEF FlowInd
<1>2. QED
  BY <1>1, KeepsPublished

(* SagaJustified is preserved.                                             *)
LEMMA JustifiedStep ==
    ASSUME FlowInd, [Next]_vars
    PROVE  SagaJustified'
<1>1. ASSUME NEW k \in Keys
      PROVE  /\ sagaState'[k] # "none" => Published(subLog', "pending", sagaId'[k])
             /\ sagaState'[k] = "confirmation_sent" => Published(notLog', "sent", sagaId'[k])
             /\ sagaState'[k] = "completed" => HasEvent(subLog', "confirmed", k)
             /\ sagaState'[k] = "expired" => HasEvent(subLog', "expired", k)
             /\ sagaState'[k] = "compensated" => Published(notLog', "dead", sagaId'[k])
  <2>1. CASE Stays(k)
    BY <2>1, StillPublished, Zenon DEF Stays, FlowInd, SagaJustified
  <2>2. CASE Started(k)
    BY <2>2, StillPublished, Zenon DEF Started
  <2>3. CASE sagaState[k] \in Active /\ Moved(k)
    <3>1. Published(subLog, "pending", sagaId[k])
      BY <2>3, Zenon DEF FlowInd, SagaJustified, Active
    <3>2. QED
      BY <2>3, <3>1, StillPublished, Zenon DEF Moved
  <2>4. QED
    BY <2>1, <2>2, <2>3, SagaMoves, Zenon
<1>2. QED
  BY <1>1 DEF SagaJustified

(* Where a dead event under way comes from.                                *)
LEMMA DeadJobStep ==
    ASSUME FlowInd, [Next]_vars
    PROVE  DeadJobJustified'
<1>1. ASSUME HandleDead, NEW j \in deadJob'
      PROVE  Published(notLog, "dead", j.id) /\ Published(subLog, "pending", j.id)
  <2>1. Published(notLog, "dead", Msg("saga_dead").id)
    BY <1>1, OutcomeMessage, DurableFacts DEF HandleDead
  <2>2. PICK k \in Keys : OnConfirmationDead(k, Msg("saga_dead").id)
    BY <1>1 DEF HandleDead, sagaVars
  <2>3. j.id = Msg("saga_dead").id /\ sagaId[k] = Msg("saga_dead").id /\ sagaState[k] # "none"
    BY <1>1, <2>2 DEF OnConfirmationDead, Active
  <2>4. QED
    BY <2>1, <2>3, StartedSaga
<1>2. ASSUME ~HandleDead, NEW j \in deadJob'
      PROVE  \E i \in deadJob : i.id = j.id
  <2>1. CASE deadJob' \subseteq deadJob
    BY <2>1
  <2>2. ASSUME NEW i \in deadJob, DeadCompensates(i)
        PROVE  \E h \in deadJob : h.id = j.id
    <3>1. i \in DeadJobs
      BY DeadJobFields DEF FlowInd, SagaInd
    <3>2. QED
      BY <1>2, <2>2, <3>1
         DEF DeadCompensates, CompensateNATS, CompensateGRPC, DeadAborted, DeadJobs
  <2>3. CASE Handlers
    BY <1>2, <2>1, <2>2, <2>3, Zenon
       DEF Handlers, HandlePending, OnPending, HandleSent, OnConfirmationSent, HandleConfirmed,
           OnConfirmed, HandleExpired, OnExpired, DeadCalls, CompensateRPC, HandleCompensate,
           HandleConfirmation, ConfirmationRecorded, sagaVars
  <2>4. QED
    BY <2>1, <2>3 DEF Next, vars, sagaVars, Users, Sweep, Time, Retrier, RetrierFails, NotifierStops,
                      HandlerFails, Relay, RelayCrash
<1>3. \A j \in deadJob' : Published(notLog, "dead", j.id) /\ Published(subLog, "pending", j.id)
  BY <1>1, <1>2 DEF FlowInd, DeadJobJustified
<1>4. QED
  BY <1>3, StillPublished DEF DeadJobJustified

(* What a rollback rests on.                                               *)
Deserved(k, s) ==
    /\ Published(notLog, "dead", s) /\ Published(notLog, "failed", s)
    /\ \E j \in DOMAIN subLog : IsEvent(subLog[j], "pending", k) /\ subLog[j].id = s

(* A dead event under way deserves its rollback.                           *)
LEMMA DeadJobDeserved ==
    ASSUME FlowInd, NEW j \in deadJob
    PROVE  Deserved(j.key, j.id)
<1>1. Published(notLog, "dead", j.id) /\ Published(subLog, "pending", j.id)
  BY DEF FlowInd, DeadJobJustified
<1>2. Published(notLog, "failed", j.id)
  <2>1. PICK i \in DOMAIN notLog : notLog[i].type = "dead" /\ notLog[i].id = j.id
    BY <1>1 DEF Published
  <2>2. PICK h \in 1..(i - 1) : notLog[h].type = "failed" /\ notLog[h].id = j.id
    BY <2>1 DEF FlowInd, ConfInd, OutcomeJustified
  <2>3. h \in DOMAIN notLog
    <3>1. notLog \in Seq(Outcomes)
      BY DEF FlowInd, ConfInd, ConfTypeOK, Outcomes
    <3>2. QED
      BY <3>1
  <2>4. QED
    BY <2>2, <2>3 DEF Published
<1>3. j.key = SagaKey[j.id]
  BY DEF FlowInd, SagaInd, IdsFitKeys
<1>4. QED
  BY <1>1, <1>2, <1>3 DEF Deserved, Published, IsEvent, FlowInd, PendingFitsKey

(* RollbackJustified is preserved.                                         *)
LEMMA RollbackStep ==
    ASSUME FlowInd, [Next]_vars
    PROVE  RollbackJustified'
<1>1. ASSUME NEW i \in DOMAIN sagaLog'
      PROVE  Deserved(sagaLog'[i].key, sagaLog'[i].id)
  <2>1. \A h \in DOMAIN sagaLog : Deserved(sagaLog[h].key, sagaLog[h].id)
    BY DEF FlowInd, RollbackJustified, Deserved
  <2>2. CASE sagaLog' = sagaLog
    BY <2>1, <2>2
  <2>3. ASSUME NEW j \in deadJob, CompensateNATS(j)
        PROVE  Deserved(sagaLog'[i].key, sagaLog'[i].id)
    <3>1. sagaLog' = Append(sagaLog, Event("compensate", j.key, j.id, NoSaga))
      BY <2>3 DEF CompensateNATS
    <3>2. /\ DOMAIN sagaLog = 1..Len(sagaLog) /\ Len(sagaLog) \in Nat
          /\ DOMAIN sagaLog' = 1..(Len(sagaLog) + 1)
          /\ \A h \in DOMAIN sagaLog : sagaLog'[h] = sagaLog[h]
          /\ sagaLog'[Len(sagaLog) + 1].key = j.key
          /\ sagaLog'[Len(sagaLog) + 1].id = j.id
      BY <3>1, CommandAppended DEF FlowInd, SagaInd
    <3>3. i \in DOMAIN sagaLog \/ i = Len(sagaLog) + 1
      BY <1>1, <3>2
    <3>4. QED
      BY <2>1, <3>2, <3>3, DeadJobDeserved
  <2>4. QED
    BY ComponentSteps, <2>2, <2>3
       DEF SagaNext, sagaVars, OnPending, OnConfirmationSent, OnConfirmationDead, OnConfirmed,
           OnExpired, CompensateGRPC, CompensateRPC, DeadAborted
<1>2. \A k, s : Deserved(k, s) =>
         /\ Published(notLog', "dead", s) /\ Published(notLog', "failed", s)
         /\ \E j \in DOMAIN subLog' : IsEvent(subLog'[j], "pending", k) /\ subLog'[j].id = s
  <2>1. Keeps(subLog, subLog')
    BY ComponentSteps, SubLogGrows, Zenon DEF FlowInd
  <2>2. QED
    BY <2>1, StillPublished DEF Deserved, Keeps
<1>3. QED
  BY <1>1, <1>2 DEF RollbackJustified

----------------------------------------------------------------------------
(* The mark and the call of the gRPC compensator.                          *)

(* A row that appears belongs to a call that was in flight.                *)
LEMMA RowAppears ==
    ASSUME SubInv, [SubNext]_subVars, NEW k \in Keys, status'[k] = "pending"
    PROVE  \/ status[k] = "pending" /\ unsub'[k] = unsub[k]
           \/ \E q \in reqs : q.id = unsub'[k]
<1>1. /\ status \in [Keys -> {"none", "pending", "confirmed"}]
      /\ unsub \in [Keys -> Sagas \cup {NoSaga}]
      /\ \A q \in reqs : q.key \in Keys
  BY DEF SubInv, SubTypeOK, Requests
<1>2. ASSUME NEW q \in reqs, SubscribeCommit(q)
      PROVE  (status[k] = "pending" /\ unsub'[k] = unsub[k]) \/ q.id = unsub'[k]
  BY <1>1, <1>2 DEF SubscribeCommit
<1>3. CASE \E i \in DOMAIN subLog : Confirm(i)
  <2>1. PICK i \in DOMAIN subLog : Confirm(i)
    BY <1>3
  <2>2. status' = [status EXCEPT ![subLog[i].key] = "confirmed"] /\ unsub' = unsub
    BY <2>1 DEF Confirm
  <2>3. QED
    BY <1>1, <2>2
<1>4. CASE \E l \in Keys : RemoveRow(l)
  BY <1>1, <1>4, Zenon DEF RemoveRow
<1>5. CASE Cleanup
  BY <1>1, <1>5 DEF Cleanup
<1>6. CASE UNCHANGED <<status, unsub>>
  BY <1>6
<1>7. QED
  BY <1>2, <1>3, <1>4, <1>5, <1>6, Zenon
     DEF SubNext, SubscribeResolve, SubscribeAbort, Unsubscribe, Compensate, Tick, subVars

(* A marked job ends with the call, or with a fault.                       *)
LEMMA MarkedJobEnds ==
    ASSUME FlowInd, [Next]_vars, Transport = "grpc",
           NEW j \in deadJob, j.phase = "marked", j \notin deadJob'
    PROVE  status'[j.key] # "pending" \/ faults' = faults + 1
<1>1. deadJob = {j} /\ deadJob # {} /\ j.key \in Keys
  BY DeadJobFields DEF FlowInd, SagaInd
<1>2. ASSUME DeadCompensates(j)
      PROVE  faults' = faults + 1
  <2>1. DeadAborted(j) /\ Redeliver("saga_dead")
    BY <1>2, Zenon DEF DeadCompensates, CompensateNATS, CompensateGRPC
  <2>2. QED
    BY <2>1 DEF Redeliver, Fault
<1>3. ASSUME DeadCalls(j)
      PROVE  status'[j.key] # "pending"
  BY <1>1, <1>3, Zenon
     DEF DeadCalls, CompensateRow, Compensate, Compensable, RemoveRow, subVars, FlowInd, SubInv, SubTypeOK
<1>4. CASE Handlers
  BY <1>1, <1>2, <1>3, <1>4, Zenon
     DEF Handlers, HandlePending, OnPending, HandleSent, OnConfirmationSent, HandleConfirmed,
         OnConfirmed, HandleExpired, OnExpired, HandleDead, HandleCompensate,
         HandleConfirmation, ConfirmationRecorded, sagaVars
<1>5. CASE deadJob' = deadJob
  BY <1>5
<1>6. QED
  BY <1>4, <1>5, Zenon DEF Next, vars, sagaVars, Users, Sweep, Time, Retrier, RetrierFails, NotifierStops,
                    HandlerFails, Relay, RelayCrash

(* Faults are counted.                                                     *)
LEMMA FaultsCounted ==
    ASSUME FlowInd, [Next]_vars
    PROVE  faults \in Nat /\ (faults' = faults \/ faults' = faults + 1)
<1>1. faults \in Nat
  BY DeliveryLimits DEF FlowInd, WireTypeOK
<1> DEFINE Counted == faults' = faults \/ faults' = faults + 1
<1> SUFFICES Counted
  BY <1>1
<1>2. \A d : Done(d) \/ Redeliver(d) => Counted
  BY DEF Done, Ack, Redeliver, Fault
<1>3. UNCHANGED wireVars => Counted
  BY DEF wireVars
<1> HIDE DEF Counted
<1>4. CASE Handlers
  <2>1. CASE HandlePending \/ HandleSent \/ HandleConfirmed \/ HandleExpired
    BY <1>2, <2>1 DEF HandlePending, HandleSent, HandleConfirmed, HandleExpired
  <2>2. CASE HandleDead
    BY <1>2, <1>3, <2>2 DEF HandleDead
  <2>3. CASE \E j \in deadJob : DeadCompensates(j) \/ DeadCalls(j)
    BY <1>2, <1>3, <2>3 DEF DeadCompensates, DeadCalls
  <2>4. CASE HandleCompensate \/ HandleConfirmation
    BY <1>2, <1>3, <2>4 DEF HandleCompensate, HandleConfirmation
  <2>5. CASE \E j \in sending : ConfirmationRecorded(j)
    BY <1>2, <2>5 DEF ConfirmationRecorded
  <2>6. QED
    BY <1>4, <2>1, <2>2, <2>3, <2>4, <2>5 DEF Handlers
<1>5. CASE NotifierStops \/ RetrierFails
  BY <1>2, <1>5 DEF NotifierStops, RetrierFails, Fault, Counted
<1>6. CASE \E d \in Durables : HandlerFails(d)
  BY <1>2, <1>6 DEF HandlerFails
<1>7. CASE \E v \in Services : Relay(v) \/ \E n \in 1..(Len(Outboxes[v]) - relayed[v]) : RelayCrash(v, n)
  BY <1>7 DEF Relay, RelayCrash, Fault, Counted
<1>8. CASE UNCHANGED wireVars
  BY <1>3, <1>8
<1>9. QED
  BY <1>4, <1>5, <1>6, <1>7, <1>8, Zenon DEF Next, vars, Users, Sweep, Time, Retrier

(* MarkedIsRolledBack is preserved.                                        *)
LEMMA MarkedStep ==
    ASSUME FlowInd, [Next]_vars
    PROVE  MarkedIsRolledBack'
<1> SUFFICES ASSUME Transport = "grpc", faults' = 0, NEW k \in Keys,
                    sagaState'[k] = "compensated", status'[k] = "pending", unsub'[k] = sagaId'[k]
             PROVE  [key |-> k, id |-> sagaId'[k], phase |-> "marked"] \in deadJob'
  BY DEF MarkedIsRolledBack
<1> DEFINE job == [key |-> k, id |-> sagaId[k], phase |-> "marked"]
<1>1. faults = 0 /\ faults' # faults + 1
  BY FaultsCounted
<1>2. CASE Stays(k)
  <2>1. sagaState[k] = "compensated" /\ sagaId'[k] = sagaId[k]
    BY <1>2 DEF Stays
  <2>2. Published(subLog, "pending", sagaId[k])
    BY <2>1 DEF FlowInd, SagaJustified
  <2>3. ~\E q \in reqs : q.id = unsub'[k]
    BY <2>1, <2>2 DEF FlowInd, SubInv, FreshRequests
  <2>4. status[k] = "pending" /\ unsub[k] = sagaId[k]
    <3>1. SubInv /\ [SubNext]_subVars
      BY ComponentSteps, Zenon DEF FlowInd
    <3>2. status[k] = "pending" /\ unsub'[k] = unsub[k]
      BY <2>3, <3>1, RowAppears, Zenon
    <3>3. QED
      BY <2>1, <3>2
  <2>5. job \in deadJob
    BY <1>1, <2>1, <2>4, Zenon DEF FlowInd, MarkedIsRolledBack
  <2>6. job.phase = "marked" /\ job.key = k
    OBVIOUS
  <2> HIDE DEF job
  <2>7. job \in deadJob'
    BY <1>1, <2>5, <2>6, MarkedJobEnds, Zenon
  <2>8. QED
    BY <2>1, <2>7 DEF job
<1>3. CASE ~Stays(k)
  <2>1. Moved(k)
    BY <1>3, SagaMoves DEF Started
  <2>2. QED
    BY <2>1 DEF Moved
<1>4. QED
  BY <1>2, <1>3

----------------------------------------------------------------------------
(* The relays leave the wire in order.                                     *)

(* What the filter of a durable makes of a batch: messages of the batch,   *)
(* on its subject only.  Proved last (FilterHolds), from the library's     *)
(* laws of finite sets.                                                    *)
Filtered(b, t, new) ==
    /\ new \in Seq(EventSet(Subjects))
    /\ \A p \in DOMAIN new : new[p].type = t /\ \E i \in DOMAIN b : new[p] = b[i]

FilterLaw == \A b \in Seq(EventSet(Subjects)) : \A t : Filtered(b, t, OnSubject(b, t))

(* The n events of an outbox after the first m.                            *)
LEMMA BatchFacts ==
    ASSUME NEW E, NEW lg \in Seq(E), NEW m \in Nat, NEW n \in Nat, m + n <= Len(lg)
    PROVE  /\ SubSeq(lg, m + 1, m + n) \in Seq(E)
           /\ \A i \in DOMAIN SubSeq(lg, m + 1, m + n) :
                 m + i \in DOMAIN lg /\ SubSeq(lg, m + 1, m + n)[i] = lg[m + i]
<1> DEFINE b == SubSeq(lg, m + 1, m + n)
<1>1. /\ Len(lg) \in Nat /\ DOMAIN lg = 1..Len(lg)
      /\ \A i \in 1..n : m + i \in 1..Len(lg) /\ lg[m + i] \in E
  OBVIOUS
<1>2. b = [i \in 1..n |-> lg[m + i]]
  <2>1. b = [i \in 1..((m + n) - (m + 1) + 1) |-> lg[i + (m + 1) - 1]]
    OBVIOUS
  <2>2. (m + n) - (m + 1) + 1 = n /\ \A i \in 1..n : i + (m + 1) - 1 = m + i
    OBVIOUS
  <2>3. QED
    BY <2>1, <2>2
<1> HIDE DEF b
<1>3. b \in [1..n -> E] /\ DOMAIN b = 1..n
  BY <1>1, <1>2
<1>4. b \in Seq(E) /\ \A i \in DOMAIN b : m + i \in DOMAIN lg /\ b[i] = lg[m + i]
  BY <1>1, <1>2, <1>3
<1>5. QED
  BY <1>4, Zenon DEF b

(* What a queue holds when messages are added to it.                       *)
Concatenated(E, a, b, ab) ==
    /\ ab \in Seq(E)
    /\ a # <<>> => ab # <<>>
    /\ \A i \in DOMAIN ab :
          \/ i \in DOMAIN a /\ ab[i] = a[i]
          \/ \E p \in DOMAIN b : ab[i] = b[p]

(* Those it had, and the new ones.                                         *)
LEMMA ConcatFacts ==
    ASSUME NEW E, NEW a \in Seq(E), NEW b \in Seq(E)
    PROVE  Concatenated(E, a, b, a \o b)
<1>1. a \o b \in Seq(E) /\ (a # <<>> => a \o b # <<>>)
  OBVIOUS
<1>2. ASSUME NEW i \in DOMAIN (a \o b), i > Len(a)
      PROVE  i - Len(a) \in DOMAIN b /\ (a \o b)[i] = b[i - Len(a)]
  BY <1>2
<1>3. ASSUME NEW i \in DOMAIN (a \o b), i <= Len(a)
      PROVE  i \in DOMAIN a /\ (a \o b)[i] = a[i]
  BY <1>3
<1>4. \A i \in DOMAIN (a \o b) : i > Len(a) \/ i <= Len(a)
  OBVIOUS
<1>5. QED
  BY <1>1, <1>2, <1>3, <1>4, Zenon DEF Concatenated

(* A relay publishes.                                                      *)
LEMMA PublishFacts ==
    ASSUME FilterLaw, FlowInd, NEW v \in Services, NEW n \in Nat,
           relayed[v] + n <= Len(Outboxes[v]), Publish(v, n)
    PROVE  QueuesFit /\ \A d \in Durables : HasMessage(d) => HasMessage(d)'
<1> DEFINE batch == SubSeq(Outboxes[v], relayed[v] + 1, relayed[v] + n)
<1>1. /\ Outboxes[v] \in Seq(EventSet(Subjects)) /\ relayed[v] \in Nat
      /\ queue \in [Durables -> Seq(EventSet(Subjects))]
  BY OutboxFacts DEF FlowInd, WireTypeOK
<1>2. /\ batch \in Seq(EventSet(Subjects))
      /\ \A i \in DOMAIN batch :
            relayed[v] + i \in DOMAIN Outboxes[v] /\ batch[i] = Outboxes[v][relayed[v] + i]
  <2> DEFINE E == EventSet(Subjects)
             lg == Outboxes[v]
             m == relayed[v]
  <2>1. lg \in Seq(E) /\ m \in Nat /\ m + n <= Len(lg)
    BY <1>1
  <2> HIDE DEF E, lg, m
  <2>2. /\ SubSeq(lg, m + 1, m + n) \in Seq(E)
        /\ \A i \in DOMAIN SubSeq(lg, m + 1, m + n) :
              m + i \in DOMAIN lg /\ SubSeq(lg, m + 1, m + n)[i] = lg[m + i]
    BY <2>1, BatchFacts, Zenon
  <2>3. QED
    BY <2>2, Zenon DEF E, lg, m
<1>3. queue' = [d \in Durables |-> queue[d] \o OnSubject(batch, Subject[d])]
  BY DEF Publish
<1> HIDE DEF batch
<1>4. \A i \in DOMAIN batch : Committed(batch[i])
  BY <1>2, Zenon DEF Committed
<1>5. ASSUME NEW d \in Durables
      PROVE  /\ queue'[d] \in Seq(EventSet(Subjects))
             /\ HasMessage(d) => HasMessage(d)'
             /\ \A i \in DOMAIN queue'[d] :
                   queue'[d][i].type = Subject[d] /\ Committed(queue'[d][i])
  <2> DEFINE new == OnSubject(batch, Subject[d])
  <2>1. Filtered(batch, Subject[d], new)
    BY <1>2, Zenon DEF FilterLaw
  <2>2. queue'[d] = queue[d] \o new /\ queue[d] \in Seq(EventSet(Subjects))
    BY <1>1, <1>3, Zenon
  <2> HIDE DEF new
  <2>3. \A p \in DOMAIN new : new[p].type = Subject[d] /\ Committed(new[p])
    BY <1>4, <2>1, Zenon DEF Filtered
  <2>4. \A i \in DOMAIN queue[d] : queue[d][i].type = Subject[d] /\ Committed(queue[d][i])
    BY Zenon DEF FlowInd, WireTypeOK, QueuedWasCommitted
  <2>5. Concatenated(EventSet(Subjects), queue[d], new, queue'[d])
    BY <2>1, <2>2, ConcatFacts, Zenon DEF Filtered
  <2>6. QED
    BY <2>3, <2>4, <2>5, Zenon DEF HasMessage, Concatenated
<1>6. queue' \in [Durables -> Seq(EventSet(Subjects))]
  BY <1>3, <1>5, Zenon
<1>7. QED
  BY <1>5, <1>6, Zenon DEF QueuesFit

(* So does every step.                                                     *)
LEMMA AnyWire ==
    ASSUME FilterLaw, FlowInd, [Next]_vars
    PROVE  QueuesFit /\ CountersFit /\ HandsFit
<1> USE DurableFacts
<1>1. /\ deadJob # {} => queue["saga_dead"] # <<>>
      /\ sending # {} => queue["notifier_pending"] # <<>>
  BY DEF FlowInd, InHand, HasMessage
<1>2. ASSUME UNCHANGED wireVars, deadJob' = deadJob, sending' = sending
      PROVE  QueuesFit /\ CountersFit /\ HandsFit
  BY <1>1, <1>2, WireSame DEF wireVars, HandsFit
<1>3. CASE Users \/ Sweep
  BY <1>2, <1>3 DEF Users, Sweep, sagaVars, confVars
<1>4. CASE Time
  BY <1>2, <1>4 DEF Time, ConfTick, sagaVars
<1>5. CASE Retrier
  <2>1. sending' = sending
    BY <1>5, Zenon DEF Retrier, DeadLetterExpired, ListRetryable, RetrySend, RetryOutcome
  <2>2. QED
    BY <1>2, <1>5, <2>1 DEF Retrier, sagaVars
<1>6. CASE RetrierFails
  <2>1. /\ UNCHANGED <<queue, tries, relayed>> /\ Fault
        /\ sending' = sending /\ deadJob' = deadJob
    BY <1>6 DEF RetrierFails, RetryAborted, sagaVars
  <2>2. QED
    BY <1>1, <2>1, WireSame, Zenon DEF HandsFit
<1>7. CASE NotifierStops
  <2>1. sending' = {} /\ deadJob' = deadJob
    BY <1>7 DEF NotifierStops, NotifierCrash, sagaVars
  <2>2. CASE sending # {}
    <3>1. HasMessage("notifier_pending") /\ Done("notifier_pending")
      BY <1>1, <1>7, <2>2 DEF NotifierStops, Done, HasMessage
    <3>2. QED
      BY <1>1, <2>1, <3>1, SettleFacts DEF HandsFit
  <2>3. CASE sending = {}
    <3>1. UNCHANGED <<queue, tries, relayed>> /\ Fault
      BY <1>7, <2>3 DEF NotifierStops
    <3>2. QED
      BY <1>1, <2>1, <3>1, WireSame DEF HandsFit
  <2>4. QED
    BY <2>2, <2>3
<1>8. CASE Handlers
  BY <1>8, HandlerWire, Zenon
<1>9. ASSUME NEW d \in Durables, HandlerFails(d)
      PROVE  QueuesFit /\ CountersFit /\ HandsFit
  <2>1. HasMessage(d) /\ Idle(d) /\ Done(d) /\ deadJob' = deadJob /\ sending' = sending
    BY <1>9 DEF HandlerFails, Done, sagaVars, confVars
  <2>2. QED
    BY <1>1, <2>1, SettleFacts DEF HandsFit, Idle
<1>10. ASSUME NEW v \in Services, NEW n \in Nat, relayed[v] + n <= Len(Outboxes[v]), Publish(v, n),
             deadJob' = deadJob, sending' = sending
      PROVE  QueuesFit /\ HandsFit
  BY <1>1, <1>10, PublishFacts DEF HandsFit, HasMessage
<1>11. \A v \in Services : relayed[v] \in Nat /\ Len(Outboxes[v]) \in Nat
  <2>1. \A v \in Services : Outboxes[v] \in Seq(EventSet(Subjects))
    BY OutboxFacts
  <2>2. \A v \in Services : relayed[v] \in Nat
    BY DEF FlowInd, WireTypeOK
  <2>3. \A v \in Services : Len(Outboxes[v]) \in Nat
    BY <2>1
  <2>4. QED
    BY <2>2, <2>3
<1>12. ASSUME NEW v \in Services, Relay(v)
       PROVE  QueuesFit /\ CountersFit /\ HandsFit
  <2>1. /\ relayed[v] + 1 <= Len(Outboxes[v]) /\ Publish(v, 1)
        /\ deadJob' = deadJob /\ sending' = sending
    BY <1>11, <1>12 DEF Relay, sagaVars, confVars
  <2>2. QueuesFit /\ HandsFit
    BY <1>10, <2>1
  <2>3. /\ relayed \in [Services -> Nat] /\ \A u \in Services : relayed[u] <= Len(Outboxes[u])
        /\ relayed' = [relayed EXCEPT ![v] = @ + 1] /\ tries' = tries /\ faults' = faults
    BY <1>12, Zenon DEF Relay, FlowInd, WireTypeOK
  <2>4. relayed' \in [Services -> Nat] /\ \A u \in Services : relayed'[u] <= Len(Outboxes[u])
    BY <2>1, <2>3
  <2>5. QED
    BY <2>2, <2>3, <2>4, Zenon DEF CountersFit, FlowInd, WireTypeOK
<1>13. ASSUME NEW v \in Services, NEW n \in 1..(Len(Outboxes[v]) - relayed[v]), RelayCrash(v, n)
       PROVE  QueuesFit /\ CountersFit /\ HandsFit
  <2>1. /\ n \in Nat /\ relayed[v] + n <= Len(Outboxes[v]) /\ Publish(v, n)
        /\ deadJob' = deadJob /\ sending' = sending
    BY <1>11, <1>13 DEF RelayCrash, sagaVars, confVars
  <2>2. QueuesFit /\ HandsFit
    BY <1>10, <2>1
  <2>3. UNCHANGED <<tries, relayed>> /\ faults < MaxFaults /\ faults' = faults + 1
    BY <1>13 DEF RelayCrash, Fault
  <2>4. CountersFit
    <3>1. faults \in 0..MaxFaults /\ MaxFaults \in Nat
      BY DeliveryLimits DEF FlowInd, WireTypeOK
    <3>2. faults' \in 0..MaxFaults
      BY <2>3, <3>1
    <3>3. QED
      BY <2>3, <3>2, Zenon DEF CountersFit, FlowInd, WireTypeOK
  <2>5. QED
    BY <2>2, <2>4
<1>14. CASE UNCHANGED vars
  BY <1>2, <1>14 DEF vars, sagaVars, confVars
<1>15. QED
  BY <1>3, <1>4, <1>5, <1>6, <1>7, <1>8, <1>9, <1>12, <1>13, <1>14 DEF Next

(* Types, provenance and acknowledgements are preserved.                   *)
LEMMA WireStep ==
    ASSUME FilterLaw, FlowInd, [Next]_vars
    PROVE  WireTypeOK' /\ QueuedWasCommitted' /\ InHand'
<1>1. QueuesFit /\ CountersFit /\ HandsFit
  BY AnyWire
<1>2. SagaTypeOK' /\ ConfTypeOK'
  BY ComponentInds DEF SagaInd, ConfInd
<1>3. ASSUME NEW v \in Services
      PROVE  relayed'[v] <= Len(Outboxes'[v])
  <2>1. relayed'[v] \in Nat /\ relayed'[v] <= Len(Outboxes[v]) /\ Len(Outboxes[v]) <= Len(Outboxes'[v])
    BY <1>1, OutboxesGrow DEF CountersFit, Keeps
  <2>2. Len(Outboxes[v]) \in Nat /\ Len(Outboxes'[v]) \in Nat
    <3>1. subLog' \in Seq(SubEvents) /\ notLog' \in Seq(Outcomes)
          /\ sagaLog' \in Seq(EventSet({"compensate"}))
      BY ComponentInds, Zenon DEF SubInv, SubTypeOK, SagaInd, SagaTypeOK, ConfInd, ConfTypeOK, Outcomes
    <3>2. Len(Outboxes'[v]) \in Nat
      BY <3>1 DEF Outboxes, Services
    <3>3. Outboxes[v] \in Seq(EventSet(Subjects))
      BY OutboxFacts, Zenon
    <3>4. QED
      BY <3>2, <3>3
  <2>3. QED
    BY <2>1, <2>2
<1>4. WireTypeOK'
  BY <1>1, <1>2, <1>3, Zenon DEF QueuesFit, CountersFit, WireTypeOK
<1>5. QueuedWasCommitted'
  BY <1>1, OutboxesGrow, Zenon DEF QueuesFit, QueuedWasCommitted
<1>6. QED
  BY <1>1, <1>4, <1>5 DEF HandsFit, InHand, HasMessage

----------------------------------------------------------------------------
(* FlowInd is inductive.                                                   *)

(* Every step of the composition preserves the invariant.                  *)
LEMMA FlowStep ==
    ASSUME FilterLaw, FlowInd, [Next]_vars
    PROVE  FlowInd'
BY ComponentInds, WireStep, KeyStep, DeadJobStep, JustifiedStep, RollbackStep, MarkedStep
   DEF FlowInd

----------------------------------------------------------------------------
(* The filter of a durable.                                                *)
FS == INSTANCE FiniteSetTheorems

(* The cardinality that the library's theorems are about.                  *)
LEMMA SameCardinality ==
    \A S : Cardinality(S) = FS!Cardinality(S) /\ (IsFiniteSet(S) <=> FS!IsFiniteSet(S))
BY DEF Cardinality, FS!Cardinality, IsFiniteSet, FS!IsFiniteSet

(* The laws of counting that are used below.                               *)
LEMMA CountingLaws ==
    /\ Cardinality({}) = 0
    /\ \A S : IsFiniteSet(S) => Cardinality(S) \in Nat
    /\ \A S, T : IsFiniteSet(T) /\ S \subseteq T => IsFiniteSet(S) /\ Cardinality(S) <= Cardinality(T)
    /\ \A S, x : IsFiniteSet(S) /\ x \notin S => Cardinality(S \cup {x}) = Cardinality(S) + 1
    /\ \A n \in Nat : IsFiniteSet(1..n)
<1>1. Cardinality({}) = 0
  BY SameCardinality, FS!FS_EmptySet
<1>2. ASSUME NEW S, IsFiniteSet(S) PROVE Cardinality(S) \in Nat
  BY <1>2, SameCardinality, FS!FS_CardinalityType
<1>3. ASSUME NEW S, NEW T, IsFiniteSet(T), S \subseteq T
      PROVE  IsFiniteSet(S) /\ Cardinality(S) <= Cardinality(T)
  <2>1. FS!IsFiniteSet(T) /\ S \in SUBSET T
    BY <1>3, SameCardinality
  <2>2. FS!IsFiniteSet(S) /\ FS!Cardinality(S) <= FS!Cardinality(T)
    BY <2>1, FS!FS_Subset, Zenon
  <2>3. QED
    BY <2>2, SameCardinality
<1>4. ASSUME NEW S, NEW x, IsFiniteSet(S), x \notin S
      PROVE  Cardinality(S \cup {x}) = Cardinality(S) + 1
  <2>1. FS!Cardinality(S \cup {x}) = IF x \in S THEN FS!Cardinality(S) ELSE FS!Cardinality(S) + 1
    BY <1>4, SameCardinality, FS!FS_AddElement, Zenon
  <2>2. QED
    BY <1>4, <2>1, SameCardinality
<1>5. ASSUME NEW n \in Nat PROVE IsFiniteSet(1..n)
  BY SameCardinality, FS!FS_Interval
<1>6. QED
  BY <1>1, <1>2, <1>3, <1>4, <1>5, Zenon

(* Induction over the naturals, stated for a set, so that it can be cited. *)
LEMMA SetInduction ==
    ASSUME NEW T, 0 \in T, \A n \in Nat : n \in T => n + 1 \in T
    PROVE  Nat \subseteq T
<1> DEFINE Rest == Nat \ T
<1> SUFFICES ASSUME Rest # {}
             PROVE  FALSE
  OBVIOUS
<1>1. \A x, y \in Nat : x < y => <<x, y>> \in FS!OpToRel(<, Nat)
  BY DEF FS!OpToRel
<1>2. PICK x \in Rest : \A y \in Rest : <<y, x>> \notin FS!OpToRel(<, Nat)
  <2>1. Rest \subseteq Nat
    OBVIOUS
  <2> HIDE DEF Rest
  <2>2. QED
    BY <2>1, FS!WFMin, FS!NatLessThanWellFounded, Zenon
<1> x \in Nat /\ x \notin T
  BY <1>2, Zenon
<1> HIDE DEF Rest
<1>3. x # 0 /\ x - 1 \in Nat /\ x - 1 < x /\ (x - 1) + 1 = x
  OBVIOUS
<1>4. x - 1 \in T
  <2>1. x - 1 \notin Rest
    BY <1>1, <1>2, <1>3, Zenon
  <2>2. QED
    BY <1>3, <2>1 DEF Rest
<1>5. QED
  BY <1>3, <1>4

(* A finite set of positions has a p-th member, for every p up to its      *)
(* size.                                                                   *)
LEMMA NthExists ==
    ASSUME NEW n \in Nat, NEW at, IsFiniteSet(at), \A h \in at : h \in Nat /\ 1 <= h /\ h <= n
    PROVE  /\ Cardinality(at) \in Nat
           /\ \A p \in 1..Cardinality(at) : \E i \in at : Cardinality({h \in at : h <= i}) = p
<1> DEFINE Up(m) == {h \in at : h <= m}
           T == {m \in Nat : \A p \in 1..Cardinality(Up(m)) :
                                \E i \in at : Cardinality(Up(i)) = p}
<1>1. ASSUME NEW m \in Nat
      PROVE  IsFiniteSet(Up(m)) /\ Cardinality(Up(m)) \in Nat
  <2>1. Up(m) \in SUBSET at
    OBVIOUS
  <2> HIDE DEF Up
  <2>2. QED
    BY <2>1, CountingLaws
<1>2. 0 \in T
  <2>1. Up(0) = {}
    OBVIOUS
  <2> HIDE DEF Up
  <2>2. Cardinality(Up(0)) = 0
    BY <2>1, CountingLaws, Zenon
  <2>3. \A p \in 1..Cardinality(Up(0)) : FALSE
    BY <2>2
  <2>4. QED
    BY <2>3
<1>3. ASSUME NEW m \in T
      PROVE  m + 1 \in T
  <2>1. CASE m + 1 \notin at
    <3>1. Up(m + 1) = Up(m)
      BY <2>1
    <3>2. QED
      BY <3>1
  <2>2. CASE m + 1 \in at
    <3>1. Up(m + 1) = Up(m) \cup {m + 1} /\ m + 1 \notin Up(m)
      BY <2>2
    <3>2. Cardinality(Up(m + 1)) = Cardinality(Up(m)) + 1
      <4> HIDE DEF Up
      <4>1. QED
        BY <1>1, <3>1, CountingLaws
    <3>3. ASSUME NEW p \in 1..Cardinality(Up(m + 1))
          PROVE  \E i \in at : Cardinality(Up(i)) = p
      <4>1. CASE p \in 1..Cardinality(Up(m))
        BY <4>1
      <4>2. CASE p = Cardinality(Up(m + 1))
        BY <2>2, <4>2, Zenon
      <4> HIDE DEF Up
      <4>3. QED
        BY <1>1, <3>2, <4>1, <4>2
    <3>4. QED
      BY <3>3
  <2>3. QED
    BY <2>1, <2>2
<1>4. n \in T
  <2> HIDE DEF T
  <2>1. QED
    BY <1>2, <1>3, SetInduction
<1>5. Up(n) = at
  OBVIOUS
<1>6. QED
  BY <1>1, <1>4, <1>5, Zenon

(* The messages at the positions of the subject, in their order.           *)
LEMMA OnSubjectFacts ==
    ASSUME NEW E, NEW b \in Seq(E), NEW t
    PROVE  /\ OnSubject(b, t) \in Seq(E)
           /\ \A p \in DOMAIN OnSubject(b, t) :
                 OnSubject(b, t)[p].type = t /\ \E i \in DOMAIN b : OnSubject(b, t)[p] = b[i]
<1> DEFINE at == {i \in DOMAIN b : b[i].type = t}
           nth(p) == CHOOSE i \in at : Cardinality({h \in at : h <= i}) = p
           c == Cardinality(at)
<1>1. /\ Len(b) \in Nat
      /\ \A h \in at : h \in Nat /\ 1 <= h /\ h <= Len(b)
      /\ IsFiniteSet(at)
  <2>1. Len(b) \in Nat /\ DOMAIN b = 1..Len(b)
    OBVIOUS
  <2>2. IsFiniteSet(1..Len(b)) /\ at \in SUBSET (1..Len(b))
    BY <2>1, CountingLaws
  <2>3. \A h \in at : h \in Nat /\ 1 <= h /\ h <= Len(b)
    BY <2>1
  <2> HIDE DEF at
  <2>4. QED
    BY <2>1, <2>2, <2>3, CountingLaws, Zenon
<1>2. c \in Nat /\ \A p \in 1..c : nth(p) \in at
  <2> HIDE DEF at
  <2>1. QED
    BY <1>1, NthExists, Zenon
<1>3. \A p \in 1..c : nth(p) \in DOMAIN b /\ b[nth(p)].type = t /\ b[nth(p)] \in E
  <2> HIDE DEF nth, c
  <2>1. QED
    BY <1>2
<1>4. OnSubject(b, t) = [p \in 1..c |-> b[nth(p)]]
  BY DEF OnSubject
<1> HIDE DEF nth, c
<1>5. OnSubject(b, t) \in [1..c -> E]
  BY <1>3, <1>4, Zenon
<1>6. QED
  BY <1>2, <1>3, <1>4, <1>5

(* So the law holds.                                                       *)
LEMMA FilterHolds == FilterLaw
BY OnSubjectFacts DEF FilterLaw, Filtered

----------------------------------------------------------------------------
(* The theorems.                                                           *)

(* FlowInd is an inductive invariant of the Subscribe transaction.         *)
THEOREM FlowInvariance == Spec => []FlowInd
BY FlowStart, FlowStep, FilterHolds, PTL DEF Spec

(* The services, connected by relays and broker, behave like their own     *)
(* specifications: what was proved of each service on its own, for         *)
(* whatever events arrive, holds in the transaction.  In particular every  *)
(* message that reaches a handler carries a key and a saga that exist.     *)
THEOREM TransactionRefinesServices == Spec => SubSpec /\ SagaSpec /\ ConfSpec
<1>1. Init => SubInit /\ SagaInit /\ ConfInit
  BY DEF Init
<1>2. FlowInd /\ [Next]_vars => [SubNext]_subVars /\ [SagaNext]_sagaVars /\ [ConfNext]_confVars
  BY ComponentSteps
<1>3. QED
  BY <1>1, <1>2, FlowInvariance, PTL DEF Spec, SubSpec, SagaSpec, ConfSpec

(* Relays, queues, delivery counters and the steps under way keep their    *)
(* types, and a durable holds only messages of its subject.                *)
THEOREM WireTypeCorrect == Spec => []WireTypeOK
<1>1. FlowInd => WireTypeOK
  BY DEF FlowInd
<1>2. QED
  BY <1>1, FlowInvariance, PTL

(* coordinator.go, with relays that publish twice and a broker that        *)
(* delivers again, drops and reorders across subjects: the state of a saga *)
(* reflects an event that some service committed.                          *)
THEOREM ProgressIsJustified == Spec => []SagaJustified
<1>1. FlowInd => SagaJustified
  BY DEF FlowInd
<1>2. QED
  BY <1>1, FlowInvariance, PTL

(* Only a dead confirmation rolls back: every saga.compensate command      *)
(* follows the dead, the failed and the pending event of its saga.         *)
THEOREM RollbacksAreJustified == Spec => []RollbackJustified
<1>1. FlowInd => RollbackJustified
  BY DEF FlowInd
<1>2. QED
  BY <1>1, FlowInvariance, PTL

(* grpc_compensator.go: until something fails, a compensated saga's row    *)
(* outlives the mark only while the call is under way.                     *)
THEOREM MarkPrecedesCall == Spec => []MarkedIsRolledBack
<1>1. FlowInd => MarkedIsRolledBack
  BY DEF FlowInd
<1>2. QED
  BY <1>1, FlowInvariance, PTL

(* In the transaction, too, a compensated saga has its command, an outcome *)
(* its cause, and a terminal saga is left only by a new start.             *)
THEOREM ServicesKeepPromises ==
    Spec => []CompensatedHasCommand /\ []OutcomeJustified /\ TerminalLeftByStart
BY TransactionRefinesServices, CommandEnqueued, OutcomesAreJustified, TerminalIsFinal, PTL
=============================================================================
