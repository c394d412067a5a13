------------------------- MODULE SagaServicesProofs -------------------------
(***************************************************************************)
(* Proofs about SagaCoordinator and about Confirmations, each on its own,  *)
(* for every set of keys and sagas, both transports, every MaxRetries and  *)
(* ConfTTL, and whatever events arrive, in whatever order and however      *)
(* often.                                                                  *)
(*                                                                         *)
(* CompensatedHasCommand is not inductive: TransitionByID marks the rows   *)
(* with the saga id, whereas the command names the key that was read       *)
(* earlier.  The two agree because an id belongs to one key (IdsFitKeys).  *)
(*                                                                         *)
(* OutcomeJustified is not inductive: the retrier declares dead the saga   *)
(* it reads from the row, so the proof needs that a row's saga has failed  *)
(* (RowHasFailed), that the row the retrier listed or is sending for is    *)
(* still there (RetrierHoldsRow), and that a success under way is one of   *)
(* an e-mail that left (SuccessWasMailed).                                 *)
(***************************************************************************)
EXTENDS SagaCoordinator, Confirmations, TLAPS

----------------------------------------------------------------------------
(* The coordinator.                                                        *)

(* A row, a dead event under way and a command have the key their saga id  *)
(* was minted for.                                                         *)
IdsFitKeys ==
    /\ \A k \in Keys : sagaId[k] # NoSaga => SagaKey[sagaId[k]] = k
    /\ \A j \in deadJob : SagaKey[j.id] = j.key

SagaInd == SagaTypeOK /\ IdsFitKeys /\ CompensatedHasCommand

----------------------------------------------------------------------------
(* The fields of a dead event under way.                                   *)
LEMMA DeadJobFields ==
    ASSUME SagaTypeOK, NEW j \in deadJob
    PROVE  /\ deadJob = {j} /\ j \in DeadJobs
           /\ j.key \in Keys /\ j.id \in Sagas /\ j.phase \in {"read", "marked"}
BY DEF SagaTypeOK, DeadJobs

(* What an UPDATE of the state may do: from an active state to `to`.       *)
LEMMA TransitionFacts ==
    ASSUME SagaTypeOK, NEW ks, NEW to \in {"confirmation_sent"} \cup Terminal, Transition(ks, to)
    PROVE  /\ sagaState' \in [Keys -> {"none"} \cup Active \cup Terminal]
           /\ \A k \in Keys : \/ sagaState'[k] = sagaState[k]
                              \/ k \in ks /\ sagaState[k] \in Active /\ sagaState'[k] = to
<1>1. SourceStates(to) \subseteq Active
  BY DEF SourceStates
<1>2. QED
  BY <1>1 DEF Transition, SagaTypeOK, Active, Terminal

(* A command is an event of the outbox.                                    *)
LEMMA CommandAppended ==
    ASSUME SagaTypeOK, NEW j \in deadJob,
           sagaLog' = Append(sagaLog, Event("compensate", j.key, j.id, NoSaga))
    PROVE  /\ sagaLog' \in Seq(EventSet({"compensate"}))
           /\ DOMAIN sagaLog = 1..Len(sagaLog) /\ Len(sagaLog) \in Nat
           /\ DOMAIN sagaLog' = 1..(Len(sagaLog) + 1)
           /\ \A i \in DOMAIN sagaLog : sagaLog'[i] = sagaLog[i]
           /\ sagaLog'[Len(sagaLog) + 1].key = j.key
           /\ sagaLog'[Len(sagaLog) + 1].id = j.id
<1> DEFINE e == Event("compensate", j.key, j.id, NoSaga)
<1>1. e \in EventSet({"compensate"}) /\ e.key = j.key /\ e.id = j.id
  BY DeadJobFields DEF Event, EventSet
<1>2. sagaLog \in Seq(EventSet({"compensate"}))
  BY DEF SagaTypeOK
<1> HIDE DEF e
<1>3. /\ Append(sagaLog, e) \in Seq(EventSet({"compensate"}))
      /\ DOMAIN sagaLog = 1..Len(sagaLog) /\ Len(sagaLog) \in Nat
      /\ DOMAIN Append(sagaLog, e) = 1..(Len(sagaLog) + 1)
      /\ \A i \in DOMAIN sagaLog : Append(sagaLog, e)[i] = sagaLog[i]
      /\ Append(sagaLog, e)[Len(sagaLog) + 1] = e
  BY <1>1, <1>2
<1>4. sagaLog' = Append(sagaLog, e)
  BY DEF e
<1>5. QED
  BY <1>1, <1>3, <1>4

----------------------------------------------------------------------------
(* Each handler preserves the invariant.                                   *)

(* Start resets the key's row to pending, under the new id.                *)
LEMMA StartInd ==
    ASSUME SagaInd, NEW s \in Sagas, OnPending(SagaKey[s], s)
    PROVE  SagaInd'
<1> USE DEF SagaInd, OnPending
<1> SagaKey[s] \in Keys /\ s # NoSaga
  BY SagaKeyIsKey, NoSagaIsNew
<1>1. SagaTypeOK'
  BY DEF SagaTypeOK, Active
<1>2. IdsFitKeys'
  BY DEF IdsFitKeys, SagaTypeOK
<1>3. CompensatedHasCommand'
  BY DEF CompensatedHasCommand, SagaTypeOK
<1>4. QED
  BY <1>1, <1>2, <1>3

(* The transitions that compensate nothing.                                *)
LEMMA ProgressInd ==
    ASSUME SagaInd, NEW ks, NEW to \in {"confirmation_sent", "completed", "expired"},
           Transition(ks, to), UNCHANGED <<sagaId, deadJob, sagaLog>>
    PROVE  SagaInd'
<1> USE DEF SagaInd
<1>1. /\ sagaState' \in [Keys -> {"none"} \cup Active \cup Terminal]
      /\ \A k \in Keys : sagaState'[k] = sagaState[k] \/ sagaState'[k] = to
  BY TransitionFacts DEF Terminal
<1>2. SagaTypeOK' /\ IdsFitKeys'
  BY <1>1 DEF SagaTypeOK, IdsFitKeys
<1>3. CompensatedHasCommand'
  BY <1>1 DEF CompensatedHasCommand
<1>4. QED
  BY <1>2, <1>3

(* The read of a dead event's saga.                                        *)
LEMMA DeadReadInd ==
    ASSUME SagaInd, NEW s \in Sagas, NEW k \in Keys, OnConfirmationDead(k, s)
    PROVE  SagaInd'
<1> USE DEF SagaInd
<1> DEFINE j == [key |-> k, id |-> s, phase |-> "read"]
<1>1. deadJob' = {j} /\ j \in DeadJobs /\ SagaKey[s] = k /\ UNCHANGED <<sagaId, sagaState, sagaLog>>
  BY NoSagaIsNew DEF OnConfirmationDead, DeadJobs, IdsFitKeys
<1>2. SagaTypeOK' /\ CompensatedHasCommand'
  BY <1>1 DEF SagaTypeOK, CompensatedHasCommand
<1>3. IdsFitKeys'
  BY <1>1 DEF IdsFitKeys
<1>4. QED
  BY <1>2, <1>3

(* The NATS compensator: mark and command in one transaction.              *)
LEMMA CompensateNATSInd ==
    ASSUME SagaInd, NEW j \in deadJob, CompensateNATS(j)
    PROVE  SagaInd'
<1> USE DEF SagaInd
<1>1. /\ sagaState' \in [Keys -> {"none"} \cup Active \cup Terminal]
      /\ \A k \in Keys : sagaState'[k] = sagaState[k] \/ sagaId[k] = j.id
  BY TransitionFacts DEF CompensateNATS, TransitionByID, Terminal
<1>2. deadJob' = {} /\ UNCHANGED sagaId
  BY DEF CompensateNATS
<1>3. /\ sagaLog' \in Seq(EventSet({"compensate"}))
      /\ DOMAIN sagaLog \subseteq DOMAIN sagaLog'
      /\ \A i \in DOMAIN sagaLog : sagaLog'[i] = sagaLog[i]
      /\ \E i \in DOMAIN sagaLog' : sagaLog'[i].key = j.key /\ sagaLog'[i].id = j.id
  BY CommandAppended DEF CompensateNATS
<1>4. SagaTypeOK' /\ IdsFitKeys'
  BY <1>1, <1>2, <1>3 DEF SagaTypeOK, IdsFitKeys
<1>5. ASSUME Transport = "nats", NEW k \in Keys, sagaState'[k] = "compensated"
      PROVE  \E i \in DOMAIN sagaLog' : sagaLog'[i].key = k /\ sagaLog'[i].id = sagaId'[k]
  <2>1. CASE sagaId[k] = j.id
    <3>1. k = j.key
      BY <2>1, DeadJobFields, NoSagaIsNew DEF IdsFitKeys
    <3>2. QED
      BY <1>2, <1>3, <2>1, <3>1
  <2>2. CASE sagaState'[k] = sagaState[k]
    <3>1. PICK i \in DOMAIN sagaLog : sagaLog[i].key = k /\ sagaLog[i].id = sagaId[k]
      BY <1>5, <2>2 DEF CompensatedHasCommand
    <3>2. QED
      BY <1>2, <1>3, <3>1
  <2>3. QED
    BY <1>1, <2>1, <2>2
<1>6. QED
  BY <1>4, <1>5 DEF CompensatedHasCommand

(* The gRPC compensator: it marks, and sends no command.                   *)
LEMMA CompensateGRPCInd ==
    ASSUME SagaInd, NEW j \in deadJob, CompensateGRPC(j)
    PROVE  SagaInd'
<1> USE DEF SagaInd
<1> DEFINE m == [j EXCEPT !.phase = "marked"]
<1>1. sagaState' \in [Keys -> {"none"} \cup Active \cup Terminal]
  BY TransitionFacts DEF CompensateGRPC, TransitionByID, Terminal
<1>2. m \in DeadJobs /\ m.id = j.id /\ m.key = j.key
  BY DeadJobFields DEF DeadJobs
<1>3. deadJob' = {m} /\ UNCHANGED <<sagaId, sagaLog>> /\ Transport # "nats"
  BY DEF CompensateGRPC
<1> HIDE DEF m
<1>4. SagaTypeOK' /\ IdsFitKeys'
  BY <1>1, <1>2, <1>3 DEF SagaTypeOK, IdsFitKeys
<1>5. QED
  BY <1>3, <1>4 DEF CompensatedHasCommand

(* The end of the handler, with an answer or with an error.                *)
LEMMA DeadOverInd ==
    ASSUME SagaInd, deadJob' = {}, UNCHANGED <<sagaId, sagaState, sagaLog>>
    PROVE  SagaInd'
BY DEF SagaInd, SagaTypeOK, IdsFitKeys, CompensatedHasCommand

(* Every step of the orchestrator preserves the invariant.                 *)
LEMMA SagaStep ==
    ASSUME SagaInd, [SagaNext]_sagaVars
    PROVE  SagaInd'
<1>1. CASE SagaNext
  <2>1. ASSUME NEW s \in Sagas, OnConfirmationSent(s)
        PROVE  SagaInd'
    BY <2>1, ProgressInd DEF OnConfirmationSent, TransitionByID
  <2>2. ASSUME NEW k \in Keys, OnConfirmed(k) \/ OnExpired(k)
        PROVE  SagaInd'
    BY <2>2, ProgressInd DEF OnConfirmed, OnExpired, TransitionByEmailRepo
  <2>3. ASSUME NEW j \in deadJob, CompensateRPC(j) \/ DeadAborted(j)
        PROVE  SagaInd'
    BY <2>3, DeadOverInd DEF CompensateRPC, DeadAborted
  <2>4. QED
    BY <1>1, <2>1, <2>2, <2>3, StartInd, DeadReadInd, CompensateNATSInd, CompensateGRPCInd
       DEF SagaNext
<1>2. CASE UNCHANGED sagaVars
  BY <1>2 DEF sagaVars, SagaInd, SagaTypeOK, IdsFitKeys, CompensatedHasCommand
<1>3. QED
  BY <1>1, <1>2

(* ... and it holds of the empty table.                                    *)
LEMMA SagaStart == SagaInit => SagaInd
BY DEF SagaInit, SagaInd, SagaTypeOK, IdsFitKeys, CompensatedHasCommand

(* No late sent, confirmed, expired or dead event moves a terminal saga.   *)
LEMMA TerminalStep ==
    ASSUME SagaInd, [SagaNext]_sagaVars, NEW k \in Keys,
           sagaState[k] \in Terminal, sagaState'[k] # sagaState[k]
    PROVE  sagaState'[k] = "pending"
<1> SagaTypeOK /\ sagaState[k] \notin Active
  BY DEF SagaInd, Active, Terminal
<1>1. ASSUME NEW ks, NEW to \in {"confirmation_sent"} \cup Terminal, Transition(ks, to)
      PROVE  FALSE
  BY <1>1, TransitionFacts
<1>2. ASSUME NEW s \in Sagas, OnPending(SagaKey[s], s)
      PROVE  sagaState'[k] = "pending"
  BY <1>2, SagaKeyIsKey DEF OnPending, SagaTypeOK
<1>3. UNCHANGED sagaState => FALSE
  OBVIOUS
<1>4. QED
  BY <1>1, <1>2, <1>3, Zenon DEF SagaNext, sagaVars, OnConfirmationSent, OnConfirmed, OnExpired,
     OnConfirmationDead, CompensateNATS, CompensateGRPC, CompensateRPC, DeadAborted,
     TransitionByID, TransitionByEmailRepo, Terminal

----------------------------------------------------------------------------
(* nats_compensator.go, for whatever events arrive: a compensated saga has *)
(* its command in the outbox.                                              *)
THEOREM CommandEnqueued == SagaSpec => []CompensatedHasCommand
<1>1. SagaInd => CompensatedHasCommand
  BY DEF SagaInd
<1>2. QED
  BY <1>1, SagaStart, SagaStep, PTL DEF SagaSpec

(* saga.go of the repository, which only moves rows in an active state:    *)
(* only Start takes a saga out of a terminal state.                        *)
THEOREM TerminalIsFinal == SagaSpec => TerminalLeftByStart
<1> DEFINE OnlyByStart ==
        \A k \in Keys : sagaState[k] \in Terminal /\ sagaState'[k] # sagaState[k] =>
            sagaState'[k] = "pending"
<1>1. SagaInd /\ [SagaNext]_sagaVars => OnlyByStart
  BY TerminalStep
<1>2. SagaInd /\ [SagaNext]_sagaVars => [OnlyByStart]_sagaVars
  BY <1>1
<1>3. QED
  BY <1>2, SagaStart, SagaStep, PTL DEF SagaSpec, TerminalLeftByStart

----------------------------------------------------------------------------
(* Confirmation e-mails.                                                   *)

Outcomes == EventSet({"sent", "failed", "dead"})

(* A new row starts with no retries.                                       *)
NoRowNoRetries == \A k \in Keys : ~HasRow(k) => retries[k] = 0

RowHasFailed == \A k \in Keys : HasRow(k) => Published(notLog, "failed", failed[k])

(* Only the retrier deletes rows, and it has come to none it still lists.  *)
RetrierHoldsRow ==
    /\ \A k \in todo : HasRow(k)
    /\ \A j \in retrying : HasRow(j.key) /\ j.id = failed[j.key] /\ j.key \notin todo

SuccessWasMailed == \A j \in sending \cup retrying : j.ok => j.id \in mailed

ConfInd ==
    /\ ConfTypeOK
    /\ NoRowNoRetries
    /\ RowHasFailed
    /\ RetrierHoldsRow
    /\ SuccessWasMailed
    /\ OutcomeJustified

----------------------------------------------------------------------------
(* The fields of a send under way.                                         *)
LEMMA SendFields ==
    ASSUME ConfTypeOK
    PROVE  /\ \A j \in sending : sending = {j} /\ j \in Sends
           /\ \A j \in retrying : retrying = {j} /\ j \in Sends
           /\ \A j \in Sends : j.key \in Keys /\ j.id \in Sagas /\ j.ok \in BOOLEAN
BY DEF ConfTypeOK, Sends

(* A row's saga is a saga.                                                 *)
LEMMA RowSaga ==
    ASSUME ConfTypeOK, NEW k \in Keys, HasRow(k)
    PROVE  failed[k] \in Sagas
BY DEF ConfTypeOK, HasRow

(* DeliverConfirmation: e-mails that left stay out, and success means that *)
(* this one did.                                                           *)
LEMMA DeliverFacts ==
    ASSUME ConfTypeOK, NEW s \in Sagas, NEW ok \in BOOLEAN, Deliver(s, ok)
    PROVE  /\ mailed \subseteq mailed' /\ mailed' \subseteq Sagas
           /\ ok => s \in mailed'
<1>1. CASE ok
  BY <1>1 DEF ConfTypeOK, Deliver
<1>2. CASE ~ok
  BY <1>2 DEF ConfTypeOK, Deliver
<1>3. QED
  BY <1>1, <1>2

(* An outcome that is justified when it is enqueued keeps the outbox       *)
(* justified.                                                              *)
LEMMA OutcomeLogged ==
    ASSUME ConfInd, NEW t \in {"sent", "failed", "dead"}, NEW j,
           j.key \in Keys, j.id \in Sagas, Outbox(t, j), mailed' = mailed,
           t = "dead" => Published(notLog, "failed", j.id),
           t = "sent" => j.id \in mailed
    PROVE  /\ notLog' \in Seq(Outcomes)
           /\ \A u, s : Published(notLog, u, s) => Published(notLog', u, s)
           /\ Published(notLog', t, j.id)
           /\ OutcomeJustified'
<1> DEFINE e == Event(t, j.key, j.id, NoSaga)
<1>1. e \in Outcomes /\ e.type = t /\ e.id = j.id
  BY DEF Outcomes, Event, EventSet
<1>2. notLog \in Seq(Outcomes) /\ notLog' = Append(notLog, e)
  BY DEF ConfInd, ConfTypeOK, Outcomes, Outbox
<1> HIDE DEF e
<1>3. /\ notLog' \in Seq(Outcomes)
      /\ DOMAIN notLog = 1..Len(notLog) /\ Len(notLog) \in Nat
      /\ DOMAIN notLog' = 1..(Len(notLog) + 1)
      /\ \A i \in 1..Len(notLog) : notLog'[i] = notLog[i]
      /\ notLog'[Len(notLog) + 1] = e
  BY <1>1, <1>2
<1>4. \A u, s : Published(notLog, u, s) => Published(notLog', u, s)
  BY <1>3 DEF Published
<1>5. Published(notLog', t, j.id)
  BY <1>1, <1>3 DEF Published
<1>6. ASSUME NEW i \in DOMAIN notLog'
      PROVE  /\ notLog'[i].type = "dead" =>
                   \E h \in 1..(i - 1) : notLog'[h].type = "failed" /\ notLog'[h].id = notLog'[i].id
             /\ notLog'[i].type = "sent" => notLog'[i].id \in mailed'
  <2>1. CASE i \in 1..Len(notLog)
    BY <1>3, <2>1 DEF ConfInd, OutcomeJustified
  <2>2. CASE i = Len(notLog) + 1
    <3>1. i - 1 = Len(notLog) /\ notLog'[i] = e
      BY <1>3, <2>2
    <3>2. QED
      BY <1>1, <1>3, <3>1 DEF Published
  <2>3. QED
    BY <1>3, <2>1, <2>2
<1>7. QED
  BY <1>3, <1>4, <1>5, <1>6 DEF OutcomeJustified

----------------------------------------------------------------------------
(* Each step preserves the invariant.                                      *)

(* The handler has sent.                                                   *)
LEMMA SendInd ==
    ASSUME ConfInd, NEW k \in Keys, NEW s \in Sagas, NEW ok \in BOOLEAN, SendConfirmation(k, s, ok)
    PROVE  ConfInd'
<1> USE DEF ConfInd
<1> DEFINE j == [key |-> k, id |-> s, ok |-> ok]
<1>1. j \in Sends /\ j.id = s /\ j.ok = ok
  BY DEF Sends
<1>2. /\ sending' = {j}
      /\ UNCHANGED <<failed, retries, failedAge, todo, retrying, notLog>>
      /\ mailed \subseteq mailed' /\ mailed' \subseteq Sagas /\ (ok => s \in mailed')
  BY DeliverFacts DEF SendConfirmation
<1> HIDE DEF j
<1>3. ConfTypeOK'
  BY <1>1, <1>2 DEF ConfTypeOK, HasRow
<1>4. NoRowNoRetries' /\ RowHasFailed' /\ RetrierHoldsRow' /\ OutcomeJustified'
  BY <1>2 DEF NoRowNoRetries, RowHasFailed, RetrierHoldsRow, OutcomeJustified, HasRow
<1>5. SuccessWasMailed'
  BY <1>1, <1>2 DEF SuccessWasMailed
<1>6. QED
  BY <1>3, <1>4, <1>5

(* The handler's transaction: the event, and a row for a failure.          *)
LEMMA RecordInd ==
    ASSUME ConfInd, NEW j \in sending, RecordOutcome(j)
    PROVE  ConfInd'
<1> USE DEF ConfInd
<1> DEFINE t == IF j.ok THEN "sent" ELSE "failed"
<1>1. j.key \in Keys /\ j.id \in Sagas /\ j.ok \in BOOLEAN
  BY SendFields
<1>2. /\ sending' = {} /\ Outbox(t, j)
      /\ UNCHANGED <<retries, failedAge, todo, retrying, mailed>>
  BY DEF RecordOutcome
<1>3. /\ notLog' \in Seq(Outcomes)
      /\ \A u, s : Published(notLog, u, s) => Published(notLog', u, s)
      /\ Published(notLog', t, j.id)
      /\ OutcomeJustified'
  <2>1. t = "sent" => j.id \in mailed
    BY DEF SuccessWasMailed
  <2>2. t \in {"sent", "failed", "dead"} /\ t # "dead"
    OBVIOUS
  <2>3. QED
    BY <1>1, <1>2, <2>1, <2>2, OutcomeLogged
<1>4. \/ failed' = failed
      \/ ~j.ok /\ ~HasRow(j.key) /\ failed' = [failed EXCEPT ![j.key] = j.id]
  BY <1>1 DEF RecordOutcome, Add
<1>5. /\ failed' \in [Keys -> Sagas \cup {NoSaga}]
      /\ \A k \in Keys : HasRow(k) => failed'[k] = failed[k]
      /\ \A k \in Keys : failed'[k] # failed[k] => k = j.key /\ ~j.ok /\ failed'[k] = j.id /\ ~HasRow(k)
  BY <1>1, <1>4, Zenon DEF ConfTypeOK
<1>6. ConfTypeOK'
  <2>1. \A k \in Keys : HasRow(k)' => retries[k] = 0 \/ retries[k] < MaxRetries
    BY <1>5 DEF ConfTypeOK, NoRowNoRetries, HasRow
  <2>2. QED
    BY <1>2, <1>3, <1>5, <2>1 DEF ConfTypeOK, Outcomes
<1>7. NoRowNoRetries'
  BY <1>2, <1>5 DEF NoRowNoRetries, HasRow
<1>8. RowHasFailed'
  BY <1>3, <1>5 DEF RowHasFailed, HasRow
<1>9. RetrierHoldsRow' /\ SuccessWasMailed'
  BY <1>2, <1>5, SendFields DEF RetrierHoldsRow, SuccessWasMailed, HasRow, ConfTypeOK
<1>10. QED
  BY <1>3, <1>6, <1>7, <1>8, <1>9

(* A deleted row is gone with its counters.                                *)
LEMMA DeleteRowFacts ==
    ASSUME ConfInd, NEW k \in Keys, DeleteRow(k)
    PROVE  /\ failed' \in [Keys -> Sagas \cup {NoSaga}]
           /\ retries' \in [Keys -> 0..MaxRetries]
           /\ failedAge' \in [Keys -> 0..ConfTTL]
           /\ failed'[k] = NoSaga /\ retries'[k] = 0
           /\ \A l \in Keys : l # k => failed'[l] = failed[l] /\ retries'[l] = retries[l]
BY RetryLimits DEF ConfInd, ConfTypeOK, DeleteRow

(* deleteAndPublish, by the retrier, for a row whose key it lists no more. *)
LEMMA DeleteAndPublishInd ==
    ASSUME ConfInd, NEW k \in Keys, HasRow(k), DeleteRow(k), k \notin todo,
           NEW j, j.key = k, j.id = failed[k],
           NEW t \in {"sent", "dead"}, t = "sent" => j.id \in mailed, Outbox(t, j),
           retrying' = {}, UNCHANGED <<sending, todo, mailed>>
    PROVE  ConfInd'
<1> USE DEF ConfInd
<1>1. j.id \in Sagas /\ Published(notLog, "failed", j.id)
  BY RowSaga DEF RowHasFailed
<1>2. /\ notLog' \in Seq(Outcomes)
      /\ \A u, s : Published(notLog, u, s) => Published(notLog', u, s)
      /\ OutcomeJustified'
  BY <1>1, OutcomeLogged
<1>3. ConfTypeOK'
  <2>1. \A l \in Keys : HasRow(l)' => retries'[l] = 0 \/ retries'[l] < MaxRetries
    BY DeleteRowFacts, Zenon DEF ConfTypeOK, HasRow
  <2>2. QED
    BY <1>2, <2>1, DeleteRowFacts DEF ConfTypeOK, Outcomes
<1>4. NoRowNoRetries' /\ RowHasFailed'
  BY <1>2, DeleteRowFacts, Zenon DEF NoRowNoRetries, RowHasFailed, HasRow
<1>5. RetrierHoldsRow' /\ SuccessWasMailed'
  BY DeleteRowFacts DEF RetrierHoldsRow, SuccessWasMailed, HasRow, ConfTypeOK
<1>6. QED
  BY <1>2, <1>3, <1>4, <1>5

(* The retrier lists rows.                                                 *)
LEMMA ListInd ==
    ASSUME ConfInd, ListRetryable
    PROVE  ConfInd'
<1>1. /\ todo' \subseteq Keys /\ \A k \in todo' : HasRow(k)
      /\ retrying = {}
      /\ UNCHANGED <<failed, retries, failedAge, sending, retrying, mailed, notLog>>
  BY DEF ListRetryable, RetrierIdle, Retryable
<1>2. QED
  BY <1>1 DEF ConfInd, ConfTypeOK, NoRowNoRetries, RowHasFailed, RetrierHoldsRow,
     SuccessWasMailed, OutcomeJustified, HasRow

(* The retrier sends for a row it listed.                                  *)
LEMMA RetrySendInd ==
    ASSUME ConfInd, NEW k \in todo, NEW ok \in BOOLEAN, RetrySend(k, ok)
    PROVE  ConfInd'
<1> USE DEF ConfInd
<1> DEFINE j == [key |-> k, id |-> failed[k], ok |-> ok]
<1>1. k \in Keys /\ HasRow(k) /\ failed[k] \in Sagas
  BY RowSaga DEF RetrierHoldsRow, ConfTypeOK
<1>2. j \in Sends /\ j.key = k /\ j.id = failed[k] /\ j.ok = ok
  BY <1>1 DEF Sends
<1>3. /\ retrying' = {j} /\ todo' = todo \ {k}
      /\ UNCHANGED <<failed, retries, failedAge, sending, notLog>>
      /\ mailed \subseteq mailed' /\ mailed' \subseteq Sagas /\ (ok => failed[k] \in mailed')
  BY <1>1, DeliverFacts DEF RetrySend
<1> HIDE DEF j
<1>4. ConfTypeOK'
  BY <1>2, <1>3 DEF ConfTypeOK, HasRow
<1>5. NoRowNoRetries' /\ RowHasFailed' /\ OutcomeJustified'
  BY <1>3 DEF NoRowNoRetries, RowHasFailed, OutcomeJustified, HasRow
<1>6. RetrierHoldsRow' /\ SuccessWasMailed'
  BY <1>1, <1>2, <1>3 DEF RetrierHoldsRow, SuccessWasMailed, HasRow
<1>7. QED
  BY <1>4, <1>5, <1>6

(* The retrier records: delete and publish, or count.                      *)
LEMMA RetryOutcomeInd ==
    ASSUME ConfInd, NEW j \in retrying, RetryOutcome(j)
    PROVE  ConfInd'
<1> USE DEF ConfInd
<1>1. /\ j.key \in Keys /\ j.ok \in BOOLEAN
      /\ HasRow(j.key) /\ j.id = failed[j.key] /\ j.key \notin todo
      /\ j.ok => j.id \in mailed
  BY SendFields DEF RetrierHoldsRow, SuccessWasMailed
<1>2. retrying' = {} /\ UNCHANGED <<sending, todo, mailed>>
  BY DEF RetryOutcome
<1>3. CASE j.ok /\ DeleteRow(j.key) /\ Outbox("sent", j)
  BY <1>1, <1>2, <1>3, DeleteAndPublishInd
<1>4. CASE DeleteRow(j.key) /\ Outbox("dead", j)
  BY <1>1, <1>2, <1>4, DeleteAndPublishInd
<1>5. CASE /\ ~LastAttempt(j.key)
           /\ retries' = [retries EXCEPT ![j.key] = @ + 1]
           /\ UNCHANGED <<failed, failedAge, notLog>>
  <2>1. /\ retries' \in [Keys -> 0..MaxRetries]
        /\ retries'[j.key] < MaxRetries
        /\ \A k \in Keys : k # j.key => retries'[k] = retries[k]
    BY <1>1, <1>5, RetryLimits DEF ConfTypeOK, LastAttempt
  <2>2. ConfTypeOK'
    BY <1>2, <1>5, <2>1 DEF ConfTypeOK, HasRow
  <2>3. QED
    BY <1>1, <1>2, <1>5, <2>1, <2>2 DEF NoRowNoRetries, RowHasFailed, RetrierHoldsRow,
       SuccessWasMailed, OutcomeJustified, HasRow
<1>6. QED
  BY <1>3, <1>4, <1>5 DEF RetryOutcome

(* Time passes for the rows.                                               *)
LEMMA ConfTickInd ==
    ASSUME ConfInd, ConfTick
    PROVE  ConfInd'
<1>1. failedAge' \in [Keys -> 0..ConfTTL]
  BY RetryLimits DEF ConfInd, ConfTypeOK, ConfTick
<1>2. UNCHANGED <<failed, retries, sending, todo, retrying, mailed, notLog>>
  BY DEF ConfTick
<1>3. QED
  BY <1>1, <1>2 DEF ConfInd, ConfTypeOK, NoRowNoRetries, RowHasFailed, RetrierHoldsRow,
     SuccessWasMailed, OutcomeJustified, HasRow

(* What is under way is forgotten: a failed transaction, a crash.          *)
LEMMA ForgetInd ==
    ASSUME ConfInd, sending' \in {{}, sending}, retrying' \in {{}, retrying}, todo' \in {{}, todo},
           UNCHANGED <<failed, retries, failedAge, mailed, notLog>>
    PROVE  ConfInd'
BY Zenon DEF ConfInd, ConfTypeOK, NoRowNoRetries, RowHasFailed, RetrierHoldsRow, SuccessWasMailed,
   OutcomeJustified, HasRow

----------------------------------------------------------------------------
(* Every step of the notifier's half preserves the invariant.              *)
LEMMA ConfStep ==
    ASSUME ConfInd, [ConfNext]_confVars
    PROVE  ConfInd'
<1>1. ASSUME NEW k \in Keys, DeadLetterExpired(k)
      PROVE  ConfInd'
  <2> DEFINE j == [key |-> k, id |-> failed[k]]
  <2>1. j.key = k /\ j.id = failed[k]
    OBVIOUS
  <2>2. /\ HasRow(k) /\ DeleteRow(k) /\ k \notin todo /\ Outbox("dead", j)
        /\ retrying' = {} /\ UNCHANGED <<sending, todo, mailed>>
    BY <1>1 DEF DeadLetterExpired, TooOld, RetrierIdle
  <2>3. QED
    BY <2>1, <2>2, DeleteAndPublishInd
<1>2. ASSUME (\E j \in sending : RecordAborted(j)) \/ (\E j \in retrying : RetryAborted(j))
             \/ NotifierCrash \/ UNCHANGED confVars
      PROVE  ConfInd'
  BY <1>2, ForgetInd DEF RecordAborted, RetryAborted, NotifierCrash, confVars
<1>3. QED
  BY <1>1, <1>2, SendInd, RecordInd, ListInd, RetrySendInd, RetryOutcomeInd, ConfTickInd
     DEF ConfNext

(* ... and it holds of the empty tables.                                   *)
LEMMA ConfStart == ConfInit => ConfInd
BY RetryLimits DEF ConfInit, ConfInd, ConfTypeOK, NoRowNoRetries, RowHasFailed, RetrierHoldsRow,
   SuccessWasMailed, OutcomeJustified, HasRow

(* send_confirmation.go and retrier.go: a dead saga has failed before, and *)
(* a saga is declared sent only after its link left.                       *)
THEOREM OutcomesAreJustified == ConfSpec => []OutcomeJustified
<1>1. ConfInd => OutcomeJustified
  BY DEF ConfInd
<1>2. QED
  BY <1>1, ConfStart, ConfStep, PTL DEF ConfSpec

(* retrier.go: no row is left with its retries used up, whatever send,     *)
(* transaction or process fails.                                           *)
THEOREM RowsAreNotStranded == ConfSpec => []ConfTypeOK
<1>1. ConfInd => ConfTypeOK
  BY DEF ConfInd
<1>2. QED
  BY <1>1, ConfStart, ConfStep, PTL DEF ConfSpec
=============================================================================
