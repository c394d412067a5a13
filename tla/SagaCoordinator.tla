-------------------------- MODULE SagaCoordinator --------------------------
(***************************************************************************)
(* The saga orchestrator: the table `sagas` (one row per key, found by its *)
(* key or by its saga id), the five event handlers of the coordinator and  *)
(* its two compensators.  A handler that runs one statement or one         *)
(* transaction is one action.  OnConfirmationDead reads the saga and then  *)
(* compensates in a transaction of its own (NATS), or commits the state    *)
(* and then calls the subscription service (gRPC): the handlers of the     *)
(* other durables run in between.                                          *)
(*                                                                         *)
(* The module leaves open which events arrive, how often and in which      *)
(* order; SubscribeSaga connects it to the services that send them.        *)
(***************************************************************************)
EXTENDS Events

CONSTANTS
    Transport,   \* SAGA_COMPENSATE_TRANSPORT
    SagaKey      \* the key each saga id is minted for; a uuid is minted once

ASSUME SagaKeyIsKey == SagaKey \in [Sagas -> Keys]
ASSUME TransportIsKnown == Transport \in {"nats", "grpc"}

VARIABLES
    sagaId,      \* the saga id of the key's row, NoSaga when there is none
    sagaState,   \* its state
    deadJob,     \* the dead event being handled: {} or one record
    sagaLog      \* outbox of the orchestrator: saga.compensate commands

sagaVars == <<sagaId, sagaState, deadJob, sagaLog>>

Active == {"pending", "confirmation_sent"}
Terminal == {"completed", "compensated", "expired"}

(* A dead event whose saga was read; the gRPC compensator then marks it.   *)
DeadJobs == [key : Keys, id : Sagas, phase : {"read", "marked"}]

----------------------------------------------------------------------------
(* allowedTransitions and SourceStates.                                    *)
allowedTransitions ==
    {"pending"} \X ({"confirmation_sent"} \cup Terminal) \cup {"confirmation_sent"} \X Terminal

SourceStatesAny(to) == Active \cup Terminal   \* variant: any state but `none`
SourceStates(to) == {from \in Active : <<from, to>> \in allowedTransitions}

(* UPDATE sagas SET state = to WHERE <in ks> AND state = ANY(sources).     *)
Transition(ks, to) ==
    sagaState' = [k \in Keys |-> IF k \in ks /\ sagaState[k] \in SourceStates(to)
                                 THEN to ELSE sagaState[k]]

(* Variant: the saga id is ignored and every active saga moves.            *)
TransitionByAnyID(s, to) == Transition({k \in Keys : sagaId[k] # NoSaga}, to)
TransitionByID(s, to) == Transition({k \in Keys : sagaId[k] = s}, to)

TransitionByEmailRepo(k, to) == Transition({k}, to)

SagaInit ==
    /\ sagaId = [k \in Keys |-> NoSaga]
    /\ sagaState = [k \in Keys |-> "none"]
    /\ deadJob = {}
    /\ sagaLog = <<>>

----------------------------------------------------------------------------
(* Start: insert the row, or give the key's row the new id and state       *)
(* pending, whatever state it was in.                                      *)
OnPending(k, s) ==
    /\ sagaId' = [sagaId EXCEPT ![k] = s]
    /\ sagaState' = [sagaState EXCEPT ![k] = "pending"]
    /\ UNCHANGED <<deadJob, sagaLog>>

OnConfirmationSent(s) ==
    /\ TransitionByID(s, "confirmation_sent")
    /\ UNCHANGED <<sagaId, deadJob, sagaLog>>

OnConfirmed(k) ==
    /\ TransitionByEmailRepo(k, "completed")
    /\ UNCHANGED <<sagaId, deadJob, sagaLog>>

OnExpired(k) ==
    /\ TransitionByEmailRepo(k, "expired")
    /\ UNCHANGED <<sagaId, deadJob, sagaLog>>

(* OnConfirmationDead for a saga that is unknown or already terminal: the  *)
(* handler returns and the event is acknowledged.                          *)
DeadIgnored(s) == \A k \in Keys : sagaId[k] = s => sagaState[k] \notin Active

(* OnConfirmationDead reads the saga of an active transaction.             *)
OnConfirmationDead(k, s) ==
    /\ deadJob = {}
    /\ sagaId[k] = s /\ sagaState[k] \in Active
    /\ deadJob' = {[key |-> k, id |-> s, phase |-> "read"]}
    /\ UNCHANGED <<sagaId, sagaState, sagaLog>>

(* NATSCompensator.Compensate: one transaction marks the saga and enqueues *)
(* the command.  Whether the mark took effect is not looked at.            *)
CompensateNATS(j) ==
    /\ Transport = "nats"
    /\ TransitionByID(j.id, "compensated")
    /\ sagaLog' = Append(sagaLog, Event("compensate", j.key, j.id, NoSaga))
    /\ deadJob' = {}
    /\ UNCHANGED sagaId

(* GRPCCompensator.Compensate commits the mark ...                         *)
CompensateGRPC(j) ==
    /\ Transport = "grpc" /\ j.phase = "read"
    /\ TransitionByID(j.id, "compensated")
    /\ deadJob' = {[j EXCEPT !.phase = "marked"]}
    /\ UNCHANGED <<sagaId, sagaLog>>

(* ... and then makes the call.  The handler ends with its answer.         *)
CompensateRPC(j) ==
    /\ j.phase = "marked"
    /\ deadJob' = {}
    /\ UNCHANGED <<sagaId, sagaState, sagaLog>>

(* The handler ends with an error, or the process crashes: a transaction   *)
(* that has not committed leaves no trace.                                 *)
DeadAborted(j) ==
    /\ deadJob' = {}
    /\ UNCHANGED <<sagaId, sagaState, sagaLog>>

SagaNext ==
    \/ \E s \in Sagas : \/ OnPending(SagaKey[s], s)
                        \/ OnConfirmationSent(s)
                        \/ \E k \in Keys : OnConfirmationDead(k, s)
    \/ \E k \in Keys : OnConfirmed(k) \/ OnExpired(k)
    \/ \E j \in deadJob : CompensateNATS(j) \/ CompensateGRPC(j) \/ CompensateRPC(j) \/ DeadAborted(j)

SagaSpec == SagaInit /\ [][SagaNext]_sagaVars

----------------------------------------------------------------------------
(* Type invariant: at most one dead event is handled at a time, and only   *)
(* saga.compensate commands enter the outbox.                              *)
SagaTypeOK ==
    /\ sagaId \in [Keys -> Sagas \cup {NoSaga}]
    /\ sagaState \in [Keys -> {"none"} \cup Active \cup Terminal]
    /\ deadJob \in {{}} \cup {{j} : j \in DeadJobs}
    /\ sagaLog \in Seq(EventSet({"compensate"}))

(* docs/adr/013-orchestrated-saga.md:58-60: with the NATS compensator a    *)
(* compensated saga always has its command in the outbox, whatever         *)
(* handlers ran between the read of the saga and the transaction.          *)
CompensatedHasCommand ==
    Transport = "nats" =>
        \A k \in Keys : sagaState[k] = "compensated" =>
            \E i \in DOMAIN sagaLog : sagaLog[i].key = k /\ sagaLog[i].id = sagaId[k]

(* A saga leaves a terminal state only by being started again; no late     *)
(* sent, confirmed, expired or dead event moves it.                        *)
TerminalLeftByStart ==
    [][\A k \in Keys : sagaState[k] \in Terminal /\ sagaState'[k] # sagaState[k] =>
         sagaState'[k] = "pending"]_sagaVars
=============================================================================
