--------------------------- MODULE Confirmations ---------------------------
(***************************************************************************)
(* The notifier's half of the Subscribe transaction: the handler of        *)
(* subscriptions.pending sends the confirmation e-mail; what fails goes to *)
(* the table `failed_confirmations` (one row per key), from which the      *)
(* retrier, one goroutine, sends again, dead-letters after MaxRetries or   *)
(* after ConfTTL.  Sending and recording are two steps: the e-mail is out  *)
(* before the transaction that says so, and a send may be reported as      *)
(* failed (the server's answer is lost) although the e-mail left.          *)
(***************************************************************************)
EXTENDS Events

CONSTANTS
    MaxRetries,   \* MAX_RETRIES
    ConfTTL       \* CONFIRMATION_TTL, in ticks

ASSUME RetryLimits == MaxRetries \in Nat /\ ConfTTL \in Nat

VARIABLES
    failed,      \* saga id of the key's failed_confirmations row, or NoSaga
    retries,     \* its retry_count
    failedAge,   \* now - failed_at, not told apart above ConfTTL
    sending,     \* the handler between send and transaction: {} or one record
    todo,        \* keys the retrier listed and has not come to yet
    retrying,    \* the retrier between send and transaction: {} or one record
    mailed,      \* sagas whose link has left in an e-mail
    notLog       \* outbox of the notifier, confirmation events only

confVars == <<failed, retries, failedAge, sending, todo, retrying, mailed, notLog>>

Sends == [key : Keys, id : Sagas, ok : BOOLEAN]

ConfInit ==
    /\ failed = [k \in Keys |-> NoSaga]
    /\ retries = [k \in Keys |-> 0]
    /\ failedAge = [k \in Keys |-> 0]
    /\ sending = {}
    /\ todo = {}
    /\ retrying = {}
    /\ mailed = {}
    /\ notLog = <<>>

HasRow(k) == failed[k] # NoSaga

Outbox(t, j) == notLog' = Append(notLog, Event(t, j.key, j.id, NoSaga))

(* Variant: success means that the e-mail was queued.                      *)
DeliverQueued(s, ok) == mailed' \in {mailed \cup {s}, mailed}

(* DeliverConfirmation: ok means that the mailer reported success; a send  *)
(* reported as failed may still have left.                                 *)
Deliver(s, ok) == mailed' \in {mailed \cup {s}} \cup (IF ok THEN {} ELSE {mailed})

----------------------------------------------------------------------------
(* SendConfirmation.Execute: send, then record the outcome.                *)
SendConfirmation(k, s, ok) ==
    /\ sending = {}
    /\ sending' = {[key |-> k, id |-> s, ok |-> ok]}
    /\ Deliver(s, ok)
    /\ UNCHANGED <<failed, retries, failedAge, todo, retrying, notLog>>

(* ON CONFLICT (email, repo_name) DO NOTHING: an existing row keeps its    *)
(* saga id and link.                                                       *)
Add(k, s) == IF HasRow(k) THEN failed ELSE [failed EXCEPT ![k] = s]

RecordOutcome(j) ==
    /\ sending' = {}
    /\ failed' = IF j.ok THEN failed ELSE Add(j.key, j.id)
    /\ Outbox(IF j.ok THEN "sent" ELSE "failed", j)
    /\ UNCHANGED <<retries, failedAge, todo, retrying, mailed>>

(* The transaction fails; the event will be delivered again.               *)
RecordAborted(j) ==
    /\ sending' = {}
    /\ UNCHANGED <<failed, retries, failedAge, todo, retrying, mailed, notLog>>

----------------------------------------------------------------------------
(* deleteAndPublish: one transaction.                                      *)
DeleteRow(k) ==
    /\ failed' = [failed EXCEPT ![k] = NoSaga]
    /\ retries' = [retries EXCEPT ![k] = 0]
    /\ failedAge' = [failedAge EXCEPT ![k] = 0]

(* One pass at a time.                                                     *)
RetrierIdle == todo = {} /\ retrying = {}

(* failed_at <= cutoff.                                                    *)
TooOld(k) == HasRow(k) /\ failedAge[k] >= ConfTTL

(* Retrier.Confirmations first dead-letters what is too old ...            *)
DeadLetterExpired(k) ==
    /\ RetrierIdle
    /\ TooOld(k)
    /\ DeleteRow(k)
    /\ Outbox("dead", [key |-> k, id |-> failed[k]])
    /\ UNCHANGED <<sending, todo, retrying, mailed>>

Retryable(k) == HasRow(k) /\ retries[k] < MaxRetries /\ ~TooOld(k)

(* ... and then lists what it will send again.                             *)
ListRetryable ==
    /\ RetrierIdle
    /\ todo' = {k \in Keys : Retryable(k)}
    /\ todo' # {}
    /\ UNCHANGED <<failed, retries, failedAge, sending, retrying, mailed, notLog>>

(* retryConfirmation: send ...                                             *)
RetrySend(k, ok) ==
    /\ retrying = {}
    /\ todo' = todo \ {k}
    /\ retrying' = {[key |-> k, id |-> failed[k], ok |-> ok]}
    /\ Deliver(failed[k], ok)
    /\ UNCHANGED <<failed, retries, failedAge, sending, notLog>>

(* Variant: the last attempt is counted one too late.                      *)
LastAttemptLate(k) == retries[k] >= MaxRetries
LastAttempt(k) == retries[k] + 1 >= MaxRetries

(* ... and record: a success and a last failure delete the row and say so, *)
(* another failure counts.                                                 *)
RetryOutcome(j) ==
    /\ retrying' = {}
    /\ \/ /\ j.ok
          /\ DeleteRow(j.key)
          /\ Outbox("sent", j)
       \/ /\ ~j.ok /\ LastAttempt(j.key)
          /\ DeleteRow(j.key)
          /\ Outbox("dead", j)
       \/ /\ ~j.ok /\ ~LastAttempt(j.key)
          /\ retries' = [retries EXCEPT ![j.key] = @ + 1]
          /\ UNCHANGED <<failed, failedAge, notLog>>
    /\ UNCHANGED <<sending, todo, mailed>>

(* The transaction fails and is only logged.                               *)
RetryAborted(j) ==
    /\ retrying' = {}
    /\ UNCHANGED <<failed, retries, failedAge, sending, todo, mailed, notLog>>

(* The process stops: what it was doing is forgotten, the tables stay.     *)
NotifierCrash ==
    /\ sending' = {} /\ todo' = {} /\ retrying' = {}
    /\ UNCHANGED <<failed, retries, failedAge, mailed, notLog>>

ConfTick ==
    /\ failedAge' = [k \in Keys |-> IF HasRow(k) /\ failedAge[k] < ConfTTL
                                    THEN failedAge[k] + 1 ELSE failedAge[k]]
    /\ UNCHANGED <<failed, retries, sending, todo, retrying, mailed, notLog>>

ConfNext ==
    \/ \E k \in Keys, s \in Sagas, ok \in BOOLEAN : SendConfirmation(k, s, ok)
    \/ \E j \in sending : RecordOutcome(j) \/ RecordAborted(j)
    \/ \E k \in Keys : DeadLetterExpired(k)
    \/ ListRetryable
    \/ \E k \in todo, ok \in BOOLEAN : RetrySend(k, ok)
    \/ \E j \in retrying : RetryOutcome(j) \/ RetryAborted(j)
    \/ NotifierCrash
    \/ ConfTick

ConfSpec == ConfInit /\ [][ConfNext]_confVars

----------------------------------------------------------------------------
(* Type invariant of the notifier's table, of its two send-and-record      *)
(* steps and of its outbox; a row never runs out of retries without being  *)
(* dead-lettered (retrier.go:216).                                         *)
ConfTypeOK ==
    /\ failed \in [Keys -> Sagas \cup {NoSaga}]
    /\ retries \in [Keys -> 0..MaxRetries]
    /\ \A k \in Keys : HasRow(k) => retries[k] = 0 \/ retries[k] < MaxRetries
    /\ failedAge \in [Keys -> 0..ConfTTL]
    /\ sending \in {{}} \cup {{j} : j \in Sends}
    /\ todo \subseteq Keys
    /\ retrying \in {{}} \cup {{j} : j \in Sends}
    /\ mailed \subseteq Sagas
    /\ notLog \in Seq(EventSet({"sent", "failed", "dead"}))

(* A saga is declared dead only after a failure of its own was published,  *)
(* and declared sent only after its link was e-mailed.                     *)
OutcomeJustified ==
    \A i \in DOMAIN notLog :
        /\ notLog[i].type = "dead" =>
              \E j \in 1..(i - 1) : notLog[j].type = "failed" /\ notLog[j].id = notLog[i].id
        /\ notLog[i].type = "sent" => notLog[i].id \in mailed

=============================================================================
