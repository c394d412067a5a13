---------------------------- MODULE OutboxRelay ----------------------------
(***************************************************************************)
(* The transactional outbox (infrastructure/outbox) in detail.  A          *)
(* producer's transaction takes the next id of the table when it inserts   *)
(* its message and makes it visible when it commits, possibly after a      *)
(* transaction that took a later id.  A relay, woken by its ticker or by a *)
(* nudge, locks the first BatchSize visible rows that no other relay has   *)
(* locked, publishes them one by one, and deletes what it published.  It   *)
(* may stop at any point; the database then releases its locks and keeps   *)
(* the rows.                                                               *)
(***************************************************************************)
EXTENDS Naturals, Sequences, FiniteSetsExt

CONSTANTS
    Msgs,        \* messages; each is enqueued by a transaction of its own
    Deployments, \* sets of relays that may share a table, one per replica
    MaxTx,       \* bound: per deployment, transactions
    BatchSize,
    MaxFaults    \* bound: publish errors, failed commits, crashes, lost nudges

ASSUME BatchAssumption == BatchSize \in Nat \ {0}
ASSUME OutboxLimits == MaxFaults \in Nat /\ MaxTx \in [Deployments -> Nat]
ASSUME DeploymentsAreFinite == \A d \in Deployments : IsFiniteSet(d)

Relays == UNION Deployments

VARIABLES
    running,   \* the deployment
    tx,        \* per message: its transaction
    id,        \* per message: its row's id, 0 before the insert
    nextId,    \* the table's identity sequence
    rows,      \* messages whose rows are visible
    owed,      \* committed messages whose Notify call is still to come
    nudge,     \* per relay: its nudge channel holds a token
    phase,     \* per relay
    batch,     \* per relay: rows it has locked
    done,      \* per relay: messages of the batch it has published
    stream,    \* what was published, in order
    before,    \* history: per message, those committed when it was inserted
    faults     \* faults so far

outVars == <<running, tx, id, nextId, rows, owed, nudge, phase, batch, done, stream, before, faults>>
producerVars == <<running, tx, id, nextId, owed, before>>

OutInit ==
    /\ running \in Deployments
    /\ tx = [m \in Msgs |-> "idle"]
    /\ id = [m \in Msgs |-> 0]
    /\ nextId = 1
    /\ rows = {}
    /\ owed = {}
    /\ nudge = [r \in Relays |-> FALSE]
    /\ phase = [r \in Relays |-> "waiting"]
    /\ batch = [r \in Relays |-> {}]
    /\ done = [r \in Relays |-> {}]
    /\ stream = <<>>
    /\ before = [m \in Msgs |-> {}]
    /\ faults = 0

----------------------------------------------------------------------------
(* A use case's transaction.                                               *)

Enqueue(m) ==
    /\ nextId <= MaxTx[running]
    /\ tx[m] = "idle"
    /\ tx' = [tx EXCEPT ![m] = "open"]
    /\ id' = [id EXCEPT ![m] = nextId]
    /\ nextId' = nextId + 1
    /\ before' = [before EXCEPT ![m] = {n \in Msgs : tx[n] = "committed"}]
    /\ UNCHANGED <<running, rows, owed, nudge, phase, batch, done, stream, faults>>

Commit(m) ==
    /\ tx[m] = "open"
    /\ tx' = [tx EXCEPT ![m] = "committed"]
    /\ rows' = rows \cup {m}
    /\ owed' = owed \cup {m}
    /\ UNCHANGED <<running, id, nextId, nudge, phase, batch, done, stream, before, faults>>

Rollback(m) ==
    /\ tx[m] = "open"
    /\ tx' = [tx EXCEPT ![m] = "aborted"]
    /\ UNCHANGED <<running, id, nextId, rows, owed, nudge, phase, batch, done, stream, before, faults>>

(* Notify: a non-blocking send, on a channel of capacity one, to the relay *)
(* of the producer's own process.                                          *)
Notify(m) ==
    /\ owed' = owed \ {m}
    /\ \E r \in running : nudge' = [nudge EXCEPT ![r] = TRUE]
    /\ UNCHANGED <<running, tx, id, nextId, rows, phase, batch, done, stream, before, faults>>

Fault == faults < MaxFaults /\ faults' = faults + 1

(* The process stops between its commit and Notify.                        *)
NotifyLost(m) ==
    /\ Fault
    /\ owed' = owed \ {m}
    /\ UNCHANGED <<running, tx, id, nextId, rows, nudge, phase, batch, done, stream, before>>

----------------------------------------------------------------------------
(* The relay.                                                              *)

(* Run: a tick or a nudge starts a flush.                                  *)
(* Variant: a tick is ignored.                                             *)
WakeByTickNever(r) == FALSE /\ UNCHANGED nudge
WakeByTick(r) == UNCHANGED nudge
WakeByNudge(r) == nudge[r] /\ nudge' = [nudge EXCEPT ![r] = FALSE]

Wake(r) ==
    /\ phase[r] = "waiting"
    /\ WakeByTick(r) \/ WakeByNudge(r)
    /\ phase' = [phase EXCEPT ![r] = "flushing"]
    /\ UNCHANGED <<producerVars, rows, batch, done, stream, faults>>

(* Variant: rows locked by another relay are taken as well.                *)
UnlockedAll == rows
Unlocked == {m \in rows : \A r \in Relays : m \notin batch[r]}

(* Variant: no ORDER BY.                                                   *)
IsFirstUnordered(S, T) ==
    S \subseteq T /\ Cardinality(S) = Min({BatchSize, Cardinality(T)})

(* selectLocked: ORDER BY id LIMIT BatchSize FOR UPDATE SKIP LOCKED.       *)
IsFirst(S, T) ==
    /\ S \subseteq T
    /\ Cardinality(S) = Min({BatchSize, Cardinality(T)})
    /\ \A m \in S, n \in T \ S : id[m] < id[n]

(* flushBatch begins; with nothing to publish the flush is over.           *)
Select(r) ==
    /\ phase[r] = "flushing"
    /\ \E S \in SUBSET rows :
          /\ IsFirst(S, Unlocked)
          /\ batch' = [batch EXCEPT ![r] = S]
          /\ phase' = [phase EXCEPT ![r] = IF S = {} THEN "waiting" ELSE "publishing"]
    /\ done' = [done EXCEPT ![r] = {}]
    /\ UNCHANGED <<producerVars, rows, nudge, stream, faults>>

(* The message publishAll comes to next.                                   *)
IsNext(r, m) ==
    /\ m \in batch[r] \ done[r]
    /\ \A n \in batch[r] \ done[r] : id[m] <= id[n]

Publish(r, m) ==
    /\ phase[r] = "publishing"
    /\ IsNext(r, m)
    /\ stream' = Append(stream, m)
    /\ done' = [done EXCEPT ![r] = @ \cup {m}]
    /\ UNCHANGED <<producerVars, rows, nudge, phase, batch, faults>>

(* A publish error ends publishAll; the message may be in the stream all   *)
(* the same (its acknowledgement was lost).  What was published before it  *)
(* is still deleted.                                                       *)
PublishFails(r, m) ==
    /\ phase[r] = "publishing"
    /\ IsNext(r, m)
    /\ Fault
    /\ stream' \in {stream, Append(stream, m)}
    /\ phase' = [phase EXCEPT ![r] = "failing"]
    /\ UNCHANGED <<producerVars, rows, nudge, batch, done>>

(* What the DELETE names.  Variant: the whole batch.                       *)
DeleteBatch(r) == batch[r]
DeleteDone(r) == done[r]

(* flush goes on after a full batch.  Variant: one batch per wake-up.      *)
MoreNever(r) == FALSE
More(r) == phase[r] = "publishing" /\ Cardinality(done[r]) = BatchSize

(* Delete and commit.  A full batch without an error is followed by the    *)
(* next one; otherwise the flush is over.                                  *)
Finish(r) ==
    /\ \/ phase[r] = "publishing" /\ done[r] = batch[r]
       \/ phase[r] = "failing"
    /\ rows' = rows \ DeleteDone(r)
    /\ batch' = [batch EXCEPT ![r] = {}]
    /\ done' = [done EXCEPT ![r] = {}]
    /\ phase' = [phase EXCEPT ![r] = IF More(r) THEN "flushing" ELSE "waiting"]
    /\ UNCHANGED <<producerVars, nudge, stream, faults>>

(* A statement or the commit fails: the transaction is rolled back and its *)
(* locks are released.                                                     *)
FlushFails(r) ==
    /\ phase[r] # "waiting"
    /\ Fault
    /\ batch' = [batch EXCEPT ![r] = {}]
    /\ done' = [done EXCEPT ![r] = {}]
    /\ phase' = [phase EXCEPT ![r] = "waiting"]
    /\ UNCHANGED <<producerVars, rows, nudge, stream>>

(* The process stops, whatever it was doing, and starts again: the token   *)
(* in its channel is lost too.                                             *)
RelayRestart(r) ==
    /\ Fault
    /\ nudge' = [nudge EXCEPT ![r] = FALSE]
    /\ batch' = [batch EXCEPT ![r] = {}]
    /\ done' = [done EXCEPT ![r] = {}]
    /\ phase' = [phase EXCEPT ![r] = "waiting"]
    /\ UNCHANGED <<producerVars, rows, stream>>

RelayStep(r) ==
    \/ Wake(r) \/ Select(r) \/ Finish(r)
    \/ \E m \in Msgs : Publish(r, m)

OutNext ==
    \/ \E m \in Msgs : Enqueue(m) \/ Commit(m) \/ Rollback(m)
    \/ \E m \in owed : Notify(m) \/ NotifyLost(m)
    \/ \E r \in running : RelayStep(r) \/ FlushFails(r) \/ RelayRestart(r)
    \/ \E r \in running, m \in Msgs : PublishFails(r, m)

OutSpec == OutInit /\ [][OutNext]_outVars

(* Every relay's loop keeps running, and a call of Notify is made.         *)
OutFairSpec ==
    /\ OutSpec
    /\ \A r \in Relays : WF_outVars(r \in running /\ RelayStep(r))
    /\ \A m \in Msgs : WF_outVars(m \in owed /\ Notify(m))

----------------------------------------------------------------------------
(* Type invariant; a relay has rows locked only while its transaction is   *)
(* open (the deferred Rollback in flushBatch), and publishes only those.   *)
OutTypeOK ==
    /\ running \in Deployments
    /\ tx \in [Msgs -> {"idle", "open", "committed", "aborted"}]
    /\ id \in [Msgs -> Nat]
    /\ nextId \in Nat
    /\ rows \subseteq Msgs
    /\ owed \subseteq Msgs
    /\ nudge \in [Relays -> BOOLEAN]
    /\ phase \in [Relays -> {"waiting", "flushing", "publishing", "failing"}]
    /\ batch \in [Relays -> SUBSET Msgs]
    /\ done \in [Relays -> SUBSET Msgs]
    /\ stream \in Seq(Msgs)
    /\ before \in [Msgs -> SUBSET Msgs]
    /\ faults \in 0..MaxFaults
    /\ \A r \in Relays :
          /\ done[r] \subseteq batch[r]
          /\ phase[r] \in {"waiting", "flushing"} => batch[r] = {}

InStream(m) == \E i \in DOMAIN stream : stream[i] = m

(* docs/adr/012-event-driven-services.md:60-62: an event is never "lost or *)
(* published for an uncommitted change".  A message in the stream is that  *)
(* of a committed transaction, and the row of a committed transaction is   *)
(* deleted only once its message is in the stream.                         *)
NeverLostNorInvented ==
    \A m \in Msgs :
        /\ InStream(m) => tx[m] = "committed"
        /\ tx[m] = "committed" => m \in rows \/ InStream(m)

(* FOR UPDATE SKIP LOCKED: two relays never work on the same row.          *)
LocksExclusive ==
    \A r, q \in Relays : r # q => batch[r] \cap batch[q] = {}

(* The invariant of the outbox: well-typed, no row locked twice or outside *)
(* a transaction, nothing lost and nothing invented, whatever replica      *)
(* fails or restarts between publishing and deleting (relay.go:116-143).   *)
OutInv == OutTypeOK /\ LocksExclusive /\ NeverLostNorInvented

(* With one relay, a message whose transaction began after another one     *)
(* committed is first published after that one, although ids are given out *)
(* before the commit and batches are repeated after a failure.             *)
CausalOrder ==
    Cardinality(running) = 1 => \A i \in DOMAIN stream : \A m \in before[stream[i]] :
        \E j \in 1..(i - 1) : stream[j] = m

(* Nudges suffice: until something fails, a visible row never waits for a  *)
(* tick, although nudges coalesce in a channel of capacity one and one is  *)
(* consumed before the rows are read: its Notify is still to come, a token *)
(* is in a channel, or a relay is at work and will look again.             *)
NudgeSuffices ==
    faults = 0 => \A m \in rows :
        m \in owed \/ \E r \in Relays : nudge[r] \/ phase[r] # "waiting"

(* Every committed message is eventually published: the ticker makes up    *)
(* for nudges, flushes and processes that were lost.                       *)
EventuallyPublished == \A m \in Msgs : tx[m] = "committed" ~> InStream(m)

(* The outbox promises what AtLeastOnce says: a message is accepted by its *)
(* transaction's commit, delivered when it enters the stream, forgotten    *)
(* when its row is deleted, and never delivered after that.                *)
Promise == INSTANCE AtLeastOnce WITH
    held <- rows, delivered <- stream

KeepsPromise == Promise!ObSpec
=============================================================================
