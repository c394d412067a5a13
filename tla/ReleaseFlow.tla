---------------------------- MODULE ReleaseFlow ----------------------------
(***************************************************************************)
(* How a release becomes e-mails: the scanner's watch list and scan, the   *)
(* notifier's read model, its batch, its retries and its dedupe table, and *)
(* the tag that closes the loop.  One repository: every statement of both  *)
(* services is scoped by repo_name, and a pass cut short by GitHub is, for *)
(* a repository it did not reach, a pass that did not run.  The            *)
(* subscription service is seen through its confirmed and removed events.  *)
(* Durables are FIFO and independent of each other.                        *)
(***************************************************************************)
EXTENDS Naturals, Sequences, FiniteSets

CONSTANTS
    Emails,
    Watch,         \* stands for the watch list in `drift`
    MaxRetries,    \* MAX_RETRIES
    LongTTL,       \* PROCESSED_RELEASE_TTL outlasts deliveries and retries
    MaxTag,        \* bound: releases on GitHub, tagged 1, 2, ...
    MaxChanges,    \* bound: confirmed and removed events
    MaxBacklog,    \* bound: releases.detected messages waiting
    MaxPrunes,     \* bound: times that PROCESSED_RELEASE_TTL passes
    MaxFaults      \* bound: errors, crashes, lost acks, dropped messages

ASSUME MaxRetriesIsPositive == MaxRetries \in Nat \ {0}
ASSUME LongTTLIsBoolean == LongTTL \in BOOLEAN
ASSUME MaxTagIsNatural == MaxTag \in Nat

Tags == 1..MaxTag
NoTag == 0         \* NULL
Durables == {"scanner_confirmed", "scanner_removed", "notifier_confirmed", "notifier_removed"}

VARIABLES
    joins,      \* subscriptions.confirmed, in order
    leaves,     \* subscriptions.removed, in order
    acked,      \* how many messages of its subject a durable is done with
    count,      \* watched_repos.subscriber_count; 0 when there is no row
    seen,       \* watched_repos.last_seen_tag
    readers,    \* subscriptions_read
    newest,     \* history: the newest event of an address in the read model
    drift,      \* history: what a lost, repeated or overtaken event spoiled
    latest,     \* the latest release on GitHub
    pass,       \* <<last_seen_tag as listed>> while a scan pass runs
    detected,   \* releases.detected: tags
    batch,      \* <<the batch that was sent and is not recorded>>
    processed,  \* processed_releases, oldest first
    failed,     \* failed_notifications
    retry,      \* <<the retry that was sent and is not recorded>>
    notified,   \* releases.notified
    sent, dead, \* notifications.release.sent and .dead: <<tag, email>>
    mails,      \* history: e-mails that left, per tag and address
    excuses,    \* history: reasons to send one again
    seeded,     \* history: tags the list was seeded with
    prunes, faults

memberVars == <<joins, leaves>>
readVars == <<readers, newest>>
scannerVars == <<count, seen, pass, seeded>>
batchVars == <<batch, processed, sent>>
retryVars == <<failed, retry, dead>>
mailVars == <<mails, excuses>>
rfVars == <<memberVars, acked, scannerVars, readVars, drift, latest, detected, batchVars,
            retryVars, notified, mailVars, prunes, faults>>

Pairs == Tags \X Emails
Rows == [tag : Tags, email : Emails, retries : 0..(MaxRetries - 1)]

RFInit ==
    /\ joins = <<>> /\ leaves = <<>> /\ acked = [d \in Durables |-> 0]
    /\ count = 0 /\ seen = NoTag /\ pass = <<>> /\ seeded = {}
    /\ readers = {} /\ newest = [e \in Emails |-> 0] /\ drift = {}
    /\ latest = NoTag
    /\ detected = <<>> /\ notified = <<>>
    /\ batch = <<>> /\ processed = <<>> /\ sent = {}
    /\ failed = {} /\ retry = <<>> /\ dead = {}
    /\ mails = [p \in Pairs |-> 0] /\ excuses = [p \in Pairs |-> 0]
    /\ prunes = 0 /\ faults = 0

Fault == faults < MaxFaults /\ faults' = faults + 1
NoFault == UNCHANGED faults

----------------------------------------------------------------------------
(* What the subscription service commits: per address, confirmed and       *)
(* removed events alternate (SubscriptionService!MembershipAlternates).    *)
Occurs(e, q) == Cardinality({i \in DOMAIN q : q[i] = e})
Subscribed(e) == Occurs(e, joins) > Occurs(e, leaves)

Join(e) ==
    /\ Len(joins) + Len(leaves) < MaxChanges
    /\ ~Subscribed(e)
    /\ joins' = Append(joins, e)
    /\ UNCHANGED <<leaves, acked, scannerVars, readVars, drift, latest, detected, batchVars,
                   retryVars, notified, mailVars, prunes, faults>>

Leave(e) ==
    /\ Len(joins) + Len(leaves) < MaxChanges
    /\ Subscribed(e)
    /\ leaves' = Append(leaves, e)
    /\ UNCHANGED <<joins, acked, scannerVars, readVars, drift, latest, detected, batchVars,
                   retryVars, notified, mailVars, prunes, faults>>

Release ==
    /\ latest < MaxTag
    /\ latest' = latest + 1
    /\ UNCHANGED <<memberVars, acked, scannerVars, readVars, drift, detected, batchVars,
                   retryVars, notified, mailVars, prunes, faults>>

----------------------------------------------------------------------------
(* The projections.  A handler that succeeded is acknowledged, unless the  *)
(* ack is lost and the message comes again; a message that failed          *)
(* MaxDeliver times is dropped.                                            *)
Subject(d) == IF d \in {"scanner_confirmed", "notifier_confirmed"} THEN joins ELSE leaves
Waiting(d) == acked[d] < Len(Subject(d))
Current(d) == Subject(d)[acked[d] + 1]
Acked(d) == acked' = [acked EXCEPT ![d] = @ + 1]

(* INSERT ... ON CONFLICT DO UPDATE: a new row has no tag.                 *)
IncrementOnce == count' = 1 /\ UNCHANGED seen   \* variant: ON CONFLICT DO NOTHING
IncrementSubscriber == count' = count + 1 /\ UNCHANGED seen

DecrementKeepsRow ==   \* variant: the last subscriber leaves an empty row
    /\ count' = IF count > 0 THEN count - 1 ELSE 0
    /\ UNCHANGED seen
DecrementSubscriber ==
    IF count > 1 THEN count' = count - 1 /\ UNCHANGED seen
                 ELSE count' = 0 /\ seen' = NoTag

ScannerConfirmed ==
    /\ Waiting("scanner_confirmed")
    /\ IncrementSubscriber
    /\ \/ Acked("scanner_confirmed") /\ UNCHANGED <<drift, faults>>
       \/ Fault /\ drift' = drift \cup {Watch} /\ UNCHANGED acked
    /\ UNCHANGED <<memberVars, pass, seeded, readVars, latest, detected, batchVars,
                   retryVars, notified, mailVars, prunes>>

(* A removal that finds no row was ahead of its confirmation.              *)
ScannerRemoved ==
    /\ Waiting("scanner_removed")
    /\ DecrementSubscriber
    /\ \/ /\ Acked("scanner_removed") /\ NoFault
          /\ drift' = IF count = 0 THEN drift \cup {Watch} ELSE drift
       \/ Fault /\ drift' = drift \cup {Watch} /\ UNCHANGED acked
    /\ UNCHANGED <<memberVars, pass, seeded, readVars, latest, detected, batchVars,
                   retryVars, notified, mailVars, prunes>>

Upsert(e) == readers \cup {e}
DeleteNothing(e) == readers   \* variant: a removal is ignored
Delete(e) == readers \ {e}

(* The place of a durable's current message among the events of its        *)
(* address: the n-th confirmation is 2n - 1, the n-th removal 2n.          *)
Place(d) ==
    LET n == Occurs(Current(d), SubSeq(Subject(d), 1, acked[d] + 1))
    IN  IF d = "notifier_confirmed" THEN 2 * n - 1 ELSE 2 * n

Project(d) ==
    LET e == Current(d) IN
    /\ newest' = [newest EXCEPT ![e] = IF Place(d) > @ THEN Place(d) ELSE @]
    /\ drift' = IF Place(d) < newest[e] THEN drift \cup {e} ELSE drift
    /\ \/ Acked(d) /\ NoFault
       \/ Fault /\ UNCHANGED acked

NotifierConfirmed ==
    /\ Waiting("notifier_confirmed")
    /\ readers' = Upsert(Current("notifier_confirmed"))
    /\ Project("notifier_confirmed")
    /\ UNCHANGED <<memberVars, scannerVars, latest, detected, batchVars,
                   retryVars, notified, mailVars, prunes>>

NotifierRemoved ==
    /\ Waiting("notifier_removed")
    /\ readers' = Delete(Current("notifier_removed"))
    /\ Project("notifier_removed")
    /\ UNCHANGED <<memberVars, scannerVars, latest, detected, batchVars,
                   retryVars, notified, mailVars, prunes>>

Dropped(d) ==
    /\ Waiting(d)
    /\ Acked(d)
    /\ Fault
    /\ drift' = drift \cup {IF d \in {"scanner_confirmed", "scanner_removed"}
                             THEN Watch ELSE Current(d)}
    /\ UNCHANGED <<memberVars, scannerVars, readVars, latest, detected, batchVars,
                   retryVars, notified, mailVars, prunes>>

----------------------------------------------------------------------------
(* UPDATE watched_repos: without a row nothing happens.                    *)
AdvanceTag(t) == seen' = IF count > 0 THEN t ELSE seen

(* WHERE subscriber_count > 0                                              *)
ListWatched == IF count > 0 THEN <<seen>> ELSE <<>>

(* Run lists the repository with the tag it has now; an empty list ends    *)
(* the pass.                                                               *)
ScanList ==
    /\ pass = <<>>
    /\ pass' = ListWatched
    /\ UNCHANGED <<memberVars, acked, count, seen, seeded, readVars, drift, latest, detected, batchVars,
                   retryVars, notified, mailVars, prunes, faults>>

(* No release, an error of GitHub or of the database, or a restart.        *)
ScanNothing ==
    /\ pass # <<>>
    /\ pass' = <<>>
    /\ IF latest = NoTag THEN NoFault ELSE Fault
    /\ UNCHANGED <<memberVars, acked, count, seen, seeded, readVars, drift, latest, detected, batchVars,
                   retryVars, notified, mailVars, prunes>>

(* process: the first tag of a row is only remembered.                     *)
Seed ==
    /\ pass = <<NoTag>> /\ latest # NoTag
    /\ AdvanceTag(latest)
    /\ seeded' = seeded \cup {latest}
    /\ pass' = <<>>
    /\ UNCHANGED <<memberVars, acked, count, readVars, drift, latest, detected, batchVars,
                   retryVars, notified, mailVars, prunes, faults>>

Unchanged ==
    /\ pass = <<latest>> /\ latest # NoTag
    /\ pass' = <<>>
    /\ UNCHANGED <<memberVars, acked, count, seen, seeded, readVars, drift, latest, detected, batchVars,
                   retryVars, notified, mailVars, prunes, faults>>

(* ReleaseDetected is published directly, without an outbox.               *)
ReleaseDetected(t) == detected' = Append(detected, t)

(* Variant: the tag advances when the release is announced.                *)
DetectAdvances ==
    /\ pass # <<>> /\ latest # NoTag
    /\ pass[1] \notin {NoTag, latest}
    /\ Len(detected) < MaxBacklog
    /\ ReleaseDetected(latest)
    /\ pass' = <<>>
    /\ AdvanceTag(latest)
    /\ UNCHANGED <<memberVars, acked, count, seeded, readVars, drift, latest, batchVars,
                   retryVars, notified, mailVars, prunes, faults>>

(* process: a tag other than the one listed is announced, and announced    *)
(* again by every pass until the tag advances.                             *)
Detect ==
    /\ pass # <<>> /\ latest # NoTag
    /\ pass[1] \notin {NoTag, latest}
    /\ Len(detected) < MaxBacklog
    /\ ReleaseDetected(latest)
    /\ pass' = <<>>
    /\ UNCHANGED <<memberVars, acked, count, seen, seeded, readVars, drift, latest, batchVars,
                   retryVars, notified, mailVars, prunes, faults>>

----------------------------------------------------------------------------
(* SendReleaseNotifications to the addresses `to`: `bad` are reported as   *)
(* failed.  With a fault, one of them left all the same (the server's      *)
(* answer was lost).                                                       *)
Count(f, ps) == [p \in Pairs |-> IF p \in ps THEN f[p] + 1 ELSE f[p]]
Of(t, es) == {t} \X es

SendReleaseNotifications(t, to, bad) ==
    /\ excuses' = Count(excuses, Of(t, bad))
    /\ \/ mails' = Count(mails, Of(t, to \ bad)) /\ NoFault
       \/ \E e \in bad : mails' = Count(mails, Of(t, (to \ bad) \cup {e})) /\ Fault

NeverProcessed(t) == FALSE   \* variant: the dedupe table is not asked
Processed(t) == \E i \in DOMAIN processed : processed[i] = t

RecipientsByRepo == readers

(* Execute on a release that was processed: acknowledged, nothing else.    *)
NotifySkip ==
    /\ batch = <<>> /\ detected # <<>>
    /\ Processed(Head(detected))
    /\ detected' = Tail(detected)
    /\ UNCHANGED <<memberVars, acked, scannerVars, readVars, drift, latest, batchVars,
                   retryVars, notified, mailVars, prunes, faults>>

(* Execute up to its transaction: resolve the recipients and send.         *)
NotifySend ==
    /\ batch = <<>> /\ detected # <<>>
    /\ ~Processed(Head(detected))
    /\ \E bad \in SUBSET RecipientsByRepo :
          /\ SendReleaseNotifications(Head(detected), RecipientsByRepo, bad)
          /\ batch' = <<[tag |-> Head(detected), to |-> RecipientsByRepo, bad |-> bad]>>
    /\ UNCHANGED <<memberVars, acked, scannerVars, readVars, drift, latest, detected, processed, sent,
                   retryVars, notified, prunes>>

(* INSERT ... ON CONFLICT (repo_name, tag, email) DO NOTHING               *)
HasRow(t, e) == \E r \in failed : r.tag = t /\ r.email = e
AddedRows(t, es) == {[tag |-> t, email |-> e, retries |-> 0] : e \in {x \in es : ~HasRow(t, x)}}

Mark(t) == IF Processed(t) THEN processed ELSE Append(processed, t)

(* recordOutcomes: the recipients that are not in result.Failed.           *)
Reached(b) == b.to \ b.bad

(* The transaction of Execute: a row or a sent event per recipient, the    *)
(* notified event, the mark.  The ack may be lost.  The failed events are  *)
(* left out: no service consumes them.                                     *)
NotifyRecord ==
    /\ batch # <<>>
    /\ LET b == batch[1] IN
       /\ failed' = failed \cup AddedRows(b.tag, b.bad)
       /\ sent' = sent \cup Of(b.tag, Reached(b))
       /\ notified' = Append(notified, [tag |-> b.tag, delivered |-> Reached(b) # {}])
       /\ processed' = Mark(b.tag)
    /\ batch' = <<>>
    /\ \/ detected' = Tail(detected) /\ NoFault
       \/ UNCHANGED detected /\ Fault
    /\ UNCHANGED <<memberVars, acked, scannerVars, readVars, drift, latest, retry, dead, mailVars, prunes>>

(* The transaction fails, or the process dies before it: the message comes *)
(* again, or was delivered MaxDeliver times and is dropped.                *)
NotifyAborted ==
    /\ batch # <<>>
    /\ Fault
    /\ excuses' = Count(excuses, Of(batch[1].tag, batch[1].to))
    /\ batch' = <<>>
    /\ detected' \in {detected, Tail(detected)}
    /\ UNCHANGED <<memberVars, acked, scannerVars, readVars, drift, latest, processed, sent,
                   retryVars, notified, mails, prunes>>

(* AdvanceTag.Execute on a releases.notified.  Variant: whatever was sent. *)
AdvanceAlways(m) == AdvanceTag(m.tag)
AdvanceIfSent(m) == IF m.delivered THEN AdvanceTag(m.tag) ELSE UNCHANGED seen

HandleNotified ==
    /\ notified # <<>>
    /\ AdvanceIfSent(Head(notified))
    /\ \/ notified' = Tail(notified) /\ NoFault
       \/ UNCHANGED notified /\ Fault
    /\ UNCHANGED <<memberVars, acked, count, pass, seeded, readVars, drift, latest, detected, batchVars,
                   retryVars, mailVars, prunes>>

NotifiedDropped ==
    /\ notified # <<>>
    /\ Fault
    /\ notified' = Tail(notified)
    /\ UNCHANGED <<memberVars, acked, scannerVars, readVars, drift, latest, detected, batchVars,
                   retryVars, mailVars, prunes>>

----------------------------------------------------------------------------
(* The maintenance loop: one goroutine retries rows and prunes.            *)
DeleteRow(r) == failed \ {r}
IncrementRetry(r) == DeleteRow(r) \cup {[r EXCEPT !.retries = @ + 1]}
Retryable(r) == r \in failed /\ r.retries < MaxRetries

(* Recipient: the address is in the read model.  Variant: an error of the  *)
(* query is taken for ErrNotFound.                                         *)
RecipientNever(r) == FALSE
Recipient(r) == r.email \in readers

(* retryRelease on an address that is no longer in the read model.         *)
RetryGone(r) ==
    /\ retry = <<>> /\ Retryable(r)
    /\ ~Recipient(r)
    /\ failed' = DeleteRow(r)
    /\ UNCHANGED <<memberVars, acked, scannerVars, readVars, drift, latest, detected, batchVars,
                   retry, dead, notified, mailVars, prunes, faults>>

RetrySend(r) ==
    /\ retry = <<>> /\ Retryable(r)
    /\ Recipient(r)
    /\ \E bad \in SUBSET {r.email} :
          /\ SendReleaseNotifications(r.tag, {r.email}, bad)
          /\ retry' = <<[row |-> r, ok |-> bad = {}]>>
    /\ UNCHANGED <<memberVars, acked, scannerVars, readVars, drift, latest, detected, batchVars,
                   failed, dead, notified, prunes>>

LastAttemptLate(r) == r.retries >= MaxRetries   \* variant: off by one
LastAttempt(r) == r.retries + 1 >= MaxRetries

(* Sent, dead or one more attempt, each in one statement or transaction.   *)
RetryRecord ==
    /\ retry # <<>>
    /\ LET r == retry[1].row
           p == <<r.tag, r.email>> IN
       \/ /\ retry[1].ok
          /\ failed' = DeleteRow(r) /\ sent' = sent \cup {p} /\ UNCHANGED dead
       \/ /\ ~retry[1].ok /\ LastAttempt(r)
          /\ failed' = DeleteRow(r) /\ dead' = dead \cup {p} /\ UNCHANGED sent
       \/ /\ ~retry[1].ok /\ ~LastAttempt(r)
          /\ failed' = IncrementRetry(r) /\ UNCHANGED <<sent, dead>>
    /\ retry' = <<>>
    /\ UNCHANGED <<memberVars, acked, scannerVars, readVars, drift, latest, detected, batch, processed,
                   notified, mailVars, prunes, faults>>

RetryAborted ==
    /\ retry # <<>>
    /\ Fault
    /\ excuses' = Count(excuses, {<<retry[1].row.tag, retry[1].row.email>>})
    /\ retry' = <<>>
    /\ UNCHANGED <<memberVars, acked, scannerVars, readVars, drift, latest, detected, batchVars,
                   failed, dead, notified, mails, prunes>>

(* What takes minutes: messages, passes, and the retries of a row, five    *)
(* every 15m.                                                              *)
AllIdle ==
    /\ failed = {} /\ batch = <<>> /\ pass = <<>>
    /\ detected = <<>> /\ notified = <<>>

(* DeleteProcessedBefore: the marks older than the limit, after the        *)
(* retries of the same tick.  The code waits for nothing else; LongTTL     *)
(* says that the limit (720h by default) is long enough for the rest to    *)
(* have ended before a mark is that old.                                   *)
Prune ==
    /\ retry = <<>>
    /\ LongTTL => AllIdle
    /\ prunes < MaxPrunes /\ prunes' = prunes + 1
    /\ \E n \in DOMAIN processed :
          /\ processed' = SubSeq(processed, n + 1, Len(processed))
          /\ excuses' = Count(excuses, {processed[i] : i \in 1..n} \X Emails)
    /\ UNCHANGED <<memberVars, acked, scannerVars, readVars, drift, latest, detected, batch, sent,
                   retryVars, notified, mails, faults>>

----------------------------------------------------------------------------
Deliveries ==
    ScannerConfirmed \/ ScannerRemoved \/ NotifierConfirmed \/ NotifierRemoved \/ HandleNotified
Scan == ScanList \/ Seed \/ Unchanged \/ Detect
Notify == NotifySkip \/ NotifySend \/ NotifyRecord
RetryRow(r) == RetryGone(r) \/ RetrySend(r)

RFNext ==
    \/ \E e \in Emails : Join(e) \/ Leave(e)
    \/ Release
    \/ Deliveries \/ Scan \/ Notify
    \/ \E d \in Durables : Dropped(d)
    \/ ScanNothing \/ NotifyAborted \/ NotifiedDropped
    \/ \E r \in failed : RetryRow(r)
    \/ RetryRecord \/ RetryAborted \/ Prune

RFSpec == RFInit /\ [][RFNext]_rfVars

(* Schedulers keep ticking, JetStream keeps delivering, handlers return.   *)
RFFairSpec ==
    /\ RFSpec
    /\ WF_rfVars(ScannerConfirmed) /\ WF_rfVars(ScannerRemoved)
    /\ WF_rfVars(NotifierConfirmed) /\ WF_rfVars(NotifierRemoved) /\ WF_rfVars(HandleNotified)
    /\ WF_rfVars(Scan \/ (latest = NoTag /\ ScanNothing)) /\ WF_rfVars(Notify)
    /\ WF_rfVars(RetryRecord)
    /\ \A r \in Rows : SF_rfVars(RetryRow(r))

----------------------------------------------------------------------------
(* Type invariant of the tables and queues: a repository without a row has *)
(* no tag, there is one row per tag and address, and no row is beyond the  *)
(* reach of ListRetryable.                                                 *)
RFTypeOK ==
    /\ joins \in Seq(Emails) /\ leaves \in Seq(Emails)
    /\ \A d \in Durables : acked[d] \in 0..Len(Subject(d))
    /\ count \in Nat
    /\ seen \in Tags \cup {NoTag}
    /\ count = 0 => seen = NoTag
    /\ readers \subseteq Emails
    /\ latest \in Tags \cup {NoTag}
    /\ Len(pass) <= 1 /\ pass \in Seq(Tags \cup {NoTag})
    /\ detected \in Seq(Tags) /\ processed \in Seq(Tags)
    /\ failed \subseteq Rows
    /\ \A r, s \in failed : r.tag = s.tag /\ r.email = s.email => r = s
    /\ \A n \in DOMAIN notified : notified[n].tag \in Tags /\ notified[n].delivered \in BOOLEAN
    /\ sent \subseteq Pairs /\ dead \subseteq Pairs /\ seeded \subseteq Tags

(* The watch list counts exactly the events it handled, whatever their     *)
(* order, unless one was dropped, applied twice or a removal found no row: *)
(* the counter has no other protection (watched_repos.go:36).              *)
WatchCountExact ==
    Watch \notin drift => count = acked["scanner_confirmed"] - acked["scanner_removed"]

(* The read model re-converges (docs/adr/012-event-driven-services.md:63): *)
(* once both durables are drained it holds exactly the subscribed          *)
(* addresses, redeliveries included, except an address of which an event   *)
(* was dropped or applied after a newer one.                               *)
ReadModelExact ==
    ~Waiting("notifier_confirmed") /\ ~Waiting("notifier_removed") =>
        \A e \in Emails \ drift : e \in readers <=> Subscribed(e)

(* What the dedupe table is worth: an address gets a release again only    *)
(* after a send to it was reported as failed, the outcome of a send could  *)
(* not be recorded, or the mark was pruned.  Redelivered and re-detected   *)
(* messages, late retries and repeated scans add nothing                   *)
(* (notify_release.go:95, retrier.go:179).                                 *)
AgainOnlyForAReason == \A p \in Pairs : mails[p] <= 1 + excuses[p]

Delivered(t) == t \in seeded \/ \E e \in Emails : mails[<<t, e>>] > 0

(* The scanner stops announcing a release only when it was the first one   *)
(* it saw of the repository or an e-mail about it left: between the two    *)
(* lie a scan, a batch, a relay and the order of two streams               *)
(* (advance_tag.go:29).                                                    *)
SeenMeansDelivered == seen # NoTag => Delivered(seen)

(* Every address a batch was meant for has had its e-mail, is listed for   *)
(* retry, given up in public, or no longer subscribed: a row leaves        *)
(* failed_notifications only with such an outcome (retrier.go:156-210).    *)
RowLeavesForAReason ==
    [][\A r \in failed : (\E s \in failed' : s.tag = r.tag /\ s.email = r.email)
                         \/ (<<r.tag, r.email>> \in sent' /\ mails[<<r.tag, r.email>>] > 0)
                         \/ <<r.tag, r.email>> \in dead'
                         \/ r.email \notin readers]_rfVars

(* Retries come to an end: no row stays in failed_notifications for ever,  *)
(* although batches add rows while the retrier works through them.         *)
FailedRowsResolve ==
    \A p \in Pairs : HasRow(p[1], p[2]) ~> ~HasRow(p[1], p[2])

(* docs/adr/012-event-driven-services.md:62-63, "a missed                  *)
(* `releases.detected` is re-detected next scan": the last release of a    *)
(* repository that stays on the watch list is processed, or was the first  *)
(* one seen, whatever publication, batch or message was lost.              *)
LastReleaseProcessed ==
    (latest = MaxTag /\ count > 0) ~> (Processed(MaxTag) \/ Delivered(MaxTag) \/ count = 0)

(* docs/SDD.md:390-391: `processed_releases` "dedupes a redelivered/       *)
(* re-detected release so it is emailed once".                             *)
EmailedOnce == \A p \in Pairs : mails[p] <= 1
=============================================================================
