# A TLA+ verification of the release notifier

The system e-mails subscribers when a GitHub repository publishes a release. Four Go services
(subscription, saga orchestrator, notifier, scanner), each with its own PostgreSQL database, exchange
events over NATS JetStream. This directory holds TLA+ models of the parts whose correctness depends on
interleaving, redelivery and crashes, the TLC configurations that check them, and TLAPS proofs.

## Inventory

| Part | State | Operations | Talks to |
|---|---|---|---|
| subscription service | `subscriptions`, `repositories`, outbox; confirmation JWTs in circulation | Subscribe, Confirm, Unsubscribe, Cleanup (ticker), Compensate | publishes `subscriptions.*`; consumes `saga.compensate` or its RPC |
| saga orchestrator | `sagas`, outbox | OnPending, OnConfirmationSent, OnConfirmed, OnExpired, OnConfirmationDead | consumes five subjects; publishes `saga.compensate` or calls gRPC |
| notifier, confirmations | `failed_confirmations`, outbox | SendConfirmation, Retrier.Confirmations | consumes `subscriptions.pending`; publishes `notifications.confirmation.*` |
| notifier, releases | `subscriptions_read`, `processed_releases`, `failed_notifications`, outbox | projections, NotifyRelease, Retrier.Releases, pruning | consumes `subscriptions.confirmed/removed`, `releases.detected` |
| mailer | bounded job channel, one worker | DeliverConfirmation, SendReleaseNotifications, Shutdown | SMTP |
| GitHub client | Redis entries with a TTL | RepoExists, GetLatestRelease | GitHub, Redis; used by subscribe calls and scan passes |
| process of a service | open resources, deferred closers, consumers, loops | Run, serve, gracefulShutdown | signals, server errors |
| scanner | `watched_repos` | projections, scan, AdvanceTag | consumes `subscriptions.confirmed/removed`, `releases.notified`; publishes `releases.detected` directly |
| outbox relay | `outbox_messages`, nudge channel | Enqueue, Notify, flush | JetStream |
| broker | streams, durable consumers | Publish, dispatch, Ack/Nak/Term | all services |

What makes it hard: durables are independent, so there is no order between subjects; delivery is at
least once and at most `MaxDeliver` times; e-mails leave before the transaction that records them; links
are stateless; saga events find their saga by two different keys; relays publish before they delete;
cached answers are stored after the question was asked; handlers outlive the consumers that started them
while a process closes what they use. The `hazards` of `PROJECT.json` list each of these at its line.

## Modules

- **Events**: business keys, identifiers, events. One identifier stands for all that one subscribe call
  mints (saga id, JWT, unsubscribe token).
- **SubscriptionService**: the table, the links, the calls in flight, the committed events. A use case
  that is one transaction is one action. Subscribe is `SubscribeResolve` and `SubscribeCommit` or
  `SubscribeAbort`, because it reads the row outside its transaction. Confirm's check of the link and its
  transaction are one action. Ages are capped one above the limit.
- **SagaCoordinator**: the `sagas` table and its handlers. `OnConfirmationDead` is split at its read, and
  the gRPC compensator again before its call.
- **Confirmations**: sending and recording are separate steps; a send reported as failed may have left.
- **SubscribeSaga** composes these three with their relays and seven durables: FIFO per durable,
  redelivery up to `MaxDeliver`, then the message is dropped. A relay step publishes and deletes one
  message; `RelayCrash` publishes some and deletes none.
- **OutboxRelay**: the relay in detail: ids taken before commit, coalescing nudges (one channel per relay
  process), ticker, `FOR UPDATE SKIP LOCKED`, partial batches, errors, restarts. `Deployments` are the
  sets of relay processes that may share the table; a behaviour has one of them from start to end.
- **AtLeastOnce**: what an outbox promises. `OutboxRelay!KeepsPromise` maps `held` to the visible rows
  and `delivered` to the stream: a message is published only while its row is there.
- **ReleaseFlow**: scanner and notifier around one repository (every statement is scoped by
  `repo_name`). Membership events reach four durables (`acked` counts what each is done with) and feed
  the watch list (`count`, `seen`) and the read model (`readers`). A scan pass is split at its listing,
  `NotifyRelease` and a retry at the transaction after the send, so any step may fall in between. A lost
  ack handles a message twice, `Dropped` stands for a message that failed `MaxDeliver` times. `Prune`
  deletes the oldest marks. The code only ends the retries of the tick first; the constant `LongTTL` is
  an assumption on the configuration, that `PROCESSED_RELEASE_TTL` (720h by default) outlasts messages,
  passes and retries, which take minutes. Unsubscribe tokens and `notifications.release.failed`,
  which nothing consumes, are left out. `mails`, `excuses`, `seeded`, `newest` and `drift` are history.
- **Mailer**: the job channel, `dispatch` and `deliver`, and the callers that enqueue a job and wait for
  its result (`DeliverConfirmation` is the case of one address). Building a message is a test of its
  address, `Buildable` the ones that pass, in order; dialling uses the caller's context, sending does not. `left` is history.
- **ServiceProcess** extends Mailer with a process of one of the four services (`service`, chosen at the
  start): `Plan` is what `Run` opens in order, `closers` its deferred closers, `consuming` its durables,
  `task` what each goroutine does. Every start-up step may fail; a signal ends every context but those
  of requests; a server error ends none, so `gracefulShutdown` cancels the loops it waits for. Stopping a
  consumer does not wait for its handler, closing the pool waits for its transactions, stopping the
  mailer waits for its worker or times out. What a transaction does is in the other modules; here it
  only holds a connection. A send on the closed channel is always ready and panics.
- **GitHubClient**: look up, ask, store, return, as separate steps of up to `Workers` goroutines. A
  repository's value is a version; its first, 0, is a 404, which is cached too. Time is counted in
  ticks: entries live `TTL` of them, a request takes at most `CallTime`. `old` (how long GitHub has had
  something newer), `sinceAnswer` and `redisFailed` are history.
- **ScanPass** extends GitHubClient with its two users: the scanner's passes with their worker pool and
  early stop, or subscribe calls that ask for one repository at once. Their keys are disjoint, so each
  behaviour has one of the two. `seen` is the version a pass last processed; what becomes of it is
  ReleaseFlow's.
- **MC...** modules give constants their values and add symmetry sets. **...Proofs** modules hold the
  theorems (see Proofs). Definitions marked "Variant" are deliberately wrong alternatives of the
  definition that follows; substituting one must violate a property, which shows that the property
  depends on the code.

## Runs

| Run | Checks | Bounds |
|---|---|---|
| subscription_service | table and events agree, events alternate, rows are announced, confirmed rows are safe, the sweep waits for the link and alone resolves every pending row | 1 e-mail, 2 repositories, 3 identifiers, 2 calls at once, TTL 1 |
| subscribe_saga | types of the composition, no stranded retry row; every subscribe is answered, rollbacks arrive | NATS, 1 key, 1 identifier, 1 fault, MaxDeliver 2 |
| dropped_message | terminal sagas move only by a restart; until something fails, a compensated saga's row is gone or its removal under way | gRPC, 1 key, 1 identifier, 1 fault, MaxDeliver 1 |
| resubscribe | progress and rollback are justified by committed events | 1 key, 2 identifiers, no fault |
| outbox_relay | no loss and no invention, exclusive locks, order with one relay, nudges suffice until a fault, everything is published, refinement of AtLeastOnce | 1 relay with 3 messages or 2 with 2, batches of 2, 1 fault |
| release_flow | projections are exact unless an event was lost, repeated or overtaken; repeated e-mails have a reason; the tag follows delivery; retry rows leave with an outcome | 2 addresses, 2 releases, 2 membership events, 2 attempts, 1 pruning at any time (`LongTTL` false), 1 fault |
| release_live | retries end; a release is announced until it is processed | the same with 1 address and `LongTTL` |
| services | nothing is left open, resources outlive consumers and awaited loops, the mailer's answers are true and always come, giving up is never recorded as a failed delivery, a stop drains and ends | 4 services, queue of 1, 2 mailer calls of 1 or 2 addresses, one of them invalid |
| scan_pass | answers are fresh, one request per TTL, a broken repository is isolated, releases are never seen backwards and always seen | 2 repositories, 2 workers, TTL 2, CallTime 1, 2 new versions, 2 faults |

Three identifiers let a key be subscribed, left and subscribed again with a stale link around; two calls
at once give the read-then-write race. Three messages exceed one batch. One fault may hit any step. Two
calls suffice to find a queue of one full, with a caller in each select. Two workers let an
answer arrive while the other refuses the pass; a TTL of two ticks gives hits and misses in turn. Of
two releases the first seeds the tag and the second is announced; two addresses give batches that reach
one and miss the other. release_live has one address and a long TTL to stay small: it also holds without
`LongTTL`, in 114,765 states instead of 50,990. emailed_once has `LongTTL`, so that its trace does not rest
on an odd configuration.

Three runs expect a violation; each shows the code doing other than a document says:

- **orphan_row**: a dead event that overtakes the pending one is acknowledged as unknown, so the row waits
  for the sweep (`docs/adr/013-orchestrated-saga.md:98-99`).
- **emailed_once**: with no fault but a mail server that is down for one batch, a release is e-mailed
  twice (`docs/SDD.md:390-391`). The batch reached nobody, so the tag does not advance; the retry reaches
  everybody but announces only `notifications.release.sent`; the scanner goes on announcing the release,
  and when the mark is pruned the batch is sent again. `AgainOnlyForAReason` says what does hold.
- **shutdown_drain**: after a server error the notifier's consumers are stopped, but a handler that is
  running goes on with a live context; when the mailer closes its channel the handler's send panics, and
  the process ends with accepted mail undelivered (`docs/adr/006-mailer-dispatch-queue.md:10-11`).
  `UsersBeforeResources` and `ProcInv` say what does hold.

More was met while modelling and has no run of its own:

- A link is stateless, so after an unsubscribe and a new subscribe an old one confirms again, against the
  "one-time" of `docs/SDD.md:14`; `MembershipAlternates` and `StateMatchesLog` hold all the same.
- A redelivered pending event restarts a terminal saga (`docs/adr/013-orchestrated-saga.md:65-66` calls
  transitions gated on their source states); `TerminalLeftByStart` says that nothing else does.
- A confirmed event ahead of the pending one leaves the saga pending, and a second failure of a key keeps
  the first saga id in `failed_confirmations`.
- Overlapping subscribe calls that miss the cache each ask GitHub, so "one GitHub API call per 10 minutes"
  (`docs/adr/003-redis-caching-strategy.md:30`) holds for the scanner only (`OneRequestPerTTL`).
- When Redis fails a lookup and then the store of the newer answer, the older entry is read again by the
  next pass, and the scanner goes back to an older release; `NeverBackwards` is stated while Redis works.

That gRPC compensation may be lost in a crash is documented (`docs/hw9-*.md`), so it is not among them;
`RollbackArrives` is checked for the NATS transport.

## Fairness

Schedulers, tickers and relays are loops that only stop with their process, JetStream keeps delivering,
and handlers return: weak fairness of each. Dead-lettering by age runs at the start of every maintenance
pass and is disabled while a pass is under way: strong fairness. A pass also comes to every release row
that is due, one at a time, so the retry of a row is disabled while another is retried: strong fairness
for each row. Nothing is assumed of users, and in the composition nothing of the sweep. Faults are
bounded, which stands for "faults eventually stop".

`ProcFairSpec`: goroutines are scheduled, so transactions end, the worker goes on, a select sees what is
ready, and `Run` goes from one step to the next. Signals, ticks, messages, server errors and failures need
not come; only once a signal has come does `serve` see it. `ScanFairSpec`: time passes, the scheduler runs
its passes, and workers go on. GitHub and subscribers owe nothing.

## Proofs

Everything here holds for every value of the constants: any number of e-mails, repositories, identifiers,
messages, replicas, workers and faults, and every limit. The assumptions are the named `ASSUME`s of the
component modules (limits are natural numbers, sets of keys and of replicas are finite, the transport is
one of two, batches are lists of addresses, only the notifier's handlers and retrier send mail). Every proof has the same shape: an inductive invariant stronger than the property, one lemma
per action and part of it, and a last step that combines them. The invariants were model-checked on the
runs' instances before they were proved.

**SubscriptionServiceProofs**: `SubTypeOK`, `StateMatchesLog`, `MembershipAlternates`, `RowAnnounced`,
`ConfirmedLeavesByUnsubscribe`, `SweepSparesLiveLink`. `SubInv` adds that a row exists exactly when it
has a token, that tokens are distinct, that calls in flight have fresh identifiers, that a token was
announced, that a token in a confirmed event belongs to no pending row, and that a row is no older than
the link issued with it. The first facts make a delete by token remove only what the log says is
subscribed; the last one makes the sweep's limit safe for the link. The sweep deletes its rows in an
arbitrary order (`Bijection` in `Cleanup`).

**SagaServicesProofs**: the orchestrator and the notifier's confirmations each on their own, for whatever
events arrive in whatever order. `CompensatedHasCommand` and `TerminalLeftByStart` of the one,
`OutcomeJustified` and `ConfTypeOK` (no row is left with its retries used up) of the other. `ConfInd` adds
that a key without a row has no retries, that a row and a retry under way had a failure, and that a send
recorded as a success was one.

**SubscribeSagaProofs**: the composition. `TransactionRefinesServices` shows that it implements the
specification of each of its three services, step by step: every message that reaches a handler carries a
key and an identifier that the handler expects. So the invariants of the services carry over
(`ServicesKeepPromises`), and `FlowInd` only adds the wire: a queued message was committed to an outbox, a
handler under way has its message outstanding, an identifier belongs to one key. From it follow
`WireTypeOK`, `SagaJustified`, `RollbackJustified` and `MarkedIsRolledBack`. What a durable gets of a
published batch is `OnSubject`; that it consists of the batch's messages of that subject (`FilterLaw`) is
assumed by the lemmas and proved at the end, where the facts about cardinalities are at hand.

**OutboxRelayProofs**: `OutInv`, `CausalOrder`, `NudgeSuffices`, and the refinement of `AtLeastOnce`
(`KeepsPromise`). `OutInd` adds that a batch consists of visible rows, which only its relay deletes, that
what is about to be deleted is in the stream, that ids grow with commits, that the batch of a single relay
leaves out nothing that must go first, and who will look at each row again while nothing has failed.

**ScanPassProofs**: `AnswersFresh`, `OneRequestPerTTL`, `BrokenRepoIsolated`, `NeverBackwards`. `ScanInd`
keeps an account of the age of every copy of an answer (`CopiesFresh`), says that a pass has one call per
repository and has lost none (`OneCallPerKey`, `PassAccounted`), that GitHub's last answer is in the cache
for as long as it is recent or is about to be stored (`CacheCovers`), and orders all copies of a key from
the processed to the current (`Monotone`).

**ReleaseMailProofs** and **ReleaseFlowProofs**: `RFTypeOK`, `WatchCountExact`, `ReadModelExact`,
`AgainOnlyForAReason`, `SeenMeansDelivered`, `RowLeavesForAReason`. Three arguments, one per group of
variables. Events: they alternate for each address, and the newest one in the read model is no older than
any that its durable is done with (`ReadInd`). Tags: a notified event says delivered only about a tag that
somebody got (`TagInd`). E-mails: those an address has had, plus one if a batch and one if a retry may
still reach it, never exceed one more than the reasons to send again (`MailInd`).

**ServiceProcessProofs**: `ProcInv`, `UsersBeforeResources`, `AnswerTrue`, `GiveUpNotRecorded`, for all
four services and, in the notifier, every set of batches and every queue size. `ProcInd` has five parts.
The deferred closers are the lowest entries of one stack per service, as high as start-up has come, and
what is open is what is below them (`StackInd`); that `Run`'s steps push that stack in order is proved once
for each service from its `Plan`. A loop works only between start-up and the end of `gracefulShutdown`
(`LoopInd`). There are jobs only while the mailer's goroutine is there, which it is until the mailer was
shut down (`DrainInd`). Calls have different numbers, a job or result whose call is still under way is that
caller's, and reports as sent only what left (`MailInd`); a call under way is that of a goroutine that waits
for it, and one that gave up has an ended context and cannot begin a transaction (`TaskInd`). That positions
of results and recipients agree rests on what `Buildable` keeps of a batch (`BuildLaw`, proved by counting).

Liveness (`PendingResolves`, `ConfirmationAnswered`, `RollbackArrives`, `EventuallyPublished`,
`FailedRowsResolve`, `LastReleaseProcessed`, `CallReturns`, `StopsWhenTold`, `ReleaseSeen`) is only
model-checked, because fairness and ENABLED are beyond the prover.

## Not modelled

`Mailer.SendConfirmation` has no caller and is left out, and so is the unsubscribe token of a read-model
row, which only decorates an e-mail. ServiceProcess has one process: how replicas share tables is in
OutboxRelay, how a crash is survived in SubscribeSaga and ReleaseFlow.
Configuration, logging, metrics, migrations and the RPC edge (validation, authentication, error mapping)
have no protocol state and stay out. Poison messages are left out because every modelled event is well
formed.
