--------------------------- MODULE ServiceProcess ---------------------------
(***************************************************************************)
(* A process of one of the four services from start to exit: Run opens     *)
(* resources one by one, starts consumers and background loops, serves     *)
(* until a signal or a server error, stops the loops it waits for, and     *)
(* runs its deferred closers, the last one first.  Handlers, loops and     *)
(* requests are goroutines that go on meanwhile; stopping a consumer does  *)
(* not wait for its handler.  In the notifier handlers and the retrier     *)
(* send mail through Mailer.                                               *)
(***************************************************************************)
EXTENDS Mailer

(* Mail is sent by the notifier's handlers and by its retrier.             *)
ASSUME SendersOfMail == Callers \subseteq {"events", "release", "ticker"}

VARIABLES
    service,    \* which service this process is
    main,       \* what Run is doing
    at,         \* start-up: index of the next step
    opened,     \* resources open
    closers,    \* deferred closers, oldest first
    consuming,  \* durables with an active subscription
    task,       \* per goroutine: what it is doing
    timedOut    \* mailer.Shutdown gave up waiting

procVars == <<service, main, at, opened, closers, consuming, task, timedOut>>
vars == <<procVars, mailVars>>

Services == {"notifier", "scanner", "saga", "subscription"}

(* Durables of each service, one handler at a time each (MaxAckPending is  *)
(* 1).  "events" is the notifier's for confirmations, and elsewhere stands *)
(* for all, which only write to the database.                              *)
Durables == [s \in Services |-> IF s = "notifier" THEN <<"events", "release">> ELSE <<"events">>]

(* Background loops that gracefulShutdown cancels and waits for, and those *)
(* nobody waits for, which know the signal's context only.  "ticker" is    *)
(* the notifier's maintenance, the scanner's scheduler or the subscription *)
(* service's cleanup.                                                      *)
Awaited == [s \in Services |->
    CASE s \in {"notifier", "scanner"} -> {"ticker"}
      [] s = "saga"                    -> {}
      [] s = "subscription"            -> {"relay", "ticker"}]

Unawaited == [s \in Services |-> IF s \in {"notifier", "saga"} THEN {"relay"} ELSE {}]

(* Run of each service, up to serve; a durable stands for its consumer.    *)
Plan == [s \in Services |->
    CASE s = "notifier" ->
            <<"mailer", "migrate", "pool", "connect", "stream", "streams", "events", "release", "loops">>
      [] s = "scanner" ->
            <<"redis", "migrate", "pool", "connect", "stream", "streams", "events", "loops">>
      [] s = "saga" ->
            <<"migrate", "pool", "connect", "stream", "streams", "compensator", "events", "loops">>
      [] s = "subscription" ->
            <<"migrate", "pool", "redis", "connect", "stream", "streams", "events", "servers", "loops">>]

Handlers == [s \in Services |-> Elements(Durables[s])]
Loops == [s \in Services |-> Awaited[s] \cup Unawaited[s]]
Goroutines == {"events", "release", "ticker", "relay", "request"}
Senders == [s \in Services |-> IF s = "notifier" THEN Callers ELSE {}]

(* What the service's handlers and loops use.                              *)
Needed == [s \in Services |-> {"pool", "broker"} \cup
    (CASE s = "notifier" -> {"mailer"} [] s = "saga" -> {"compensator"} [] OTHER -> {"redis"})]

ProcInit ==
    /\ service \in Services
    /\ main = "starting" /\ at = 1
    /\ opened = {} /\ closers = <<>> /\ consuming = {}
    /\ task = [g \in Goroutines |-> "idle"]
    /\ timedOut = FALSE
    /\ MailInit

Alive == main # "exited" /\ ~panicked
Started == at > Len(Plan[service])

----------------------------------------------------------------------------
(* Start-up.                                                               *)

Step == Plan[service][at]

(* Steps that do their I/O with the signal's context, and so fail once it  *)
(* has ended.                                                              *)
WithContext == {"pool", "redis", "stream", "streams"} \cup Handlers[service]

Signalled == Goroutines \ {"request"} \subseteq ctxDone

(* One step of Run succeeds.  ConnectBroker is two: the connection is      *)
(* closed by ConnectBroker itself until its stream exists.                 *)
StartStep ==
    /\ Alive /\ main = "starting"
    /\ Step \in WithContext => ~Signalled
    /\ at' = at + 1
    /\ opened' = opened \cup (CASE Step \in {"mailer", "pool", "redis", "compensator"} -> {Step}
                                [] Step = "connect" -> {"broker"}
                                [] OTHER -> {})
    /\ closers' = closers \o (CASE Step \in {"mailer", "pool", "redis", "compensator"} -> <<Step>>
                                [] Step = "stream" -> <<"broker">>
                                [] Step = Durables[service][Len(Durables[service])] -> <<"consumers">>
                                [] OTHER -> <<>>)
    /\ consuming' = consuming \cup ({Step} \cap Handlers[service])
    /\ main' = IF Step = "loops" THEN "serving" ELSE main
    (* scheduler and cleanup run once before their first tick              *)
    /\ task' = IF Step = "loops" /\ service \in {"scanner", "subscription"}
               THEN [task EXCEPT !["ticker"] = "working"] ELSE task
    /\ IF Step = "mailer" THEN NewMailer ELSE UNCHANGED mailVars
    /\ UNCHANGED <<service, timedOut>>

(* What a failing step itself closes: NewPool and NewRedisCache their      *)
(* client, ConnectBroker its connection.  Variant: ConnectBroker does not. *)
ClosesNothing == opened
OpenedAfterFailure == IF Step = "stream" THEN opened \ {"broker"} ELSE opened

(* StartConsumers stops the ones it has started.                           *)
ConsumingAfterFailure == IF Step \in Handlers[service] THEN {} ELSE consuming

StartFails ==
    /\ Alive /\ main = "starting"
    /\ Step # "loops"
    /\ opened' = OpenedAfterFailure
    /\ consuming' = ConsumingAfterFailure
    /\ main' = "unwinding"
    /\ UNCHANGED <<service, at, closers, task, timedOut>> /\ UNCHANGED mailVars

----------------------------------------------------------------------------
(* Goroutines.  A goroutine in "tx" or "recording" holds a connection of   *)
(* the pool.                                                               *)

Holding == {g \in Goroutines : task[g] \in {"tx", "recording"}}

Become(g, st) ==
    /\ task' = [task EXCEPT ![g] = st]
    /\ UNCHANGED <<service, main, at, opened, closers, consuming, timedOut>>

(* pool.Begin with the goroutine's context.                                *)
CanBegin(g) == "pool" \in opened /\ g \notin ctxDone

(* A message, a tick, a request.  A tick that is taken although the        *)
(* context has ended does nothing.                                         *)
Begin(g) ==
    /\ Alive /\ task[g] = "idle"
    /\ \/ g \in consuming
       \/ g \in Loops[service] \ {"relay"} /\ Started /\ g \notin ctxDone
       \/ g = "request" /\ service = "subscription" /\ main \in {"serving", "awaiting"}
    /\ Become(g, "working")
    /\ UNCHANGED mailVars

(* The relay does nothing but transactions; the goroutines that send mail  *)
(* have theirs in Record.                                                  *)
BeginTx(g) ==
    /\ Alive
    /\ \/ task[g] = "working" /\ g \notin Senders[service]
       \/ task[g] = "idle" /\ g = "relay" /\ g \in Loops[service] /\ Started
    /\ CanBegin(g)
    /\ Become(g, "tx")
    /\ UNCHANGED mailVars

(* The transaction ends, committed or not; the goroutine may go on.        *)
EndTx(g) ==
    /\ Alive /\ task[g] = "tx"
    /\ \E st \in {"idle"} \cup (IF g = "relay" THEN {} ELSE {"working"}) : Become(g, st)
    /\ UNCHANGED mailVars

(* Nothing (more) to do, or an error.                                      *)
Return(g) ==
    /\ Alive /\ task[g] = "working"
    /\ Become(g, "idle")
    /\ UNCHANGED mailVars

(* The loop sees that its context has ended.                               *)
LoopEnds(g) ==
    /\ Alive /\ g \in Loops[service] /\ Started
    /\ task[g] = "idle" /\ g \in ctxDone
    /\ Become(g, "ended")
    /\ UNCHANGED mailVars

(* Mail.  The release handler has read its recipients from the database;   *)
(* the confirmation handler and the retrier, in the middle of its rows,    *)
(* call the mailer without.                                                *)
CallMailer(c, to) ==
    /\ Alive /\ c \in Senders[service] /\ task[c] = "working"
    /\ c = "release" => CanBegin(c)
    /\ SendMail(c, to)
    /\ Become(c, "mailing")

MailCall(c) ==
    /\ Alive
    /\ Enqueue(c) \/ SendOnClosed(c) \/ GiveUp(c) \/ Receive(c)
    /\ UNCHANGED procVars

(* Variant: the outcome is recorded with context.WithoutCancel.            *)
CanRecordAnyway(c) == "pool" \in opened
CanRecord(c) == CanBegin(c)

(* The outcome is recorded in a transaction of its own, ...                *)
Record(c) ==
    /\ Alive /\ task[c] = "mailing" /\ call[c].st = "returned"
    /\ CanRecord(c)
    /\ Become(c, "recording")
    /\ UNCHANGED mailVars

(* ... which ends, or could not begin.                                     *)
Recorded(c) ==
    /\ Alive
    /\ \/ task[c] = "recording"
       \/ task[c] = "mailing" /\ call[c].st = "returned"
    /\ \E st \in (IF c = "ticker" THEN {"idle", "working"} ELSE {"idle"}) : Become(c, st)
    /\ Forget(c)

Dispatch == Alive /\ Deliver /\ UNCHANGED procVars

----------------------------------------------------------------------------
(* Serving and shutdown.                                                   *)

(* SIGINT or SIGTERM; every context derives from the signal's, but those   *)
(* of requests.                                                            *)
Signal ==
    /\ Alive /\ ~Signalled
    /\ Cancel(Goroutines \ {"request"})
    /\ UNCHANGED procVars

(* Variant: gracefulShutdown forgets to cancel; a signal would have.       *)
CancelsNothing == {}
CancelledByShutdown == Awaited[service]

(* serve returns, on a server error or when it sees the signal (they only  *)
(* differ in the contexts that have ended): gracefulShutdown cancels the   *)
(* loops it waits for.                                                     *)
ServeEnds ==
    /\ Alive /\ main = "serving"
    /\ main' = "awaiting"
    /\ Cancel(CancelledByShutdown)
    /\ UNCHANGED <<service, at, opened, closers, consuming, task, timedOut>>

(* Variant: gracefulShutdown does not wait.                                *)
LoopsCancelled == Awaited[service] \subseteq ctxDone
LoopsEnded == \A g \in Awaited[service] : task[g] = "ended"

(* Then Server.Shutdown: no new requests; it waits for those under way,    *)
(* but not longer than its timeout, so it may leave some.                  *)
LoopsStopped ==
    /\ Alive /\ main = "awaiting"
    /\ LoopsEnded
    /\ main' = "unwinding"
    /\ UNCHANGED <<service, at, opened, closers, consuming, task, timedOut>> /\ UNCHANGED mailVars

(* Deferred closers run, the last one first.  Stopping consumers, the      *)
(* broker's Drain and most others return at once; the pool and the mailer  *)
(* refuse further use and then wait.                                       *)
Close ==
    /\ Alive /\ main = "unwinding" /\ closers # <<>>
    /\ LET r == closers[Len(closers)]
       IN  /\ opened' = opened \ {r}
           /\ consuming' = IF r = "consumers" THEN {} ELSE consuming
           /\ closers' = SubSeq(closers, 1, Len(closers) - 1)
           /\ main' = IF r \in {"pool", "mailer"} THEN r ELSE main
           /\ IF r = "mailer" THEN CloseJobs ELSE UNCHANGED mailVars
    /\ UNCHANGED <<service, at, task, timedOut>>

PoolClosed ==
    /\ Alive /\ main = "pool"
    /\ Holding = {}
    /\ main' = "unwinding"
    /\ UNCHANGED <<service, at, opened, closers, consuming, task, timedOut>> /\ UNCHANGED mailVars

MailerDrained == ~dispatching

MailerStopped ==
    /\ Alive /\ main = "mailer"
    /\ \/ MailerDrained /\ UNCHANGED timedOut
       \/ timedOut' = TRUE
    /\ main' = "unwinding"
    /\ UNCHANGED <<service, at, opened, closers, consuming, task>> /\ UNCHANGED mailVars

(* Run returns and the process ends, its goroutines with it.               *)
Exit ==
    /\ Alive /\ main = "unwinding" /\ closers = <<>>
    /\ main' = "exited"
    /\ task' = [g \in Goroutines |-> "idle"]
    /\ call' = [c \in Callers |-> NoCall] /\ results' = {} /\ left' = {} /\ ctxDone' = {}
    /\ UNCHANGED <<service, at, opened, closers, consuming, timedOut>>
    /\ UNCHANGED <<jobs, closed, worker, dispatching, panicked, calls>>

(* The process is gone.                                                    *)
Gone == ~Alive /\ UNCHANGED vars

----------------------------------------------------------------------------
Run == StartStep \/ LoopsStopped \/ Close \/ PoolClosed \/ MailerStopped \/ Exit

Work(g) == Begin(g) \/ BeginTx(g) \/ EndTx(g) \/ Return(g) \/ LoopEnds(g)

MailWork(c) == MailCall(c) \/ Record(c) \/ Recorded(c) \/ \E to \in Batches[c] : CallMailer(c, to)

ProcNext ==
    \/ Run \/ StartFails \/ Signal \/ ServeEnds \/ Dispatch \/ Gone
    \/ \E g \in Goroutines : Work(g)
    \/ \E c \in Callers : MailWork(c)

ProcSpec == ProcInit /\ [][ProcNext]_vars

(* Goroutines run: a transaction ends, a wait that can end does, a loop's  *)
(* select sees its ended context, serve a signal.  Signals, ticks,         *)
(* messages and failures need not come.                                    *)
Progress(g) ==
    \/ EndTx(g) \/ Return(g) \/ LoopEnds(g)
    \/ g \in Callers /\ (MailCall(g) \/ Recorded(g))

ProcFairSpec ==
    /\ ProcSpec
    /\ WF_vars(Run \/ (Signalled /\ (ServeEnds \/ StartFails)))
    /\ WF_vars(Dispatch)
    /\ \A g \in Goroutines : WF_vars(Progress(g))

----------------------------------------------------------------------------
(* Type invariant of the process.                                          *)
ProcTypeOK ==
    /\ service \in Services
    /\ main \in {"starting", "serving", "awaiting", "unwinding",
                 "pool", "mailer", "exited"}
    /\ at \in 1..Len(Plan[service]) + 1
    /\ opened \subseteq Needed[service] /\ Elements(closers) \subseteq opened \cup {"consumers"}
    /\ consuming \subseteq Handlers[service]
    /\ task \in [Goroutines -> {"idle", "working", "tx", "mailing", "recording", "ended"}]
    /\ Len(jobs) <= QueueSize /\ results \subseteq [n : Nat, ok : Seq(BOOLEAN)]
    /\ {closed, dispatching, panicked, timedOut} \subseteq BOOLEAN

(* Whatever start-up step fails, and however the process ends, Run returns *)
(* with nothing left open, no subscription active and, unless the mailer's *)
(* shutdown timed out, every accepted job delivered or answered with its   *)
(* error.                                                                  *)
NothingLeftOpen ==
    main = "exited" => /\ opened = {} /\ consuming = {} /\ closers = <<>>
                       /\ timedOut \/ (jobs = <<>> /\ worker = <<>>)

(* The invariant of the process: well-typed, every deferred closer that of *)
(* an open resource, so that nothing is closed twice, and NothingLeftOpen  *)
(* (bootstrap.go:65-157, the Run functions, mailer.go:245-260).            *)
ProcInv == ProcTypeOK /\ NothingLeftOpen

(* While messages are delivered, or a loop gracefulShutdown waits for is   *)
(* at work, everything they use is open: a retry never meets the mailer's  *)
(* closed channel, a scan never a closed pool (the order of Run's steps    *)
(* and deferred closers, gracefulShutdown in serve.go).                    *)
UsersBeforeResources ==
    (consuming # {} \/ \E g \in Awaited[service] : task[g] \notin {"idle", "ended"}) => Needed[service] \subseteq opened

(* A shutdown is never recorded as a failed delivery: an outcome that was  *)
(* only given up on is not written, so the message is redelivered, and a   *)
(* retry row keeps its attempts (mailer.go:184-186, 236-240; the writes    *)
(* use the same context).                                                  *)
GiveUpNotRecorded == \A c \in Callers : task[c] = "recording" => ~call[c].gaveUp

(* Calls of the mailer return, as long as the process is there: as there   *)
(* are MaxCalls of them, again and again nobody waits in either select     *)
(* (mailer.go:172-187, 219-240), a failed dial or a full queue included.   *)
CallReturns ==
    []<>(Alive => \A c \in Callers : call[c].st \in {"none", "returned"})

(* A process that was told to stop, or whose start-up or server failed,    *)
(* does: nothing it waits for waits for it.                                *)
StopsWhenTold == (Signalled \/ main \notin {"starting", "serving"}) ~> ~Alive

(* In-flight mail is drained on shutdown (the promise of                   *)
(* docs/adr/006-mailer-dispatch-queue.md:10-11, close(m.jobs) in           *)
(* mailer.go:246): unless the shutdown timed out, the process does not end *)
(* with accepted mail undelivered that somebody still waits for.           *)
DrainsInFlightMail ==
    ~Alive /\ ~timedOut =>
        \A c \in Callers : call[c].st = "awaiting" /\ c \notin ctxDone => call[c].n \in {r.n : r \in results}
=============================================================================
