------------------------------- MODULE Mailer -------------------------------
(***************************************************************************)
(* The notifier's mailer: a bounded channel of jobs, one goroutine that    *)
(* delivers them one after the other, and the callers that wait for their  *)
(* job's result.  DeliverConfirmation is the case of one address of        *)
(* SendReleaseNotifications.  A caller whose context ends stops waiting;   *)
(* its job stays where it is.  SendConfirmation, which waits for nothing,  *)
(* has no caller.                                                          *)
(*                                                                         *)
(* The module says nothing of when contexts end and when the channel is    *)
(* closed; ServiceProcess does.                                            *)
(***************************************************************************)
EXTENDS Naturals, Sequences, FiniteSets

CONSTANTS
    Callers,      \* goroutines that send mail, one call at a time each
    Batches,      \* per caller: the address lists it may send to
    Invalid,      \* addresses for which no message can be built
    QueueSize,    \* jobBufferSize
    MaxCalls      \* bound: calls to the mailer

Elements(s) == {s[i] : i \in DOMAIN s}
Addresses == UNION {UNION {Elements(to) : to \in Batches[c]} : c \in Callers}

ASSUME QueueHasRoom == QueueSize \in Nat \ {0}
ASSUME BatchesAreLists == Batches \in [Callers -> SUBSET Seq(Addresses)]

VARIABLES
    jobs,        \* the channel
    closed,      \* whether it has been closed
    worker,      \* <<the job being delivered>>, or <<>>
    dispatching, \* the goroutine has not returned
    results,     \* answers in their result channels
    call,        \* per caller: its call
    ctxDone,     \* callers whose context has ended
    panicked,    \* somebody sent on the closed channel
    left,        \* history: e-mails that left for the calls under way
    calls        \* calls so far; numbers them

mailVars == <<jobs, closed, worker, dispatching, results, call, ctxDone, panicked, left, calls>>

NoCall == [st |-> "none"]

MailInit ==
    /\ jobs = <<>> /\ closed = FALSE
    /\ worker = <<>> /\ dispatching = FALSE
    /\ results = {}
    /\ call = [c \in Callers |-> NoCall]
    /\ ctxDone = {} /\ panicked = FALSE
    /\ left = {} /\ calls = 0

----------------------------------------------------------------------------
(* The callers.                                                            *)

(* newMailer starts the goroutine.                                         *)
NewMailer ==
    /\ dispatching' = TRUE
    /\ UNCHANGED <<jobs, closed, worker, results, call, ctxDone, panicked, left, calls>>

Returned(n, to, failed, gaveUp) ==
    [st |-> "returned", n |-> n, to |-> to, failed |-> failed, gaveUp |-> gaveUp]

(* The addresses a message can be built for, in order: the p-th is the one *)
(* up to which there are p.                                                *)
Buildable(to) ==
    LET at == {i \in DOMAIN to : to[i] \notin Invalid} IN
    [p \in 1..Cardinality(at) |-> to[CHOOSE i \in at : Cardinality({h \in at : h <= i}) = p]]

(* The address is appended when its message has been built.  Variant: in   *)
(* any case.                                                               *)
RecipientsAll(to) == to
Recipients(to) == Buildable(to)

(* Build the messages; without any the call is over.                       *)
SendMail(c, to) ==
    /\ calls < MaxCalls
    /\ call[c] = NoCall
    /\ calls' = calls + 1
    /\ call' = [call EXCEPT ![c] =
          IF Elements(to) \subseteq Invalid
          THEN Returned(calls + 1, to, Elements(to), FALSE)
          ELSE [st |-> "queueing", n |-> calls + 1, to |-> to, recipients |-> Recipients(to)]]
    /\ UNCHANGED <<jobs, closed, worker, dispatching, results, ctxDone, panicked, left>>

Messages(to) == Buildable(to)

(* First select: the channel has room ...                                  *)
Enqueue(c) ==
    /\ call[c].st = "queueing"
    /\ ~closed /\ Len(jobs) < QueueSize
    /\ jobs' = Append(jobs, [n |-> call[c].n, caller |-> c, messages |-> Messages(call[c].to)])
    /\ call' = [call EXCEPT ![c].st = "awaiting"]
    /\ UNCHANGED <<closed, worker, dispatching, results, ctxDone, panicked, left, calls>>

(* ... or is closed: a send on it is always ready, and panics, which ends  *)
(* the process.                                                            *)
SendOnClosed(c) ==
    /\ call[c].st = "queueing"
    /\ closed
    /\ panicked' = TRUE
    /\ UNCHANGED <<jobs, closed, worker, dispatching, results, call, ctxDone, left, calls>>

(* Either select: the context has ended.  Everybody counts as failed.      *)
GiveUp(c) ==
    /\ call[c].st \in {"queueing", "awaiting"}
    /\ c \in ctxDone
    /\ call' = [call EXCEPT ![c] = Returned(@.n, @.to, Elements(@.to), TRUE)]
    /\ results' = {r \in results : r.n # call[c].n}
    /\ UNCHANGED <<jobs, closed, worker, dispatching, ctxDone, panicked, left, calls>>

(* Second select: the results, one per message, are matched with the       *)
(* recipients by position.                                                 *)
Receive(c) ==
    /\ call[c].st = "awaiting"
    /\ \E r \in results :
          /\ r.n = call[c].n
          /\ results' = results \ {r}
          /\ LET refused == {call[c].recipients[i] : i \in {j \in DOMAIN r.ok : ~r.ok[j]}}
             IN  call' = [call EXCEPT ![c] =
                    Returned(@.n, @.to, refused \cup (Elements(@.to) \cap Invalid), FALSE)]
    /\ UNCHANGED <<jobs, closed, worker, dispatching, ctxDone, panicked, left, calls>>

(* The caller has used what the call returned.                             *)
Forget(c) ==
    /\ call' = [call EXCEPT ![c] = NoCall]
    /\ left' = {m \in left : m[1] # call[c].n}
    /\ UNCHANGED <<jobs, closed, worker, dispatching, results, ctxDone, panicked, calls>>

----------------------------------------------------------------------------
(* dispatch and deliver.                                                   *)

Take ==
    /\ dispatching /\ worker = <<>> /\ jobs # <<>>
    /\ worker' = <<[job |-> Head(jobs), dialled |-> FALSE, ok |-> <<>>]>>
    /\ jobs' = Tail(jobs)
    /\ UNCHANGED <<closed, dispatching, results, call, ctxDone, panicked, left, calls>>

(* The loop ends when the channel is closed and empty.                     *)
DispatchEnds ==
    /\ dispatching /\ worker = <<>> /\ jobs = <<>> /\ closed
    /\ dispatching' = FALSE
    /\ UNCHANGED <<jobs, closed, worker, results, call, ctxDone, panicked, left, calls>>

Job == worker[1].job
Current == call[Job.caller].st # "none" /\ call[Job.caller].n = Job.n

(* sendBatch dials with the caller's context: it cannot succeed once that  *)
(* has ended.                                                              *)
Dial ==
    /\ worker # <<>> /\ ~worker[1].dialled /\ worker[1].ok = <<>>
    /\ Job.caller \notin ctxDone
    /\ worker' = [worker EXCEPT ![1].dialled = TRUE]
    /\ UNCHANGED <<jobs, closed, dispatching, results, call, ctxDone, panicked, left, calls>>

(* A failed dial (an error, or the send timeout) is the result of every    *)
(* message.                                                                *)
DialFails ==
    /\ worker # <<>> /\ ~worker[1].dialled /\ worker[1].ok = <<>>
    /\ worker' = [worker EXCEPT ![1].ok = [i \in DOMAIN Job.messages |-> FALSE]]
    /\ UNCHANGED <<jobs, closed, dispatching, results, call, ctxDone, panicked, left, calls>>

(* Send knows no context.  An e-mail reported as failed may have left all  *)
(* the same (see Confirmations, ReleaseFlow); left has the sure ones.      *)
Send(ok) ==
    /\ worker # <<>> /\ worker[1].dialled
    /\ Len(worker[1].ok) < Len(Job.messages)
    /\ worker' = [worker EXCEPT ![1].ok = Append(@, ok)]
    /\ left' = IF ok /\ Current THEN left \cup {<<Job.n, Job.messages[Len(worker[1].ok) + 1]>>} ELSE left
    /\ UNCHANGED <<jobs, closed, dispatching, results, call, ctxDone, panicked, calls>>

(* Variant: after a failed dial deliver returns without an answer.         *)
AnswerIfDialled == worker[1].dialled

(* The result channel has room for its one result, so deliver never waits. *)
Answers == TRUE

(* A result nobody waits for any more is garbage.                          *)
Delivered ==
    /\ worker # <<>> /\ Len(worker[1].ok) = Len(Job.messages)
    /\ results' = IF Answers /\ Current /\ call[Job.caller].st = "awaiting"
                  THEN results \cup {[n |-> Job.n, ok |-> worker[1].ok]} ELSE results
    /\ worker' = <<>>
    /\ UNCHANGED <<jobs, closed, dispatching, call, ctxDone, panicked, left, calls>>

Deliver == Take \/ DispatchEnds \/ Dial \/ DialFails \/ Delivered \/ \E ok \in BOOLEAN : Send(ok)

(* Shutdown closes the channel and then waits for the goroutine.           *)
CloseJobs ==
    /\ closed' = TRUE
    /\ UNCHANGED <<jobs, worker, dispatching, results, call, ctxDone, panicked, left, calls>>

(* A context ends.                                                         *)
Cancel(cs) ==
    /\ ctxDone' = ctxDone \cup cs
    /\ UNCHANGED <<jobs, closed, worker, dispatching, results, call, panicked, left, calls>>

----------------------------------------------------------------------------
(* An answer is true: an address that a call does not report as failed has *)
(* had its e-mail, although messages that could not be built are missing   *)
(* from the job and results are matched by position (mailer.go:199-236).   *)
AnswerTrue ==
    \A c \in Callers : call[c].st = "returned" =>
        \A a \in Elements(call[c].to) \ call[c].failed : <<call[c].n, a>> \in left
=============================================================================
