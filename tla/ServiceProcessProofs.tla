------------------------ MODULE ServiceProcessProofs ------------------------
(***************************************************************************)
(* Proofs about the process of a service and the notifier's mailer, for    *)
(* every set of senders, every batch, queue size and number of calls.      *)
(*                                                                         *)
(* The mailer: every job and every result belongs to the call that has its *)
(* number, and reports as sent only what left (MailInd).  The callers: a   *)
(* call under way is that of a goroutine that waits for it (TaskInd).  The *)
(* process: the deferred closers are a prefix of one stack per service,    *)
(* as high as start-up has come (StackInd); a loop works only between      *)
(* start-up and the end of gracefulShutdown (LoopInd); jobs are left over  *)
(* only while the mailer's goroutine is there (DrainInd).                  *)
(***************************************************************************)
EXTENDS ServiceProcess, TLAPS

----------------------------------------------------------------------------
(* The mailer.                                                             *)

(* Whom messages are built for.                                            *)
Built == UNION {Elements(Buildable(to)) : to \in Seq(Addresses)}

Waiting == [st : {"queueing", "awaiting"}, n : Nat, to : Seq(Addresses), recipients : Seq(Built)]
Over == [st : {"returned"}, n : Nat, to : Seq(Addresses), failed : SUBSET (Addresses \cup Built), gaveUp : BOOLEAN]
JobRecord == [n : Nat, caller : Callers, messages : Seq(Built)]
InWork == [job : JobRecord, dialled : BOOLEAN, ok : Seq(BOOLEAN)]
Result == [n : Nat, ok : Seq(BOOLEAN)]

MailTypeOK ==
    /\ calls \in Nat
    /\ call \in [Callers -> {NoCall} \cup Waiting \cup Over]
    /\ jobs \in Seq(JobRecord) /\ Len(jobs) <= QueueSize
    /\ worker \in Seq(InWork) /\ Len(worker) <= 1
    /\ results \subseteq Result
    /\ closed \in BOOLEAN /\ dispatching \in BOOLEAN /\ panicked \in BOOLEAN

Busy(c) == call[c].st # "none"

(* Calls under way have different numbers.                                 *)
Numbered ==
    /\ \A c \in Callers : Busy(c) => call[c].n <= calls
    /\ \A c, d \in Callers : Busy(c) /\ Busy(d) /\ call[c].n = call[d].n => c = d

(* If a job's call is still under way, it is its caller's.                 *)
JobFits(j) ==
    /\ j.n <= calls
    /\ \A c \in Callers : Busy(c) /\ call[c].n = j.n =>
          /\ c = j.caller /\ call[c].st # "queueing"
          /\ j.messages = Messages(call[c].to)

JobsFit == \A i \in DOMAIN jobs : JobFits(jobs[i])

(* What the call with a number is told as sent has left.                   *)
SentLeft(n, ok) ==
    \A c \in Callers : Busy(c) /\ call[c].n = n =>
        /\ Len(ok) <= Len(Messages(call[c].to))
        /\ \A i \in 1..Len(ok) : ok[i] => <<n, Messages(call[c].to)[i]>> \in left

WorkTrue ==
    worker # <<>> => JobFits(Job) /\ Len(worker[1].ok) <= Len(Job.messages) /\ SentLeft(Job.n, worker[1].ok)

(* A result has an entry for every message of its call.                    *)
ResultFits(r) ==
    /\ r.n <= calls
    /\ SentLeft(r.n, r.ok)
    /\ \A c \in Callers : Busy(c) /\ call[c].n = r.n => Len(r.ok) = Len(Messages(call[c].to))

ResultsTrue == \A r \in results : ResultFits(r)

RecipientsFit ==
    \A c \in Callers : call[c].st \in {"queueing", "awaiting"} =>
        call[c].recipients = Recipients(call[c].to)

MailInd == Numbered /\ JobsFit /\ WorkTrue /\ ResultsTrue /\ RecipientsFit /\ AnswerTrue

(* What Buildable does; proved at the end of the module.                   *)
BuildLaw ==
    \A to \in Seq(Addresses) :
        /\ Buildable(to) \in Seq(Built)
        /\ Elements(to) \ Invalid \subseteq Elements(Buildable(to))

----------------------------------------------------------------------------
(* The shape of a call by its state.                                       *)
LEMMA CallShape ==
    ASSUME MailTypeOK, NEW c \in Callers
    PROVE  /\ ~Busy(c) <=> call[c] = NoCall
           /\ Busy(c) => call[c].n \in Nat /\ call[c].to \in Seq(Addresses)
           /\ call[c].st \in {"queueing", "awaiting"} <=> call[c] \in Waiting
           /\ call[c].st = "returned" <=> call[c] \in Over
           /\ call[c].st \in {"none", "queueing", "awaiting", "returned"}
<1>1. call[c] \in {NoCall} \cup Waiting \cup Over
  BY DEF MailTypeOK
<1>2. NoCall.st = "none"
  BY DEF NoCall
<1>3. \A w \in Waiting : w.st \in {"queueing", "awaiting"} /\ w.n \in Nat /\ w.to \in Seq(Addresses)
  BY DEF Waiting
<1>4. \A w \in Over : w.st = "returned" /\ w.n \in Nat /\ w.to \in Seq(Addresses)
  BY DEF Over
<1>5. QED
  BY <1>1, <1>2, <1>3, <1>4 DEF Busy

(* What a step may do to the calls for jobs and results to stay true: end  *)
(* them, start new ones, add to what left.                                 *)
Keeps ==
    /\ calls' \in Nat /\ calls <= calls'
    /\ \A c \in Callers : Busy(c)' =>
          \/ call'[c].n > calls
          \/ /\ Busy(c) /\ call'[c].n = call[c].n /\ call'[c].to = call[c].to
             /\ call[c].st # "queueing" => call'[c].st # "queueing"
             /\ \A m \in left : m[1] = call[c].n => m \in left'

(* Under such a step a job keeps fitting its call, ...                     *)
LEMMA KeepsJobs ==
    ASSUME MailTypeOK, Keeps, NEW j \in JobRecord, JobFits(j)
    PROVE  JobFits(j)'
<1>1. j.n \in Nat /\ calls \in Nat
  BY DEF JobRecord, MailTypeOK
<1>2. j.n <= calls'
  BY <1>1 DEF Keeps, JobFits
<1>3. ASSUME NEW c \in Callers, Busy(c)', call'[c].n = j.n
      PROVE  /\ c = j.caller /\ call'[c].st # "queueing"
             /\ j.messages = Messages(call'[c].to)
  <2>1. ~(call'[c].n > calls)
    BY <1>1, <1>3 DEF JobFits
  <2>2. /\ Busy(c) /\ call'[c].n = call[c].n /\ call'[c].to = call[c].to
        /\ call[c].st # "queueing" => call'[c].st # "queueing"
    BY <1>3, <2>1, Zenon DEF Keeps
  <2>3. QED
    BY <1>3, <2>2, Zenon DEF JobFits
<1>4. QED
  BY <1>2, <1>3, Zenon DEF JobFits

(* ... and results stay true.                                              *)
LEMMA KeepsAnswers ==
    ASSUME MailTypeOK, Keeps, NEW n \in Nat, NEW ok \in Seq(BOOLEAN), n <= calls, SentLeft(n, ok)
    PROVE  SentLeft(n, ok)'
<1>1. ASSUME NEW c \in Callers, Busy(c)', call'[c].n = n
      PROVE  /\ Len(ok) <= Len(Messages(call'[c].to))
             /\ \A i \in 1..Len(ok) : ok[i] => <<n, Messages(call'[c].to)[i]>> \in left'
  <2>1. ~(call'[c].n > calls)
    BY <1>1 DEF MailTypeOK
  <2>2. /\ Busy(c) /\ call'[c].n = call[c].n /\ call'[c].to = call[c].to
        /\ \A m \in left : m[1] = call[c].n => m \in left'
    BY <1>1, <2>1, Zenon DEF Keeps
  <2>3. /\ Len(ok) <= Len(Messages(call[c].to))
        /\ \A i \in 1..Len(ok) : ok[i] => <<n, Messages(call[c].to)[i]>> \in left
    BY <1>1, <2>2, Zenon DEF SentLeft
  <2>4. \A a : <<n, a>> \in left => <<n, a>> \in left'
    BY <1>1, <2>2
  <2>5. QED
    BY <2>2, <2>3, <2>4, Zenon
<1>2. QED
  BY <1>1, Zenon DEF SentLeft

(* The same for a whole result.                                            *)
LEMMA KeepsResults ==
    ASSUME MailTypeOK, Keeps, NEW r \in Result, ResultFits(r)
    PROVE  ResultFits(r)'
<1>1. r.n \in Nat /\ r.ok \in Seq(BOOLEAN) /\ calls \in Nat /\ r.n <= calls /\ SentLeft(r.n, r.ok)
  BY DEF Result, MailTypeOK, ResultFits
<1>2. SentLeft(r.n, r.ok)'
  BY <1>1, KeepsAnswers
<1>3. r.n <= calls'
  BY <1>1 DEF Keeps
<1>4. ASSUME NEW c \in Callers, Busy(c)', call'[c].n = r.n
      PROVE  Len(r.ok) = Len(Messages(call'[c].to))
  <2>1. ~(call'[c].n > calls)
    BY <1>1, <1>4
  <2>2. Busy(c) /\ call'[c].n = call[c].n /\ call'[c].to = call[c].to
    BY <1>4, <2>1, Zenon DEF Keeps
  <2>3. Len(r.ok) = Len(Messages(call[c].to))
    BY <1>4, <2>2 DEF ResultFits
  <2>4. QED
    BY <2>2, <2>3, Zenon
<1>5. QED
  BY <1>2, <1>3, <1>4, Zenon DEF ResultFits

(* And so is an answer that was given.                                     *)
LEMMA KeepsAnswer ==
    ASSUME MailTypeOK, AnswerTrue, Keeps, NEW c \in Callers, Numbered,
           call'[c] = call[c], call[c].st = "returned"
    PROVE  \A a \in Elements(call'[c].to) \ call'[c].failed : <<call'[c].n, a>> \in left'
<1>1. Busy(c) /\ Busy(c)' /\ call[c].n \in Nat /\ call[c].n <= calls /\ calls \in Nat
  BY CallShape DEF Busy, MailTypeOK, Numbered
<1>2. ~(call'[c].n > calls)
  BY <1>1
<1>3. \A m \in left : m[1] = call[c].n => m \in left'
  BY <1>1, <1>2, Zenon DEF Keeps
<1>4. \A a : <<call[c].n, a>> \in left => <<call[c].n, a>> \in left'
  BY <1>3
<1>5. \A a \in Elements(call[c].to) \ call[c].failed : <<call[c].n, a>> \in left
  BY DEF AnswerTrue
<1>6. QED
  BY <1>4, <1>5, Zenon

(* Jobs, the worker and results that a step does not touch stay true.      *)
LEMMA KeepsMail ==
    ASSUME MailTypeOK, MailInd, Keeps
    PROVE  /\ jobs' = jobs => JobsFit'
           /\ worker' = worker => WorkTrue'
           /\ results' \subseteq results => ResultsTrue'
<1>1. ASSUME jobs' = jobs PROVE JobsFit'
  <2> SUFFICES ASSUME NEW i \in DOMAIN jobs
               PROVE  JobFits(jobs[i])'
    BY <1>1 DEF JobsFit
  <2>1. jobs[i] \in JobRecord
    BY DEF MailTypeOK
  <2>2. PICK j \in JobRecord : j = jobs[i]
    BY <2>1
  <2>3. JobFits(j)'
    BY <2>2, KeepsJobs DEF MailInd, JobsFit
  <2>4. QED
    BY <1>1, <2>2, <2>3
<1>2. ASSUME worker' = worker PROVE WorkTrue'
  <2> SUFFICES ASSUME worker # <<>>
               PROVE  /\ JobFits(worker[1].job)' /\ SentLeft(worker[1].job.n, worker[1].ok)'
                      /\ Len(worker[1].ok) <= Len(worker[1].job.messages)
    BY <1>2 DEF WorkTrue, Job
  <2>1. worker[1] \in InWork
    BY DEF MailTypeOK
  <2>2. PICK w \in InWork : w = worker[1]
    BY <2>1
  <2>3. w.job \in JobRecord /\ w.ok \in Seq(BOOLEAN) /\ w.job.n \in Nat
    BY DEF InWork, JobRecord
  <2>4. JobFits(w.job) /\ SentLeft(w.job.n, w.ok) /\ Len(w.ok) <= Len(w.job.messages)
    BY <2>2 DEF MailInd, WorkTrue, Job
  <2>5. PICK j \in JobRecord : j = w.job
    BY <2>3
  <2>6. JobFits(j)' /\ j.n <= calls
    BY <2>4, <2>5, KeepsJobs DEF JobFits
  <2>7. PICK n \in Nat, ok \in Seq(BOOLEAN) : n = w.job.n /\ ok = w.ok
    BY <2>3
  <2>8. SentLeft(n, ok)'
    BY <2>4, <2>5, <2>6, <2>7, KeepsAnswers
  <2>9. QED
    BY <1>2, <2>2, <2>4, <2>5, <2>6, <2>7, <2>8
<1>3. ASSUME results' \subseteq results PROVE ResultsTrue'
  <2> SUFFICES ASSUME NEW r \in results'
               PROVE  ResultFits(r)'
    BY DEF ResultsTrue
  <2>1. r \in results /\ r \in Result
    BY <1>3 DEF MailTypeOK
  <2>2. QED
    BY <2>1, KeepsResults DEF MailInd, ResultsTrue
<1>4. QED
  BY <1>1, <1>2, <1>3

(* Nor do steps that leave the calls alone touch answers.                  *)
LEMMA SameCalls ==
    ASSUME MailTypeOK, MailInd, call' = call, calls' = calls, left \subseteq left'
    PROVE  Keeps /\ Numbered' /\ RecipientsFit' /\ AnswerTrue'
<1>1. Keeps
  BY DEF Keeps, MailTypeOK, Busy
<1>2. Numbered' /\ RecipientsFit'
  BY DEF MailInd, Numbered, RecipientsFit, Busy
<1>3. AnswerTrue'
  BY DEF MailInd, AnswerTrue
<1>4. QED
  BY <1>1, <1>2, <1>3

(* A sequence of length 1.                                                 *)
LEMMA SingletonSeq ==
    ASSUME NEW S, NEW w \in Seq(S), Len(w) <= 1, w # <<>>
    PROVE  w = <<w[1]>> /\ w[1] \in S
<1>1. Len(w) = 1 /\ w[1] \in S
  <2>1. Len(w) \in Nat
    OBVIOUS
  <2>2. Len(w) # 0
    OBVIOUS
  <2>3. Len(w) = 1
    BY <2>1, <2>2
  <2>4. QED
    BY <2>3
<1>2. DOMAIN w = 1..1 /\ w = [i \in 1..1 |-> w[i]]
  BY <1>1
<1>3. DOMAIN <<w[1]>> = 1..1 /\ <<w[1]>>[1] = w[1] /\ <<w[1]>> = [i \in 1..1 |-> <<w[1]>>[i]]
  OBVIOUS
<1>4. \A i \in 1..1 : i = 1
  OBVIOUS
<1>5. QED
  BY <1>1, <1>2, <1>3, <1>4

(* The job in hand.                                                        *)
LEMMA WorkerShape ==
    ASSUME MailTypeOK, worker # <<>>
    PROVE  /\ worker = <<worker[1]>> /\ worker[1] \in InWork
           /\ Job \in JobRecord /\ Job.n \in Nat /\ Job.messages \in Seq(Built) /\ Job.caller \in Callers
           /\ worker[1].ok \in Seq(BOOLEAN) /\ worker[1].dialled \in BOOLEAN
<1>1. worker \in Seq(InWork) /\ Len(worker) <= 1
  BY DEF MailTypeOK
<1>2. worker = <<worker[1]>> /\ worker[1] \in InWork
  BY <1>1, SingletonSeq, Zenon
<1>3. QED
  BY <1>2 DEF InWork, JobRecord, Job

(* A step that does nothing to jobs, work, results and calls.              *)
LEMMA IdleMail ==
    ASSUME MailTypeOK, MailInd, UNCHANGED <<jobs, worker, results, call, left, calls>>,
           closed' \in BOOLEAN, dispatching' \in BOOLEAN, panicked' \in BOOLEAN
    PROVE  MailTypeOK' /\ MailInd'
<1>1. MailTypeOK'
  BY DEF MailTypeOK
<1>2. Keeps /\ Numbered' /\ RecipientsFit' /\ AnswerTrue'
  BY SameCalls
<1>3. JobsFit' /\ WorkTrue' /\ ResultsTrue'
  BY <1>2, KeepsMail
<1>4. QED
  BY <1>1, <1>2, <1>3 DEF MailInd

(* A new call gets a number of its own.                                    *)
LEMMA SendMailInd ==
    ASSUME MailTypeOK, MailInd, BuildLaw, NEW c \in Callers, NEW to \in Batches[c], SendMail(c, to)
    PROVE  MailTypeOK' /\ MailInd'
<1>1. to \in Seq(Addresses) /\ Elements(to) \subseteq Addresses /\ Recipients(to) \in Seq(Built)
  <2>1. Batches[c] \subseteq Seq(Addresses)
    BY BatchesAreLists
  <2>2. Elements(to) \subseteq Addresses
    BY <2>1 DEF Elements
  <2>3. QED
    BY <2>1, <2>2, Zenon DEF BuildLaw, Recipients
<1>2. PICK v : /\ call' = [call EXCEPT ![c] = v]
               /\ \/ v = Returned(calls + 1, to, Elements(to), FALSE)
                  \/ v = [st |-> "queueing", n |-> calls + 1, to |-> to, recipients |-> Recipients(to)]
  BY Zenon DEF SendMail
<1>3. /\ UNCHANGED <<jobs, closed, worker, dispatching, results, panicked, left>>
      /\ calls' = calls + 1 /\ calls \in Nat /\ ~Busy(c)
  BY DEF SendMail, NoCall, Busy, MailTypeOK
<1>4. /\ v \in Waiting \cup Over /\ v.n = calls + 1
      /\ v.st \in {"queueing", "returned"} /\ v.to = to
      /\ v.st = "queueing" => v.recipients = Recipients(v.to)
      /\ v.st = "returned" => v.failed = Elements(v.to)
  <2>1. CASE v = Returned(calls + 1, to, Elements(to), FALSE)
    BY <1>1, <1>3, <2>1 DEF Returned, Over
  <2>2. CASE v = [st |-> "queueing", n |-> calls + 1, to |-> to, recipients |-> Recipients(to)]
    BY <1>1, <1>3, <2>2 DEF Waiting
  <2>3. QED
    BY <1>2, <2>1, <2>2, Zenon
<1>5. /\ call'[c] = v /\ \A d \in Callers : d # c => call'[d] = call[d]
      /\ call' \in [Callers -> {NoCall} \cup Waiting \cup Over]
  BY <1>2, <1>4 DEF MailTypeOK
<1>6. MailTypeOK'
  BY <1>3, <1>5 DEF MailTypeOK
<1>7. Keeps
  BY <1>3, <1>4, <1>5 DEF Keeps, Busy
<1>8. Numbered'
  <2>1. \A d \in Callers : d # c /\ Busy(d)' => call'[d].n \in Nat /\ call'[d].n <= calls
    BY <1>5, CallShape DEF MailInd, Numbered, Busy
  <2>2. \A d, e \in Callers : d # c /\ e # c /\ Busy(d)' /\ Busy(e)' /\ call'[d].n = call'[e].n => d = e
    BY <1>5 DEF MailInd, Numbered, Busy
  <2>3. QED
    BY <1>3, <1>4, <1>5, <2>1, <2>2 DEF Numbered
<1>9. JobsFit' /\ WorkTrue' /\ ResultsTrue'
  BY <1>3, <1>7, KeepsMail
<1>10. RecipientsFit'
  BY <1>4, <1>5 DEF MailInd, RecipientsFit
<1>11. AnswerTrue'
  <2>1. ASSUME NEW d \in Callers, d # c, call'[d].st = "returned"
        PROVE  \A a \in Elements(call'[d].to) \ call'[d].failed : <<call'[d].n, a>> \in left'
    BY <1>5, <1>7, <2>1, KeepsAnswer DEF MailInd
  <2>2. QED
    BY <1>4, <1>5, <2>1 DEF AnswerTrue
<1>12. QED
  BY <1>6, <1>8, <1>9, <1>10, <1>11 DEF MailInd

(* A call that ends or goes on: nothing is added to the calls, and only    *)
(* c's changes, which keeps its number and addresses.                      *)
LEMMA OneCall ==
    ASSUME MailTypeOK, MailInd, NEW c \in Callers, Busy(c), NEW v \in {NoCall} \cup Waiting \cup Over,
           call' = [call EXCEPT ![c] = v], calls' = calls,
           v # NoCall => /\ v.n = call[c].n /\ v.to = call[c].to
                         /\ call[c].st # "queueing" => v.st # "queueing",
           \A m \in left : m[1] # call[c].n \/ v # NoCall => m \in left'
    PROVE  /\ Keeps /\ Numbered'
           /\ call'[c] = v /\ \A d \in Callers : d # c => call'[d] = call[d]
           /\ call' \in [Callers -> {NoCall} \cup Waiting \cup Over]
           /\ (v \in Waiting => v.recipients = Recipients(v.to)) => RecipientsFit'
           /\ (v \in Over => \A a \in Elements(v.to) \ v.failed : <<v.n, a>> \in left') => AnswerTrue'
<1>1. /\ call'[c] = v /\ \A d \in Callers : d # c => call'[d] = call[d]
      /\ call' \in [Callers -> {NoCall} \cup Waiting \cup Over]
  BY DEF MailTypeOK
<1>2. /\ NoCall.st = "none" /\ \A w \in Waiting : w.st \in {"queueing", "awaiting"}
      /\ \A w \in Over : w.st = "returned"
  BY DEF NoCall, Waiting, Over
<1>3. \A d \in Callers : Busy(d)' => Busy(d) /\ call'[d].n = call[d].n /\ call'[d].to = call[d].to
  BY <1>1, <1>2 DEF Busy
<1>4. Keeps
  <2> SUFFICES ASSUME NEW d \in Callers, Busy(d)'
               PROVE  /\ Busy(d) /\ call'[d].n = call[d].n /\ call'[d].to = call[d].to
                      /\ call[d].st # "queueing" => call'[d].st # "queueing"
                      /\ \A m \in left : m[1] = call[d].n => m \in left'
    BY DEF Keeps, MailTypeOK
  <2>1. call[d].st # "queueing" => call'[d].st # "queueing"
    BY <1>1, <1>2 DEF Busy
  <2>2. \A m \in left : m[1] = call[d].n => m \in left'
    <3>1. CASE d = c
      BY <1>1, <1>2, <3>1 DEF Busy
    <3>2. CASE d # c
      <4>1. call[d].n # call[c].n
        BY <1>3, <3>2 DEF MailInd, Numbered
      <4>2. QED
        BY <4>1
    <3>3. QED
      BY <3>1, <3>2
  <2>3. QED
    BY <1>3, <2>1, <2>2
<1>5. Numbered'
  BY <1>3 DEF MailInd, Numbered
<1>6. ASSUME v \in Waiting => v.recipients = Recipients(v.to) PROVE RecipientsFit'
  <2> SUFFICES ASSUME NEW d \in Callers, call'[d].st \in {"queueing", "awaiting"}
               PROVE  call'[d].recipients = Recipients(call'[d].to)
    BY DEF RecipientsFit
  <2>1. CASE d = c
    BY <1>1, <1>2, <1>6, <2>1
  <2>2. CASE d # c
    BY <1>1, <2>2 DEF MailInd, RecipientsFit
  <2>3. QED
    BY <2>1, <2>2
<1>7. ASSUME v \in Over => \A a \in Elements(v.to) \ v.failed : <<v.n, a>> \in left' PROVE AnswerTrue'
  <2> SUFFICES ASSUME NEW d \in Callers, call'[d].st = "returned"
               PROVE  \A a \in Elements(call'[d].to) \ call'[d].failed : <<call'[d].n, a>> \in left'
    BY DEF AnswerTrue
  <2>1. CASE d = c
    BY <1>1, <1>2, <1>7, <2>1
  <2>2. CASE d # c
    BY <1>1, <1>4, <2>2, KeepsAnswer DEF MailInd
  <2>3. QED
    BY <2>1, <2>2
<1>8. QED
  BY <1>1, <1>4, <1>5, <1>6, <1>7

(* First select: the job is that of the call.                              *)
LEMMA EnqueueInd ==
    ASSUME MailTypeOK, MailInd, BuildLaw, NEW c \in Callers, Enqueue(c)
    PROVE  MailTypeOK' /\ MailInd'
<1>1. /\ call[c].st = "queueing" /\ call[c] \in Waiting /\ Busy(c)
      /\ call[c].n \in Nat /\ call[c].to \in Seq(Addresses)
  BY CallShape DEF Enqueue, Busy
<1>2. PICK v : v = [call[c] EXCEPT !.st = "awaiting"]
  BY Zenon
<1>3. /\ v \in Waiting /\ v.st = "awaiting" /\ v.n = call[c].n /\ v.to = call[c].to
      /\ v.recipients = call[c].recipients /\ v # NoCall /\ v \notin Over
  BY <1>1, <1>2 DEF Waiting, NoCall, Over
<1>4. PICK j : j = [n |-> call[c].n, caller |-> c, messages |-> Messages(call[c].to)]
  BY Zenon
<1>5. /\ UNCHANGED <<closed, worker, dispatching, results, panicked, left, calls>>
      /\ jobs' = Append(jobs, j) /\ call' = [call EXCEPT ![c] = v] /\ Len(jobs) < QueueSize
  BY <1>2, <1>4 DEF Enqueue
<1>6. v.recipients = Recipients(v.to)
  BY <1>1, <1>3 DEF MailInd, RecipientsFit
<1>7. /\ Keeps /\ Numbered' /\ RecipientsFit' /\ AnswerTrue'
      /\ call'[c] = v /\ call' \in [Callers -> {NoCall} \cup Waiting \cup Over]
  BY <1>1, <1>3, <1>5, <1>6, OneCall, Zenon
<1>8. j \in JobRecord
  <2>1. Messages(call[c].to) \in Seq(Built)
    BY <1>1, Zenon DEF BuildLaw, Messages
  <2>2. QED
    BY <1>1, <1>4, <2>1 DEF JobRecord
<1>9. MailTypeOK'
  <2>1. jobs' \in Seq(JobRecord) /\ Len(jobs') <= QueueSize
    BY <1>5, <1>8, QueueHasRoom DEF MailTypeOK
  <2>2. QED
    BY <1>5, <1>7, <2>1 DEF MailTypeOK
<1>10. JobsFit'
  <2>1. JobFits(j)'
    <3>1. j.n <= calls'
      BY <1>1, <1>4, <1>5 DEF MailInd, Numbered
    <3>2. ASSUME NEW d \in Callers, Busy(d)', call'[d].n = j.n
          PROVE  d = c
      BY <1>3, <1>4, <1>7, <3>2 DEF Numbered, Busy
    <3>3. c = j.caller /\ call'[c].st # "queueing" /\ j.messages = Messages(call'[c].to)
      BY <1>3, <1>4, <1>7
    <3>4. QED
      BY <3>1, <3>2, <3>3 DEF JobFits
  <2>2. ASSUME NEW i \in DOMAIN jobs PROVE JobFits(jobs[i])' /\ jobs'[i] = jobs[i]
    <3>1. jobs[i] \in JobRecord /\ jobs'[i] = jobs[i]
      BY <1>5, <1>8 DEF MailTypeOK
    <3>2. PICK k \in JobRecord : k = jobs[i]
      BY <3>1
    <3>3. JobFits(k)'
      BY <1>7, <3>2, KeepsJobs DEF MailInd, JobsFit
    <3>4. QED
      BY <3>1, <3>2, <3>3
  <2>3. \A i \in DOMAIN jobs' : i \in DOMAIN jobs \/ jobs'[i] = j
    BY <1>5, <1>8 DEF MailTypeOK
  <2>4. QED
    BY <2>1, <2>2, <2>3 DEF JobsFit
<1>11. WorkTrue' /\ ResultsTrue'
  BY <1>5, <1>7, KeepsMail
<1>12. QED
  BY <1>7, <1>9, <1>10, <1>11 DEF MailInd

(* Either select: everybody counts as failed.                              *)
LEMMA GiveUpInd ==
    ASSUME MailTypeOK, MailInd, NEW c \in Callers, GiveUp(c)
    PROVE  MailTypeOK' /\ MailInd'
<1>1. Busy(c) /\ call[c].n \in Nat /\ call[c].to \in Seq(Addresses)
  BY CallShape DEF GiveUp, Busy
<1>2. PICK v : v = Returned(call[c].n, call[c].to, Elements(call[c].to), TRUE)
  BY Zenon
<1>3. /\ v \in Over /\ v.st = "returned" /\ v.n = call[c].n /\ v.to = call[c].to
      /\ v.failed = Elements(v.to) /\ v # NoCall /\ v \notin Waiting
  <2>1. Elements(call[c].to) \subseteq Addresses
    BY <1>1 DEF Elements
  <2>2. QED
    BY <1>1, <1>2, <2>1 DEF Waiting, NoCall, Over, Returned
<1>4. /\ UNCHANGED <<jobs, closed, worker, dispatching, panicked, left, calls>>
      /\ call' = [call EXCEPT ![c] = v] /\ results' \subseteq results
  BY <1>2 DEF GiveUp
<1>5. /\ Keeps /\ Numbered' /\ RecipientsFit' /\ AnswerTrue'
      /\ call' \in [Callers -> {NoCall} \cup Waiting \cup Over]
  <2>1. \A a \in Elements(v.to) \ v.failed : <<v.n, a>> \in left'
    BY <1>3
  <2>2. QED
    BY <1>1, <1>3, <1>4, <2>1, OneCall, Zenon
<1>6. JobsFit' /\ WorkTrue' /\ ResultsTrue'
  BY <1>4, <1>5, KeepsMail
<1>7. MailTypeOK'
  BY <1>4, <1>5 DEF MailTypeOK
<1>8. QED
  BY <1>5, <1>6, <1>7 DEF MailInd

(* Second select: recipients and results are matched by position, and      *)
(* every address a message was built for has one.                          *)
LEMMA ReceiveInd ==
    ASSUME MailTypeOK, MailInd, BuildLaw, NEW c \in Callers, Receive(c)
    PROVE  MailTypeOK' /\ MailInd'
<1> DEFINE to == call[c].to
           n == call[c].n
           M == Messages(call[c].to)
<1>1. /\ call[c].st = "awaiting" /\ Busy(c) /\ n \in Nat /\ to \in Seq(Addresses)
      /\ call[c].recipients = M
  BY CallShape DEF Receive, Busy, MailInd, RecipientsFit, Recipients, Messages
<1>2. PICK r \in results :
          /\ r.n = n /\ results' = results \ {r}
          /\ call' = [call EXCEPT ![c] =
                Returned(n, to, {call[c].recipients[i] : i \in {k \in DOMAIN r.ok : ~r.ok[k]}}
                                   \cup (Elements(to) \cap Invalid), FALSE)]
  BY Zenon DEF Receive
<1>3. UNCHANGED <<jobs, closed, worker, dispatching, panicked, left, calls>>
  BY DEF Receive
<1>4. /\ r \in Result /\ r.ok \in Seq(BOOLEAN) /\ Len(r.ok) = Len(M)
      /\ \A i \in 1..Len(r.ok) : r.ok[i] => <<n, M[i]>> \in left
  BY <1>1, <1>2 DEF MailTypeOK, Result, MailInd, ResultsTrue, ResultFits, SentLeft
<1>5. /\ M \in Seq(Built) /\ Elements(to) \ Invalid \subseteq Elements(M)
      /\ Elements(to) \subseteq Addresses
  <2>1. Elements(to) \subseteq Addresses
    BY <1>1 DEF Elements
  <2>2. QED
    BY <1>1, <2>1, Zenon DEF BuildLaw, Messages
<1> HIDE DEF M, to, n
<1>6. DOMAIN r.ok = DOMAIN M /\ DOMAIN M = 1..Len(M)
  BY <1>4, <1>5
<1>7. PICK refused : refused = {M[i] : i \in {k \in DOMAIN r.ok : ~r.ok[k]}}
  BY Zenon
<1>8. PICK v : v = Returned(n, to, refused \cup (Elements(to) \cap Invalid), FALSE)
  BY Zenon
<1>9. refused \subseteq Built
  BY <1>5, <1>6, <1>7
<1>10. /\ v \in Over /\ v.n = n /\ v.to = to
       /\ v.st = "returned" /\ v.failed = refused \cup (Elements(to) \cap Invalid)
       /\ v # NoCall /\ v \notin Waiting
  BY <1>1, <1>5, <1>8, <1>9 DEF Waiting, NoCall, Over, Returned
<1>11. call' = [call EXCEPT ![c] = v]
  BY <1>1, <1>2, <1>7, <1>8
<1>12. ASSUME NEW a \in Elements(to) \ v.failed PROVE <<n, a>> \in left
  <2>1. a \in Elements(M) /\ a \notin refused
    BY <1>5, <1>10
  <2>2. PICK i \in DOMAIN M : a = M[i]
    BY <2>1 DEF Elements
  <2>3. r.ok[i]
    BY <1>6, <1>7, <2>1, <2>2, Zenon
  <2>4. QED
    BY <1>4, <1>6, <2>2, <2>3
<1>13. /\ Keeps /\ Numbered' /\ RecipientsFit' /\ AnswerTrue'
       /\ call' \in [Callers -> {NoCall} \cup Waiting \cup Over]
  <2>1. \A a \in Elements(v.to) \ v.failed : <<v.n, a>> \in left'
    BY <1>3, <1>10, <1>12
  <2>2. v.n = call[c].n /\ v.to = call[c].to
    BY <1>10 DEF n, to
  <2>3. QED
    BY <1>1, <1>3, <1>10, <1>11, <2>1, <2>2, OneCall, Zenon
<1>14. JobsFit' /\ WorkTrue' /\ ResultsTrue'
  BY <1>2, <1>3, <1>13, KeepsMail
<1>15. MailTypeOK'
  BY <1>2, <1>3, <1>13, Zenon DEF MailTypeOK
<1>16. QED
  BY <1>13, <1>14, <1>15 DEF MailInd

(* The call is over.                                                       *)
LEMMA ForgetInd ==
    ASSUME MailTypeOK, MailInd, NEW c \in Callers, Busy(c), Forget(c)
    PROVE  MailTypeOK' /\ MailInd'
<1>1. /\ UNCHANGED <<jobs, closed, worker, dispatching, panicked, results, calls>>
      /\ call' = [call EXCEPT ![c] = NoCall]
      /\ \A m \in left : m[1] # call[c].n => m \in left'
  BY DEF Forget
<1>2. NoCall \notin Waiting /\ NoCall \notin Over
  BY DEF Waiting, Over, NoCall
<1>3. /\ Keeps /\ Numbered' /\ RecipientsFit' /\ AnswerTrue'
      /\ call' \in [Callers -> {NoCall} \cup Waiting \cup Over]
  BY <1>1, <1>2, OneCall, Zenon
<1>4. JobsFit' /\ WorkTrue' /\ ResultsTrue'
  BY <1>1, <1>3, KeepsMail
<1>5. MailTypeOK'
  BY <1>1, <1>3 DEF MailTypeOK
<1>6. QED
  BY <1>3, <1>4, <1>5 DEF MailInd

(* The worker's hands are empty or hold one job.                           *)
LEMMA ShortSeqs ==
    ASSUME NEW S, NEW w \in S
    PROVE  /\ <<w>> \in Seq(S) /\ <<>> \in Seq(S) /\ Len(<<w>>) <= 1 /\ Len(<<>>) <= 1
           /\ <<w>>[1] = w /\ <<w>> # <<>>
           /\ \A v : [<<w>> EXCEPT ![1] = v] = <<v>>
<1>1. /\ <<w>> \in Seq(S) /\ <<>> \in Seq(S) /\ Len(<<w>>) <= 1 /\ Len(<<>>) <= 1
      /\ <<w>>[1] = w /\ <<w>> # <<>>
  OBVIOUS
<1>2. ASSUME NEW v PROVE [<<w>> EXCEPT ![1] = v] = <<v>>
  OBVIOUS
<1>3. QED
  BY <1>1, <1>2

(* The worker's steps, by the work they leave in hand.                     *)
LEMMA WorkInd ==
    ASSUME MailTypeOK, MailInd, UNCHANGED <<closed, call, panicked, calls>>, dispatching' \in BOOLEAN,
           left \subseteq left', jobs' \in Seq(JobRecord), Len(jobs') <= QueueSize,
           \A i \in DOMAIN jobs' : \E k \in DOMAIN jobs : jobs'[i] = jobs[k],
           results' \subseteq Result, \A r \in results' \ results : ResultFits(r)',
           NEW w \in InWork, JobFits(w.job)', Len(w.ok) <= Len(w.job.messages), SentLeft(w.job.n, w.ok)',
           worker' = <<w>> \/ worker' = <<>>
    PROVE  MailTypeOK' /\ MailInd'
<1>1. Keeps /\ Numbered' /\ RecipientsFit' /\ AnswerTrue'
  BY SameCalls
<1>2. MailTypeOK'
  <2>1. <<w>> \in Seq(InWork) /\ <<>> \in Seq(InWork) /\ Len(<<w>>) <= 1 /\ Len(<<>>) <= 1
    BY ShortSeqs, Zenon
  <2>2. worker' \in Seq(InWork) /\ Len(worker') <= 1
    BY <2>1, Zenon
  <2>3. QED
    BY <2>2 DEF MailTypeOK
<1>3. JobsFit'
  <2> SUFFICES ASSUME NEW i \in DOMAIN jobs'
               PROVE  JobFits(jobs[i])'
    BY DEF JobsFit
  <2>1. PICK k \in DOMAIN jobs : jobs'[i] = jobs[k]
    OBVIOUS
  <2>2. PICK j \in JobRecord : j = jobs[k]
    BY DEF MailTypeOK
  <2>3. JobFits(j)'
    BY <1>1, <2>2, KeepsJobs DEF MailInd, JobsFit
  <2>4. QED
    BY <2>1, <2>2, <2>3
<1>4. WorkTrue'
  <2>1. worker' # <<>> => worker' = <<w>> /\ worker'[1] = w
    OBVIOUS
  <2>2. QED
    BY <2>1 DEF WorkTrue, Job
<1>5. ResultsTrue'
  <2> SUFFICES ASSUME NEW r \in results', r \in results
               PROVE  ResultFits(r)'
    BY DEF ResultsTrue
  <2>1. r \in Result
    BY DEF MailTypeOK
  <2>2. QED
    BY <1>1, <2>1, KeepsResults DEF MailInd, ResultsTrue
<1>6. QED
  BY <1>1, <1>2, <1>3, <1>4, <1>5 DEF MailInd

(* The worker takes the oldest job.                                        *)
LEMMA TakeInd ==
    ASSUME MailTypeOK, MailInd, BuildLaw, Take
    PROVE  MailTypeOK' /\ MailInd'
<1>1. /\ UNCHANGED <<closed, dispatching, results, call, panicked, left, calls>>
      /\ jobs # <<>> /\ jobs' = Tail(jobs)
      /\ worker' = <<[job |-> Head(jobs), dialled |-> FALSE, ok |-> <<>>]>>
  BY DEF Take
<1>2. PICK j \in JobRecord : j = Head(jobs) /\ j = jobs[1] /\ 1 \in DOMAIN jobs
  BY <1>1 DEF MailTypeOK
<1>3. PICK w : w = [job |-> j, dialled |-> FALSE, ok |-> <<>>]
  BY Zenon
<1>4. w \in InWork /\ w.job = j /\ w.ok = <<>> /\ j.n \in Nat /\ j.messages \in Seq(Built)
  <2>1. <<>> \in Seq(BOOLEAN)
    OBVIOUS
  <2>2. QED
    BY <1>3, <2>1 DEF InWork, JobRecord
<1>5. Keeps
  BY <1>1, SameCalls
<1>6. JobFits(j)'
  BY <1>2, <1>5, KeepsJobs DEF MailInd, JobsFit
<1>7. SentLeft(j.n, <<>>)'
  <2> SUFFICES ASSUME NEW c \in Callers, Busy(c)'
               PROVE  Len(<<>>) <= Len(Messages(call'[c].to))
    BY DEF SentLeft
  <2>1. call'[c].to \in Seq(Addresses)
    BY <1>1, CallShape DEF Busy
  <2>2. Messages(call'[c].to) \in Seq(Built)
    BY <2>1, Zenon DEF BuildLaw, Messages
  <2>3. QED
    BY <2>2
<1>8. /\ jobs' \in Seq(JobRecord) /\ Len(jobs') <= QueueSize
      /\ \A i \in DOMAIN jobs' : i + 1 \in DOMAIN jobs /\ jobs'[i] = jobs[i + 1]
  BY <1>1, QueueHasRoom DEF MailTypeOK
<1>9. Len(w.ok) <= Len(w.job.messages)
  BY <1>4
<1>10. /\ results' \subseteq Result /\ \A r \in results' \ results : ResultFits(r)'
       /\ dispatching' \in BOOLEAN /\ left \subseteq left' /\ worker' = <<w>>
       /\ \A i \in DOMAIN jobs' : \E k \in DOMAIN jobs : jobs'[i] = jobs[k]
  BY <1>1, <1>2, <1>3, <1>8 DEF MailTypeOK
<1>11. JobFits(w.job)' /\ SentLeft(w.job.n, w.ok)'
  BY <1>4, <1>6, <1>7
<1>12. QED
  BY <1>1, <1>4, <1>8, <1>9, <1>10, <1>11, WorkInd

(* What the worker knows of its job.                                       *)
LEMMA JobInHand ==
    ASSUME MailTypeOK, MailInd, worker # <<>>
    PROVE  \E w \in InWork :
              /\ worker = <<w>> /\ worker[1] = w /\ Job = w.job
              /\ w.job \in JobRecord /\ w.job.n \in Nat /\ w.job.messages \in Seq(Built) /\ w.job.caller \in Callers
              /\ w.ok \in Seq(BOOLEAN) /\ w.dialled \in BOOLEAN
              /\ JobFits(w.job) /\ SentLeft(w.job.n, w.ok) /\ Len(w.ok) <= Len(w.job.messages)
<1>1. PICK w \in InWork : worker = <<w>> /\ worker[1] = w
  BY WorkerShape, ShortSeqs, Zenon
<1>2. JobFits(w.job) /\ SentLeft(w.job.n, w.ok) /\ Len(w.ok) <= Len(w.job.messages)
  BY <1>1 DEF MailInd, WorkTrue, Job
<1>3. /\ w.job \in JobRecord /\ w.job.n \in Nat /\ w.job.messages \in Seq(Built) /\ w.job.caller \in Callers
      /\ w.ok \in Seq(BOOLEAN) /\ w.dialled \in BOOLEAN
  BY DEF InWork, JobRecord
<1>4. QED
  BY <1>1, <1>2, <1>3 DEF Job

(* A failed dial is the result of every message.                           *)
LEMMA AllFalse ==
    ASSUME NEW S, NEW s \in Seq(S), NEW f, f = [i \in DOMAIN s |-> FALSE]
    PROVE  f \in Seq(BOOLEAN) /\ Len(f) = Len(s) /\ \A i \in 1..Len(f) : ~f[i]
<1>1. DOMAIN s = 1..Len(s) /\ Len(s) \in Nat
  OBVIOUS
<1>2. f \in [1..Len(s) -> BOOLEAN] /\ \A i \in 1..Len(s) : ~f[i]
  BY <1>1
<1>3. f \in Seq(BOOLEAN) /\ Len(f) = Len(s)
  BY <1>1, <1>2
<1>4. QED
  BY <1>2, <1>3

(* The worker dials or fails to.                                           *)
LEMMA DialInd ==
    ASSUME MailTypeOK, MailInd, Dial \/ DialFails
    PROVE  MailTypeOK' /\ MailInd'
<1>1. /\ UNCHANGED <<jobs, closed, dispatching, results, call, panicked, left, calls>> /\ worker # <<>>
      /\ \/ worker' = [worker EXCEPT ![1] = [worker[1] EXCEPT !.dialled = TRUE]]
         \/ worker' = [worker EXCEPT ![1] = [worker[1] EXCEPT !.ok = [i \in DOMAIN Job.messages |-> FALSE]]]
  BY DEF Dial, DialFails
<1>2. PICK w \in InWork :
              /\ worker = <<w>> /\ worker[1] = w /\ Job = w.job
              /\ w.job \in JobRecord /\ w.job.n \in Nat /\ w.job.messages \in Seq(Built)
              /\ w.ok \in Seq(BOOLEAN)
              /\ JobFits(w.job) /\ SentLeft(w.job.n, w.ok) /\ Len(w.ok) <= Len(w.job.messages)
  BY <1>1, JobInHand, Zenon
<1>3. PICK none : none = [i \in DOMAIN w.job.messages |-> FALSE]
  BY Zenon
<1>4. none \in Seq(BOOLEAN) /\ Len(none) = Len(w.job.messages) /\ \A i \in 1..Len(none) : ~none[i]
  BY <1>2, <1>3, AllFalse, Zenon
<1>5. PICK v : /\ v = [w EXCEPT !.dialled = TRUE] \/ v = [w EXCEPT !.ok = none]
               /\ worker' = <<v>>
  <2>1. \/ worker' = [<<w>> EXCEPT ![1] = [w EXCEPT !.dialled = TRUE]]
        \/ worker' = [<<w>> EXCEPT ![1] = [w EXCEPT !.ok = none]]
    BY <1>1, <1>2, <1>3
  <2>2. \A x : [<<w>> EXCEPT ![1] = x] = <<x>>
    BY ShortSeqs, Zenon
  <2>3. \/ worker' = <<[w EXCEPT !.dialled = TRUE]>>
        \/ worker' = <<[w EXCEPT !.ok = none]>>
    BY <2>1, <2>2
  <2>4. QED
    BY <2>3
<1>6. Keeps
  BY <1>1, SameCalls
<1>7. JobFits(w.job)' /\ SentLeft(w.job.n, w.ok)'
  <2>1. w.job.n <= calls
    BY <1>2 DEF JobFits
  <2>2. QED
    BY <1>2, <1>6, <2>1, KeepsJobs, KeepsAnswers
<1>8. SentLeft(w.job.n, none)'
  <2> SUFFICES ASSUME NEW c \in Callers, Busy(c)', call'[c].n = w.job.n
               PROVE  Len(none) <= Len(Messages(call'[c].to))
    BY <1>4 DEF SentLeft
  <2>1. w.job.messages = Messages(call'[c].to)
    BY <1>7 DEF JobFits
  <2>2. QED
    BY <1>2, <1>4, <2>1
<1>9. v \in InWork /\ v.job = w.job /\ (v.ok = w.ok \/ v.ok = none)
  BY <1>2, <1>4, <1>5, Zenon DEF InWork
<1>10. JobFits(v.job)' /\ Len(v.ok) <= Len(v.job.messages) /\ SentLeft(v.job.n, v.ok)'
  BY <1>2, <1>4, <1>7, <1>8, <1>9
<1>11. /\ jobs' \in Seq(JobRecord) /\ Len(jobs') <= QueueSize
       /\ \A i \in DOMAIN jobs' : \E k \in DOMAIN jobs : jobs'[i] = jobs[k]
       /\ results' \subseteq Result /\ results' \ results = {} /\ dispatching' \in BOOLEAN /\ left \subseteq left'
  BY <1>1 DEF MailTypeOK
<1>12. QED
  BY <1>1, <1>5, <1>9, <1>10, <1>11, WorkInd

(* One more message is sent: what is reported as sent is added to left as  *)
(* long as the call is under way.                                          *)
LEMMA SendInd ==
    ASSUME MailTypeOK, MailInd, NEW sent \in BOOLEAN, Send(sent)
    PROVE  MailTypeOK' /\ MailInd'
<1>1. /\ UNCHANGED <<jobs, closed, dispatching, results, call, panicked, calls>> /\ worker # <<>>
      /\ worker' = [worker EXCEPT ![1] = [worker[1] EXCEPT !.ok = Append(worker[1].ok, sent)]]
      /\ Len(worker[1].ok) < Len(Job.messages)
      /\ left \subseteq left'
      /\ sent /\ Current => <<Job.n, Job.messages[Len(worker[1].ok) + 1]>> \in left'
  BY DEF Send
<1>2. PICK w \in InWork :
              /\ worker = <<w>> /\ worker[1] = w /\ Job = w.job
              /\ w.job \in JobRecord /\ w.job.n \in Nat /\ w.job.messages \in Seq(Built)
              /\ w.ok \in Seq(BOOLEAN)
              /\ JobFits(w.job) /\ SentLeft(w.job.n, w.ok) /\ Len(w.ok) <= Len(w.job.messages)
  BY <1>1, JobInHand, Zenon
<1>3. PICK ok : ok = Append(w.ok, sent)
  BY Zenon
<1>4. /\ ok \in Seq(BOOLEAN) /\ Len(ok) = Len(w.ok) + 1 /\ Len(w.ok) \in Nat
      /\ \A i \in 1..Len(w.ok) : ok[i] = w.ok[i]
      /\ ok[Len(w.ok) + 1] = sent
      /\ Len(w.job.messages) \in Nat /\ Len(w.ok) < Len(w.job.messages)
  BY <1>1, <1>2, <1>3
<1>5. PICK v : v = [w EXCEPT !.ok = ok] /\ worker' = <<v>>
  <2>1. worker' = [<<w>> EXCEPT ![1] = [w EXCEPT !.ok = ok]]
    BY <1>1, <1>2, <1>3
  <2>2. QED
    BY <2>1, ShortSeqs, Zenon
<1>6. Keeps
  BY <1>1, SameCalls
<1>7. JobFits(w.job)' /\ SentLeft(w.job.n, w.ok)'
  <2>1. w.job.n <= calls
    BY <1>2 DEF JobFits
  <2>2. QED
    BY <1>2, <1>6, <2>1, KeepsJobs, KeepsAnswers
<1>8. SentLeft(w.job.n, ok)'
  <2> SUFFICES ASSUME NEW c \in Callers, Busy(c)', call'[c].n = w.job.n
               PROVE  /\ Len(ok) <= Len(Messages(call'[c].to))
                      /\ \A i \in 1..Len(ok) : ok[i] => <<w.job.n, Messages(call'[c].to)[i]>> \in left'
    BY DEF SentLeft
  <2>1. c = w.job.caller /\ w.job.messages = Messages(call'[c].to)
    BY <1>7 DEF JobFits
  <2>2. Current
    BY <1>1, <1>2, <2>1 DEF Current, Busy
  <2>3. \A i \in 1..Len(w.ok) : w.ok[i] => <<w.job.n, w.job.messages[i]>> \in left'
    BY <1>7, <2>1, Zenon DEF SentLeft
  <2>4. sent => <<w.job.n, w.job.messages[Len(w.ok) + 1]>> \in left'
    BY <1>1, <1>2, <2>2
  <2>5. \A i \in 1..Len(ok) : ok[i] => <<w.job.n, w.job.messages[i]>> \in left'
    <3> SUFFICES ASSUME NEW i \in 1..Len(ok), ok[i]
                 PROVE  <<w.job.n, w.job.messages[i]>> \in left'
      OBVIOUS
    <3>1. CASE i \in 1..Len(w.ok)
      BY <1>4, <2>3, <3>1
    <3>2. CASE i = Len(w.ok) + 1
      BY <1>4, <2>4, <3>2
    <3>3. QED
      BY <1>4, <3>1, <3>2
  <2>6. Len(ok) <= Len(w.job.messages)
    BY <1>4
  <2>7. QED
    BY <2>1, <2>5, <2>6
<1>9. v \in InWork /\ v.job = w.job /\ v.ok = ok
  BY <1>2, <1>4, <1>5 DEF InWork
<1>10. JobFits(v.job)' /\ Len(v.ok) <= Len(v.job.messages) /\ SentLeft(v.job.n, v.ok)'
  BY <1>4, <1>7, <1>8, <1>9
<1>11. /\ jobs' \in Seq(JobRecord) /\ Len(jobs') <= QueueSize
       /\ \A i \in DOMAIN jobs' : \E k \in DOMAIN jobs : jobs'[i] = jobs[k]
       /\ results' \subseteq Result /\ results' \ results = {} /\ dispatching' \in BOOLEAN
  BY <1>1 DEF MailTypeOK
<1>12. QED
  BY <1>1, <1>5, <1>9, <1>10, <1>11, WorkInd, Zenon

(* The result has an entry for every message of the job.                   *)
LEMMA DeliveredInd ==
    ASSUME MailTypeOK, MailInd, Delivered
    PROVE  MailTypeOK' /\ MailInd'
<1>1. /\ UNCHANGED <<jobs, closed, dispatching, call, panicked, left, calls>> /\ worker # <<>>
      /\ worker' = <<>> /\ Len(worker[1].ok) = Len(Job.messages)
      /\ results' \subseteq results \cup {[n |-> Job.n, ok |-> worker[1].ok]}
  BY Zenon DEF Delivered
<1>2. PICK w \in InWork :
              /\ worker = <<w>> /\ worker[1] = w /\ Job = w.job
              /\ w.job \in JobRecord /\ w.job.n \in Nat /\ w.job.messages \in Seq(Built)
              /\ w.ok \in Seq(BOOLEAN)
              /\ JobFits(w.job) /\ SentLeft(w.job.n, w.ok) /\ Len(w.ok) <= Len(w.job.messages)
  BY <1>1, JobInHand, Zenon
<1>3. PICK r : r = [n |-> w.job.n, ok |-> w.ok]
  BY Zenon
<1>4. r \in Result /\ r.n = w.job.n /\ r.ok = w.ok /\ results' \subseteq results \cup {r}
  BY <1>1, <1>2, <1>3 DEF Result
<1>5. Keeps
  BY <1>1, SameCalls
<1>6. JobFits(w.job)' /\ SentLeft(w.job.n, w.ok)'
  <2>1. w.job.n <= calls
    BY <1>2 DEF JobFits
  <2>2. QED
    BY <1>2, <1>5, <2>1, KeepsJobs, KeepsAnswers
<1>7. ResultFits(r)'
  <2>1. \A c \in Callers : Busy(c)' /\ call'[c].n = r.n => Len(r.ok) = Len(Messages(call'[c].to))
    BY <1>1, <1>2, <1>4, <1>6 DEF JobFits
  <2>2. r.n <= calls'
    BY <1>4, <1>6, SMTT(20) DEF JobFits
  <2>3. QED
    BY <1>4, <1>6, <2>1, <2>2, SMTT(20) DEF ResultFits
<1>8. /\ jobs' \in Seq(JobRecord) /\ Len(jobs') <= QueueSize
      /\ \A i \in DOMAIN jobs' : \E k \in DOMAIN jobs : jobs'[i] = jobs[k]
      /\ results' \subseteq Result /\ dispatching' \in BOOLEAN /\ left \subseteq left'
  BY <1>1, <1>4 DEF MailTypeOK
<1>9. \A q \in results' \ results : ResultFits(q)'
  BY <1>4, <1>7
<1>10. QED
  BY <1>1, <1>2, <1>6, <1>8, <1>9, WorkInd

----------------------------------------------------------------------------
(* The callers.                                                            *)

TaskTypeOK == task \in [Goroutines -> {"idle", "working", "tx", "mailing", "recording", "ended"}]

(* A goroutine waits for its call or records its outcome; what it gives up *)
(* on it gives up because its context has ended, so that it cannot begin a *)
(* transaction any more.                                                   *)
TaskInd ==
    \A c \in Callers :
        /\ Busy(c) <=> task[c] \in {"mailing", "recording"}
        /\ task[c] = "recording" => call[c].st = "returned" /\ ~call[c].gaveUp
        /\ call[c].st = "returned" /\ call[c].gaveUp => c \in ctxDone

(* What a step does to jobs and calls.                                     *)
MailIdle ==
    /\ UNCHANGED <<jobs, worker, results, call, left, calls>>
    /\ closed' \in BOOLEAN /\ dispatching' \in BOOLEAN /\ panicked' \in BOOLEAN

MailReset ==
    /\ call' = [c \in Callers |-> NoCall] /\ results' = {} /\ left' = {}
    /\ UNCHANGED <<jobs, closed, worker, dispatching, panicked, calls>>

(* The steps by what they do to it.                                        *)
LEMMA MailFrame ==
    ASSUME MailTypeOK, [ProcNext]_vars
    PROVE  \/ MailIdle \/ MailReset
           \/ Take \/ Dial \/ DialFails \/ Delivered \/ \E ok \in BOOLEAN : Send(ok)
           \/ \E c \in Callers : Enqueue(c) \/ GiveUp(c) \/ Receive(c) \/ Recorded(c)
           \/ \E c \in Callers : \E to \in Batches[c] : CallMailer(c, to)
<1>1. UNCHANGED mailVars => MailIdle
  BY DEF mailVars, MailIdle, MailTypeOK
<1>2. CASE UNCHANGED vars
  BY <1>1, <1>2 DEF vars
<1>3. CASE StartStep
  BY <1>1, <1>3, Zenon DEF StartStep, NewMailer, MailIdle, MailTypeOK
<1>4. CASE StartFails \/ LoopsStopped \/ PoolClosed \/ MailerStopped \/ Gone
  BY <1>1, <1>4, Zenon DEF StartFails, LoopsStopped, PoolClosed, MailerStopped, Gone, vars
<1>5. CASE Signal \/ ServeEnds
  BY <1>5, Zenon DEF Signal, ServeEnds, Cancel, MailIdle, MailTypeOK
<1>6. CASE Close
  <2>1. CloseJobs \/ UNCHANGED mailVars
    BY <1>6, Zenon DEF Close
  <2>2. QED
    BY <1>1, <2>1, Zenon DEF CloseJobs, MailIdle, MailTypeOK
<1>7. CASE Exit
  BY <1>7, Zenon DEF Exit, MailReset
<1>8. CASE Dispatch
  <2>1. DispatchEnds => MailIdle
    BY Zenon DEF DispatchEnds, MailIdle, MailTypeOK
  <2>2. QED
    BY <1>8, <2>1, Zenon DEF Dispatch, Deliver
<1>9. ASSUME NEW g \in Goroutines, Work(g)
      PROVE  MailIdle
  BY <1>1, <1>9, Zenon DEF Work, Begin, BeginTx, EndTx, Return, LoopEnds
<1>10. ASSUME NEW c \in Callers, MailCall(c) \/ Record(c)
       PROVE  MailIdle \/ Enqueue(c) \/ GiveUp(c) \/ Receive(c)
  <2>1. SendOnClosed(c) => MailIdle
    BY DEF SendOnClosed, MailIdle, MailTypeOK
  <2>2. QED
    BY <1>1, <1>10, <2>1, Zenon DEF MailCall, Record
<1>11. QED
  BY <1>2, <1>3, <1>4, <1>5, <1>6, <1>7, <1>8, <1>9, <1>10, Zenon DEF ProcNext, Run, MailWork

(* Every step keeps jobs, results and answers true.                        *)
LEMMA MailStep ==
    ASSUME MailTypeOK, MailInd, TaskInd, BuildLaw, [ProcNext]_vars
    PROVE  MailTypeOK' /\ MailInd'
<1>1. CASE MailIdle
  BY <1>1, IdleMail DEF MailIdle
<1>2. CASE MailReset
  <2>1. \A c \in Callers : call'[c] = NoCall /\ call'[c].st = "none"
    BY <1>2 DEF MailReset, NoCall
  <2>2. Keeps
    BY <1>2, <2>1 DEF Keeps, Busy, MailReset, MailTypeOK
  <2>3. JobsFit' /\ WorkTrue' /\ ResultsTrue'
    BY <1>2, <2>2, KeepsMail DEF MailReset
  <2>4. Numbered' /\ RecipientsFit' /\ AnswerTrue'
    BY <2>1 DEF Numbered, RecipientsFit, AnswerTrue, Busy
  <2>5. MailTypeOK'
    BY <1>2 DEF MailReset, MailTypeOK
  <2>6. QED
    BY <2>3, <2>4, <2>5 DEF MailInd
<1>3. CASE Take \/ Dial \/ DialFails \/ Delivered \/ \E ok \in BOOLEAN : Send(ok)
  BY <1>3, TakeInd, DialInd, DeliveredInd, SendInd
<1>4. ASSUME NEW c \in Callers, Enqueue(c) \/ GiveUp(c) \/ Receive(c)
      PROVE  MailTypeOK' /\ MailInd'
  BY <1>4, EnqueueInd, GiveUpInd, ReceiveInd
<1>5. ASSUME NEW c \in Callers, Recorded(c)
      PROVE  MailTypeOK' /\ MailInd'
  <2>1. Busy(c) /\ Forget(c)
    BY <1>5, Zenon DEF Recorded, TaskInd
  <2>2. QED
    BY <2>1, ForgetInd
<1>6. ASSUME NEW c \in Callers, NEW to \in Batches[c], CallMailer(c, to)
      PROVE  MailTypeOK' /\ MailInd'
  BY <1>6, SendMailInd DEF CallMailer
<1>7. QED
  BY <1>1, <1>2, <1>3, <1>4, <1>5, <1>6, MailFrame, Zenon

(* What a step of a goroutine does to the tasks.                           *)
LEMMA BecomeFacts ==
    ASSUME TaskTypeOK, NEW g \in Goroutines, NEW st, Become(g, st),
           st \in {"idle", "working", "tx", "mailing", "recording", "ended"}
    PROVE  TaskTypeOK' /\ task'[g] = st /\ \A h \in Goroutines : h # g => task'[h] = task[h]
BY DEF Become, TaskTypeOK

(* A goroutine whose task is not about mail has no call.                   *)
LEMMA TaskOnly ==
    ASSUME TaskTypeOK, TaskInd, UNCHANGED <<call, ctxDone>>, NEW g \in Goroutines,
           task[g] \notin {"mailing", "recording"}, task'[g] \notin {"mailing", "recording"},
           \A h \in Goroutines : h # g => task'[h] = task[h]
    PROVE  TaskInd'
<1>1. Callers \subseteq Goroutines
  BY SendersOfMail DEF Goroutines
<1>2. QED
  BY <1>1 DEF TaskInd, Busy

(* Handlers, loops and requests.                                           *)
LEMMA WorkTask ==
    ASSUME TaskTypeOK, TaskInd, NEW g \in Goroutines, Work(g)
    PROVE  TaskTypeOK' /\ TaskInd'
<1>1. UNCHANGED <<call, ctxDone>>
  BY Zenon DEF Work, Begin, BeginTx, EndTx, Return, LoopEnds, mailVars
<1>2. /\ task[g] \in {"idle", "working", "tx"}
      /\ \E st \in {"idle", "working", "tx", "ended"} : Become(g, st)
  BY DEF Work, Begin, BeginTx, EndTx, Return, LoopEnds
<1>3. PICK st \in {"idle", "working", "tx", "ended"} : Become(g, st)
  BY <1>2
<1>4. TaskTypeOK' /\ task'[g] = st /\ \A h \in Goroutines : h # g => task'[h] = task[h]
  BY <1>3, BecomeFacts
<1>5. QED
  BY <1>1, <1>2, <1>4, TaskOnly

(* A call goes on or returns while its goroutine waits.                    *)
LEMMA MailCallTask ==
    ASSUME MailTypeOK, TaskTypeOK, TaskInd, NEW c \in Callers, MailCall(c)
    PROVE  TaskTypeOK' /\ TaskInd'
<1>1. task' = task /\ UNCHANGED ctxDone
  BY Zenon DEF MailCall, procVars, Enqueue, SendOnClosed, GiveUp, Receive
<1>2. CASE SendOnClosed(c)
  BY <1>1, <1>2 DEF SendOnClosed, TaskTypeOK, TaskInd, Busy
<1>3. CASE Enqueue(c) \/ GiveUp(c) \/ Receive(c)
  <2>1. call[c].st \in {"queueing", "awaiting"} /\ task[c] = "mailing"
    BY <1>3, Zenon DEF Enqueue, GiveUp, Receive, TaskInd, Busy
  <2>2. \A d \in Callers : d # c => call'[d] = call[d]
    BY <1>3, Zenon DEF Enqueue, GiveUp, Receive, MailTypeOK
  <2>3. \/ call'[c].st = "awaiting"
        \/ call'[c].st = "returned" /\ (call'[c].gaveUp => c \in ctxDone)
    <3>1. CASE Enqueue(c)
      <4>1. call[c] \in Waiting
        BY <2>1, CallShape
      <4>2. QED
        BY <3>1, <4>1 DEF Enqueue, MailTypeOK, Waiting
    <3>2. CASE GiveUp(c)
      BY <3>2 DEF GiveUp, MailTypeOK, Returned
    <3>3. CASE Receive(c)
      BY <3>3 DEF Receive, MailTypeOK, Returned
    <3>4. QED
      BY <1>3, <3>1, <3>2, <3>3
  <2>4. QED
    BY <1>1, <2>1, <2>2, <2>3 DEF TaskTypeOK, TaskInd, Busy
<1>4. QED
  BY <1>2, <1>3 DEF MailCall

(* A call begins, and its outcome is recorded: with a context that has not *)
(* ended, so that it was not given up.                                     *)
LEMMA CallerTask ==
    ASSUME MailTypeOK, TaskTypeOK, TaskInd, NEW c \in Callers,
           Record(c) \/ Recorded(c) \/ \E to \in Batches[c] : CallMailer(c, to)
    PROVE  TaskTypeOK' /\ TaskInd'
<1>1. c \in Goroutines /\ Callers \subseteq Goroutines
  BY SendersOfMail, ZenonT(30) DEF Goroutines
<1>2. CASE Record(c)
  <2>1. /\ UNCHANGED <<call, ctxDone>> /\ Become(c, "recording") /\ call[c].st = "returned"
        /\ c \notin ctxDone
    BY <1>2, Zenon DEF Record, CanRecord, CanBegin, mailVars
  <2>2. TaskTypeOK' /\ task'[c] = "recording" /\ \A h \in Goroutines : h # c => task'[h] = task[h]
    BY <1>1, <2>1, BecomeFacts
  <2>3. ~call[c].gaveUp
    BY <2>1, SMTT(20) DEF TaskInd
  <2>4. QED
    BY <1>1, <2>1, <2>2, <2>3 DEF TaskInd, Busy
<1>3. CASE Recorded(c)
  <2>1. Forget(c) /\ \E st \in {"idle", "working"} : Become(c, st)
    BY <1>3 DEF Recorded
  <2>2. PICK st \in {"idle", "working"} : Become(c, st)
    BY <2>1
  <2>3. TaskTypeOK' /\ task'[c] = st /\ \A h \in Goroutines : h # c => task'[h] = task[h]
    BY <1>1, <2>2, BecomeFacts
  <2>4. ctxDone' = ctxDone /\ call'[c].st = "none" /\ \A d \in Callers : d # c => call'[d] = call[d]
    BY <2>1 DEF Forget, MailTypeOK, NoCall
  <2>5. QED
    BY <1>1, <2>3, <2>4 DEF TaskInd, Busy
<1>4. ASSUME NEW to \in Batches[c], CallMailer(c, to) PROVE TaskTypeOK' /\ TaskInd'
  <2>1. SendMail(c, to) /\ Become(c, "mailing")
    BY <1>4 DEF CallMailer
  <2>2. TaskTypeOK' /\ task'[c] = "mailing" /\ \A h \in Goroutines : h # c => task'[h] = task[h]
    BY <1>1, <2>1, BecomeFacts, ZenonT(30)
  <2>3. /\ ctxDone' = ctxDone /\ \A d \in Callers : d # c => call'[d] = call[d]
        /\ call'[c].st = "queueing" \/ (call'[c].st = "returned" /\ ~call'[c].gaveUp)
    BY <2>1 DEF SendMail, MailTypeOK, Returned
  <2>4. QED
    BY <1>1, <2>2, <2>3 DEF TaskInd, Busy
<1>5. QED
  BY <1>2, <1>3, <1>4

----------------------------------------------------------------------------
(* Start-up: the order of Run and of its closers.                          *)

(* The closers of each service, when all are deferred.                     *)
Stack == [s \in Services |->
    CASE s = "notifier"     -> <<"mailer", "pool", "broker", "consumers">>
      [] s = "scanner"      -> <<"redis", "pool", "broker", "consumers">>
      [] s = "saga"         -> <<"pool", "broker", "compensator", "consumers">>
      [] s = "subscription" -> <<"pool", "redis", "broker", "consumers">>]

(* How many there are before each step of Run, and after the last.         *)
Height == [s \in Services |->
    CASE s = "notifier"     -> <<0, 1, 1, 2, 2, 3, 3, 3, 4, 4>>
      [] s = "scanner"      -> <<0, 1, 1, 2, 2, 3, 3, 4, 4>>
      [] s = "saga"         -> <<0, 0, 1, 1, 2, 2, 3, 4, 4>>
      [] s = "subscription" -> <<0, 0, 1, 2, 2, 3, 3, 4, 4, 4>>]

Resources == {"mailer", "pool", "redis", "compensator", "broker", "consumers"}
Opening == {"mailer", "pool", "redis", "compensator"}
LastDurable(s) == Durables[s][Len(Durables[s])]
NextStep(s, i) == IF i < Len(Plan[s]) THEN Plan[s][i + 1] ELSE "end"

(* Step i is x, the next one y; before it there are h closers, after it k. *)
RowFits(s, i, x, y, h, k) ==
    /\ h \in 0..4 /\ k \in 0..4
    /\ x \in Opening => h < 3 /\ Stack[s][h + 1] = x /\ k = h + 1
    /\ x = "stream" => h < 3 /\ Stack[s][h + 1] = "broker" /\ k = h + 1
    /\ x = LastDurable(s) => h = 3 /\ k = 4 /\ x \in {"events", "release"}
    /\ x \in Opening \cup {"stream", LastDurable(s)} \/ k = h
    /\ x = "connect" <=> y = "stream"
    /\ x = "loops" <=> i = Len(Plan[s])
    /\ x = "loops" => k = 4
    /\ x \in Handlers[s] => x = LastDurable(s) \/ y = "release"
    /\ x = "release" => x = LastDurable(s) /\ x \in Handlers[s]
    /\ x = "mailer" <=> s = "notifier" /\ i = 1

PlanFits(s) ==
    /\ Len(Plan[s]) \in Nat \ {0} /\ Height[s][1] = 0 /\ Plan[s][1] # "stream"
    /\ \A i \in 1..Len(Plan[s]) :
          RowFits(s, i, Plan[s][i], NextStep(s, i), Height[s][i], Height[s][i + 1])

(* Run of the notifier.                                                    *)
LEMMA NotifierPlan ==
    ASSUME NEW s, s = "notifier"
    PROVE  PlanFits(s)
<1>1. Handlers[s] = {"events", "release"} /\ LastDurable(s) = "release"
  <2>1. Durables[s] = <<"events", "release">>
    BY DEF Durables, Services
  <2>2. QED
    BY <2>1 DEF Handlers, Services, Elements, LastDurable
<1>2. Plan[s] = <<"mailer", "migrate", "pool", "connect", "stream", "streams", "events", "release", "loops">>
  BY DEF Plan, Services
<1>3. Stack[s] = <<"mailer", "pool", "broker", "consumers">>
  BY DEF Stack, Services
<1>4. Height[s] = <<0, 1, 1, 2, 2, 3, 3, 3, 4, 4>>
  BY DEF Height, Services
<1>5. /\ Stack[s][1] = "mailer" /\ Stack[s][2] = "pool" /\ Stack[s][3] = "broker"
      /\ Len(Plan[s]) = 9 /\ Height[s][1] = 0 /\ Plan[s][1] = "mailer"
  BY <1>2, <1>3, <1>4
<1>6. ASSUME NEW i \in 1..9, NEW x, x = Plan[s][i], NEW y, y = NextStep(s, i),
             NEW h, h = Height[s][i], NEW k, k = Height[s][i + 1]
      PROVE  RowFits(s, i, x, y, h, k)
  <2>1. \/ i = 1 /\ x = "mailer" /\ y = "migrate" /\ h = 0 /\ k = 1
        \/ i = 2 /\ x = "migrate" /\ y = "pool" /\ h = 1 /\ k = 1
        \/ i = 3 /\ x = "pool" /\ y = "connect" /\ h = 1 /\ k = 2
        \/ i = 4 /\ x = "connect" /\ y = "stream" /\ h = 2 /\ k = 2
        \/ i = 5 /\ x = "stream" /\ y = "streams" /\ h = 2 /\ k = 3
        \/ i = 6 /\ x = "streams" /\ y = "events" /\ h = 3 /\ k = 3
        \/ i = 7 /\ x = "events" /\ y = "release" /\ h = 3 /\ k = 3
        \/ i = 8 /\ x = "release" /\ y = "loops" /\ h = 3 /\ k = 4
        \/ i = 9 /\ x = "loops" /\ y = "end" /\ h = 4 /\ k = 4
    BY <1>2, <1>4, <1>5, <1>6, SMTT(20) DEF NextStep
  <2>2. QED
    BY <1>1, <1>5, <2>1 DEF RowFits, Opening
<1>7. QED
  BY <1>5, <1>6 DEF PlanFits

(* Run of the scanner.                                                     *)
LEMMA ScannerPlan ==
    ASSUME NEW s, s = "scanner"
    PROVE  PlanFits(s)
<1>1. Handlers[s] = {"events"} /\ LastDurable(s) = "events"
  <2>1. Durables[s] = <<"events">>
    BY DEF Durables, Services
  <2>2. QED
    BY <2>1 DEF Handlers, Services, Elements, LastDurable
<1>2. Plan[s] = <<"redis", "migrate", "pool", "connect", "stream", "streams", "events", "loops">>
  BY DEF Plan, Services
<1>3. Stack[s] = <<"redis", "pool", "broker", "consumers">>
  BY DEF Stack, Services
<1>4. Height[s] = <<0, 1, 1, 2, 2, 3, 3, 4, 4>>
  BY DEF Height, Services
<1>5. /\ Stack[s][1] = "redis" /\ Stack[s][2] = "pool" /\ Stack[s][3] = "broker"
      /\ Len(Plan[s]) = 8 /\ Height[s][1] = 0 /\ Plan[s][1] = "redis"
  BY <1>2, <1>3, <1>4
<1>6. ASSUME NEW i \in 1..8, NEW x, x = Plan[s][i], NEW y, y = NextStep(s, i),
             NEW h, h = Height[s][i], NEW k, k = Height[s][i + 1]
      PROVE  RowFits(s, i, x, y, h, k)
  <2>1. \/ i = 1 /\ x = "redis" /\ y = "migrate" /\ h = 0 /\ k = 1
        \/ i = 2 /\ x = "migrate" /\ y = "pool" /\ h = 1 /\ k = 1
        \/ i = 3 /\ x = "pool" /\ y = "connect" /\ h = 1 /\ k = 2
        \/ i = 4 /\ x = "connect" /\ y = "stream" /\ h = 2 /\ k = 2
        \/ i = 5 /\ x = "stream" /\ y = "streams" /\ h = 2 /\ k = 3
        \/ i = 6 /\ x = "streams" /\ y = "events" /\ h = 3 /\ k = 3
        \/ i = 7 /\ x = "events" /\ y = "loops" /\ h = 3 /\ k = 4
        \/ i = 8 /\ x = "loops" /\ y = "end" /\ h = 4 /\ k = 4
    BY <1>2, <1>4, <1>5, <1>6, SMTT(20) DEF NextStep
  <2>2. QED
    BY <1>1, <1>5, <2>1 DEF RowFits, Opening
<1>7. QED
  BY <1>5, <1>6 DEF PlanFits

(* Run of the saga orchestrator.                                           *)
LEMMA SagaPlan ==
    ASSUME NEW s, s = "saga"
    PROVE  PlanFits(s)
<1>1. Handlers[s] = {"events"} /\ LastDurable(s) = "events"
  <2>1. Durables[s] = <<"events">>
    BY DEF Durables, Services
  <2>2. QED
    BY <2>1 DEF Handlers, Services, Elements, LastDurable
<1>2. Plan[s] = <<"migrate", "pool", "connect", "stream", "streams", "compensator", "events", "loops">>
  BY DEF Plan, Services
<1>3. Stack[s] = <<"pool", "broker", "compensator", "consumers">>
  BY DEF Stack, Services
<1>4. Height[s] = <<0, 0, 1, 1, 2, 2, 3, 4, 4>>
  BY DEF Height, Services
<1>5. /\ Stack[s][1] = "pool" /\ Stack[s][2] = "broker" /\ Stack[s][3] = "compensator"
      /\ Len(Plan[s]) = 8 /\ Height[s][1] = 0 /\ Plan[s][1] = "migrate"
  BY <1>2, <1>3, <1>4
<1>6. ASSUME NEW i \in 1..8, NEW x, x = Plan[s][i], NEW y, y = NextStep(s, i),
             NEW h, h = Height[s][i], NEW k, k = Height[s][i + 1]
      PROVE  RowFits(s, i, x, y, h, k)
  <2>1. \/ i = 1 /\ x = "migrate" /\ y = "pool" /\ h = 0 /\ k = 0
        \/ i = 2 /\ x = "pool" /\ y = "connect" /\ h = 0 /\ k = 1
        \/ i = 3 /\ x = "connect" /\ y = "stream" /\ h = 1 /\ k = 1
        \/ i = 4 /\ x = "stream" /\ y = "streams" /\ h = 1 /\ k = 2
        \/ i = 5 /\ x = "streams" /\ y = "compensator" /\ h = 2 /\ k = 2
        \/ i = 6 /\ x = "compensator" /\ y = "events" /\ h = 2 /\ k = 3
        \/ i = 7 /\ x = "events" /\ y = "loops" /\ h = 3 /\ k = 4
        \/ i = 8 /\ x = "loops" /\ y = "end" /\ h = 4 /\ k = 4
    BY <1>2, <1>4, <1>5, <1>6, SMTT(20) DEF NextStep
  <2>2. QED
    BY <1>1, <1>5, <2>1 DEF RowFits, Opening
<1>7. QED
  BY <1>5, <1>6 DEF PlanFits

(* Run of the subscription service.                                        *)
LEMMA SubscriptionPlan ==
    ASSUME NEW s, s = "subscription"
    PROVE  PlanFits(s)
<1>1. Handlers[s] = {"events"} /\ LastDurable(s) = "events"
  <2>1. Durables[s] = <<"events">>
    BY DEF Durables, Services
  <2>2. QED
    BY <2>1 DEF Handlers, Services, Elements, LastDurable
<1>2. Plan[s] = <<"migrate", "pool", "redis", "connect", "stream", "streams", "events", "servers", "loops">>
  BY DEF Plan, Services
<1>3. Stack[s] = <<"pool", "redis", "broker", "consumers">>
  BY DEF Stack, Services
<1>4. Height[s] = <<0, 0, 1, 2, 2, 3, 3, 4, 4, 4>>
  BY DEF Height, Services
<1>5. /\ Stack[s][1] = "pool" /\ Stack[s][2] = "redis" /\ Stack[s][3] = "broker"
      /\ Len(Plan[s]) = 9 /\ Height[s][1] = 0 /\ Plan[s][1] = "migrate"
  BY <1>2, <1>3, <1>4
<1>6. ASSUME NEW i \in 1..9, NEW x, x = Plan[s][i], NEW y, y = NextStep(s, i),
             NEW h, h = Height[s][i], NEW k, k = Height[s][i + 1]
      PROVE  RowFits(s, i, x, y, h, k)
  <2>1. \/ i = 1 /\ x = "migrate" /\ y = "pool" /\ h = 0 /\ k = 0
        \/ i = 2 /\ x = "pool" /\ y = "redis" /\ h = 0 /\ k = 1
        \/ i = 3 /\ x = "redis" /\ y = "connect" /\ h = 1 /\ k = 2
        \/ i = 4 /\ x = "connect" /\ y = "stream" /\ h = 2 /\ k = 2
        \/ i = 5 /\ x = "stream" /\ y = "streams" /\ h = 2 /\ k = 3
        \/ i = 6 /\ x = "streams" /\ y = "events" /\ h = 3 /\ k = 3
        \/ i = 7 /\ x = "events" /\ y = "servers" /\ h = 3 /\ k = 4
        \/ i = 8 /\ x = "servers" /\ y = "loops" /\ h = 4 /\ k = 4
        \/ i = 9 /\ x = "loops" /\ y = "end" /\ h = 4 /\ k = 4
    BY <1>2, <1>4, <1>5, <1>6 DEF NextStep
  <2>2. QED
    BY <1>1, <1>5, <2>1 DEF RowFits, Opening
<1>7. QED
  BY <1>5, <1>6 DEF PlanFits

(* So all do.                                                              *)
LEMMA PlansFit ==
    ASSUME NEW s \in Services
    PROVE  PlanFits(s)
BY NotifierPlan, ScannerPlan, SagaPlan, SubscriptionPlan, ZenonT(30) DEF Services

(* A stack has what the service needs, each once, and the consumers above. *)
LEMMA StackFacts ==
    ASSUME NEW s \in Services
    PROVE  /\ \A k \in 1..4 : Stack[s][k] \in Resources
           /\ Stack[s][4] = "consumers"
           /\ \A k \in 1..3 : Stack[s][k] # "consumers" /\ Stack[s][k] \in Needed[s]
           /\ \A k, l \in 1..4 : Stack[s][k] = Stack[s][l] => k = l
           /\ \A r \in Needed[s] : \E k \in 1..3 : Stack[s][k] = r
<1>1. CASE s = "notifier"
  <2>1. Stack[s] = <<"mailer", "pool", "broker", "consumers">> /\ Needed[s] = {"mailer", "pool", "broker"}
    BY <1>1 DEF Stack, Needed, Services
  <2>2. QED
    BY <2>1 DEF Resources
<1>2. CASE s = "scanner"
  <2>1. Stack[s] = <<"redis", "pool", "broker", "consumers">> /\ Needed[s] = {"redis", "pool", "broker"}
    BY <1>2 DEF Stack, Needed, Services
  <2>2. QED
    BY <2>1 DEF Resources
<1>3. CASE s = "saga"
  <2>1. Stack[s] = <<"pool", "broker", "compensator", "consumers">> /\ Needed[s] = {"pool", "broker", "compensator"}
    BY <1>3 DEF Stack, Needed, Services
  <2>2. QED
    BY <2>1 DEF Resources
<1>4. CASE s = "subscription"
  <2>1. Stack[s] = <<"pool", "redis", "broker", "consumers">> /\ Needed[s] = {"pool", "redis", "broker"}
    BY <1>4 DEF Stack, Needed, Services
  <2>2. QED
    BY <2>1 DEF Resources
<1>5. QED
  BY <1>1, <1>2, <1>3, <1>4 DEF Services

----------------------------------------------------------------------------
(* The resources under the lowest h closers.                               *)
Below(s, h) == {Stack[s][k] : k \in 1..h} \ {"consumers"}

(* Between the two halves of ConnectBroker the broker has no closer yet.   *)
Connecting == main = "starting" /\ Step = "stream"

StackInd ==
    /\ service \in Services
    /\ at \in 1..Len(Plan[service]) + 1
    /\ main \in {"starting", "serving", "awaiting", "unwinding", "pool", "mailer", "exited"}
    /\ closers \in Seq(Resources) /\ Len(closers) <= 4
    /\ \A k \in 1..Len(closers) : closers[k] = Stack[service][k]
    /\ main = "starting" => ~Started /\ Len(closers) = Height[service][at]
    /\ main \in {"serving", "awaiting"} => Started /\ Len(closers) = 4
    /\ opened = Below(service, Len(closers)) \cup (IF Connecting THEN {"broker"} ELSE {})
    /\ consuming \subseteq Handlers[service]
    /\ consuming # {} => Len(closers) = 4 \/ (main = "starting" /\ Step = "release")
    /\ main = "exited" => closers = <<>>

(* A closer is deferred, ...                                               *)
LEMMA Pushed ==
    ASSUME NEW S, NEW c \in Seq(S), NEW r \in S, NEW d, d = c \o <<r>>
    PROVE  d \in Seq(S) /\ Len(d) = Len(c) + 1 /\ d[Len(c) + 1] = r /\ \A k \in 1..Len(c) : d[k] = c[k]
OBVIOUS

(* ... or none is, ...                                                     *)
LEMMA NotPushed ==
    ASSUME NEW S, NEW c \in Seq(S)
    PROVE  c \o <<>> = c
OBVIOUS

(* ... and the last one is run.                                            *)
LEMMA Prefix ==
    ASSUME NEW S, NEW c \in Seq(S), NEW m \in 0..Len(c)
    PROVE  SubSeq(c, 1, m) \in Seq(S) /\ Len(SubSeq(c, 1, m)) = m /\ \A k \in 1..m : SubSeq(c, 1, m)[k] = c[k]
OBVIOUS

(* That leaves the others as they are.                                     *)
LEMMA Popped ==
    ASSUME NEW S, NEW c \in Seq(S), c # <<>>, NEW d, d = SubSeq(c, 1, Len(c) - 1)
    PROVE  /\ Len(c) \in Nat \ {0} /\ c[Len(c)] \in S
           /\ d \in Seq(S) /\ Len(d) = Len(c) - 1 /\ \A k \in 1..Len(d) : d[k] = c[k]
<1>1. Len(c) \in Nat \ {0} /\ c[Len(c)] \in S
  OBVIOUS
<1>2. Len(c) - 1 \in 0..Len(c)
  BY <1>1
<1>3. QED
  BY <1>1, <1>2, Prefix, Zenon

(* A resource is added to those below when its closer is pushed, ...       *)
LEMMA BelowNext ==
    ASSUME NEW s \in Services, NEW h \in 0..3
    PROVE  Below(s, h + 1) = Below(s, h) \cup (IF h = 3 THEN {} ELSE {Stack[s][h + 1]})
<1>1. 1..(h + 1) = 1..h \cup {h + 1}
  OBVIOUS
<1>2. {Stack[s][k] : k \in 1..(h + 1)} = {Stack[s][k] : k \in 1..h} \cup {Stack[s][h + 1]}
  BY <1>1
<1>3. h = 3 <=> Stack[s][h + 1] = "consumers"
  BY StackFacts
<1>4. QED
  BY <1>2, <1>3 DEF Below

(* ... and was not among them before.                                      *)
LEMMA NotBelow ==
    ASSUME NEW s \in Services, NEW h \in 0..3
    PROVE  Stack[s][h + 1] \notin Below(s, h)
<1>1. \A k \in 1..h : Stack[s][k] # Stack[s][h + 1]
  BY StackFacts
<1>2. QED
  BY <1>1 DEF Below

(* Below three closers is everything the service needs.                    *)
LEMMA BelowNeeded ==
    ASSUME NEW s \in Services, NEW h \in 0..4
    PROVE  /\ Below(s, h) \subseteq Needed[s]
           /\ h >= 3 => Below(s, h) = Needed[s]
           /\ h = 0 => Below(s, h) = {}
<1>1. \A k \in 1..h : k \in 1..3 \/ Stack[s][k] = "consumers"
  BY StackFacts
<1>2. Below(s, h) \subseteq Needed[s]
  BY <1>1, StackFacts DEF Below
<1>3. h >= 3 => 1..3 \subseteq 1..h
  OBVIOUS
<1>4. h >= 3 => Needed[s] \subseteq Below(s, h)
  <2>1. SUFFICES ASSUME h >= 3, NEW r \in Needed[s] PROVE r \in Below(s, h)
    OBVIOUS
  <2>2. PICK k \in 1..3 : Stack[s][k] = r
    BY StackFacts
  <2>3. k \in 1..h /\ r # "consumers"
    BY <1>3, <2>1, <2>2, StackFacts
  <2>4. QED
    BY <2>2, <2>3 DEF Below
<1>5. h = 0 => 1..h = {}
  OBVIOUS
<1>6. QED
  BY <1>2, <1>4, <1>5 DEF Below

(* What a row says of each kind of step.                                   *)
RowKinds(s, x, y, h, k) ==
    /\ h \in 0..4 /\ k \in 0..4
    /\ x \in Opening =>
          h \in 0..2 /\ Stack[s][h + 1] = x /\ k = h + 1 /\ x \notin {"stream", "connect"} /\ y # "stream"
    /\ x = "stream" =>
          h \in 0..2 /\ Stack[s][h + 1] = "broker" /\ k = h + 1 /\ x \notin Opening /\ y # "stream"
    /\ x = LastDurable(s) =>
          h = 3 /\ k = h + 1 /\ x \notin Opening /\ x \notin {"stream", "connect"} /\ y # "stream"
    /\ x = "connect" => k = h /\ y = "stream" /\ x \notin Opening
    /\ x \notin Opening /\ x # "stream" /\ x # LastDurable(s) => k = h
    /\ x \notin Opening /\ x # "stream" /\ x # "connect" => y # "stream"

(* From the row.                                                           *)
LEMMA RowFacts ==
    ASSUME NEW s, NEW i, NEW x, NEW y, NEW h, NEW k, RowFits(s, i, x, y, h, k)
    PROVE  RowKinds(s, x, y, h, k)
BY DEF RowFits, RowKinds, Opening

(* The number of closers, and what is open.                                *)
LEMMA StackHeight ==
    ASSUME StackInd
    PROVE  service \in Services /\ Len(closers) \in 0..4 /\ Below(service, Len(closers)) \subseteq opened
<1>1. closers \in Seq(Resources) /\ Len(closers) <= 4
  BY DEF StackInd
<1>2. Len(closers) \in 0..4
  <2>1. PICK n : n = Len(closers)
    BY Zenon
  <2>2. n \in Nat /\ n <= 4
    BY <1>1, <2>1
  <2>3. n \in 0..4
    BY <2>2
  <2>4. QED
    BY <2>1, <2>3, Zenon
<1>3. QED
  BY <1>2, Zenon DEF StackInd

(* What a step of Run opens and defers.                                    *)
Opens(x) == CASE x \in Opening -> {x}
              [] x = "connect" -> {"broker"}
              [] OTHER -> {}

Defers(s, x) == CASE x \in Opening -> <<x>>
                  [] x = "stream" -> <<"broker">>
                  [] x = LastDurable(s) -> <<"consumers">>
                  [] OTHER -> <<>>

(* The closers are the lowest h of the stack.                              *)
Follows(s, c, h) == c \in Seq(Resources) /\ Len(c) = h /\ \A j \in 1..h : c[j] = Stack[s][j]

(* It pushes the next closer of the stack or none, ...                     *)
LEMMA StartPushes ==
    ASSUME NEW s \in Services, NEW x, NEW y, NEW h, NEW k, RowKinds(s, x, y, h, k),
           NEW c, Follows(s, c, h)
    PROVE  Follows(s, c \o Defers(s, x), k)
<1> PICK d : d = c \o Defers(s, x)
  BY Zenon
<1>1. c \in Seq(Resources) /\ Len(c) = h /\ \A j \in 1..h : c[j] = Stack[s][j]
  BY DEF Follows
<1>2. CASE k = h + 1
  <2>1. h \in 0..3 /\ Stack[s][h + 1] \in Resources
    <3>1. h + 1 \in 1..4
      BY <1>2 DEF RowKinds
    <3>2. QED
      BY <3>1, StackFacts DEF RowKinds
  <2>2. Defers(s, x) = <<Stack[s][h + 1]>>
    <3>1. CASE x \in Opening
      <4>1. Stack[s][h + 1] = x /\ x # "stream" /\ x # LastDurable(s)
        BY <3>1 DEF RowKinds
      <4>2. QED
        BY <3>1, <4>1 DEF Defers
    <3>2. CASE x = "stream"
      <4>1. Stack[s][h + 1] = "broker" /\ x \notin Opening /\ x # LastDurable(s)
        BY <3>2 DEF RowKinds
      <4>2. QED
        BY <3>2, <4>1 DEF Defers
    <3>3. CASE x = LastDurable(s)
      <4>1. h = 3 /\ x # "stream" /\ x \notin Opening
        BY <3>3 DEF RowKinds
      <4>2. Stack[s][h + 1] = "consumers"
        BY <4>1, StackFacts
      <4>3. QED
        BY <3>3, <4>1, <4>2 DEF Defers
    <3>4. QED
      BY <1>2, <3>1, <3>2, <3>3 DEF RowKinds
  <2>3. /\ d \in Seq(Resources) /\ Len(d) = h + 1 /\ d[h + 1] = Stack[s][h + 1]
        /\ \A j \in 1..h : d[j] = c[j]
    BY <1>1, <2>1, <2>2, Pushed
  <2>4. \A j \in 1..k : j \in 1..h \/ j = h + 1
    BY <1>2, <2>1
  <2>5. \A j \in 1..k : d[j] = Stack[s][j]
    BY <1>1, <2>3, <2>4
  <2>6. QED
    BY <1>2, <2>3, <2>5, ZenonT(30) DEF Follows
<1>3. CASE k # h + 1
  <2>1. x \notin Opening /\ x # "stream" /\ x # LastDurable(s) /\ k = h
    BY <1>3 DEF RowKinds
  <2>2. Defers(s, x) = <<>>
    BY <2>1 DEF Defers
  <2>3. d = c
    BY <1>1, <2>2, NotPushed
  <2>4. QED
    BY <2>1, <2>3
<1>4. QED
  BY <1>2, <1>3

(* ... and what is open is again what is below the closers.                *)
LEMMA StartOpens ==
    ASSUME NEW s \in Services, NEW x, NEW y, NEW h, NEW k, RowKinds(s, x, y, h, k)
    PROVE  Below(s, h) \cup (IF x = "stream" THEN {"broker"} ELSE {}) \cup Opens(x)
             = Below(s, k) \cup (IF y = "stream" THEN {"broker"} ELSE {})
<1>1. CASE x \in Opening
  <2>1. h \in 0..2 /\ Stack[s][h + 1] = x /\ k = h + 1 /\ x # "stream" /\ x # "connect" /\ y # "stream"
    BY <1>1 DEF RowKinds
  <2>2. Below(s, k) = Below(s, h) \cup {x}
    BY <2>1, BelowNext
  <2>3. QED
    BY <1>1, <2>1, <2>2 DEF Opens
<1>2. CASE x = "stream"
  <2>1. h \in 0..2 /\ Stack[s][h + 1] = "broker" /\ k = h + 1 /\ x \notin Opening /\ y # "stream"
    BY <1>2 DEF RowKinds
  <2>2. Below(s, k) = Below(s, h) \cup {Stack[s][h + 1]}
    BY <2>1, BelowNext
  <2>3. QED
    BY <1>2, <2>1, <2>2 DEF Opens
<1>3. CASE x = "connect"
  <2>1. k = h /\ y = "stream" /\ x \notin Opening
    BY <1>3 DEF RowKinds
  <2>2. QED
    BY <1>3, <2>1 DEF Opens
<1>4. CASE x \notin Opening /\ x # "stream" /\ x # "connect"
  <2>1. y # "stream"
    BY <1>4 DEF RowKinds
  <2>2. Below(s, k) = Below(s, h)
    <3>1. CASE x = LastDurable(s)
      <4>1. h = 3 /\ k = h + 1
        BY <3>1 DEF RowKinds
      <4>2. QED
        BY <4>1, BelowNext
    <3>2. CASE x # LastDurable(s)
      BY <1>4, <3>2 DEF RowKinds
    <3>3. QED
      BY <3>1, <3>2
  <2>3. QED
    BY <1>4, <2>1, <2>2 DEF Opens
<1>5. QED
  BY <1>1, <1>2, <1>3, <1>4

(* While Run starts it is at a row of its plan.                            *)
LEMMA AtRow ==
    ASSUME StackInd, main = "starting"
    PROVE  /\ service \in Services /\ at \in 1..Len(Plan[service]) /\ Len(Plan[service]) \in Nat
           /\ RowFits(service, at, Step, NextStep(service, at), Len(closers), Height[service][at + 1])
<1>1. service \in Services /\ PlanFits(service)
  BY PlansFit DEF StackInd
<1>2. at \in 1..Len(Plan[service]) /\ Len(Plan[service]) \in Nat /\ Len(closers) = Height[service][at]
  BY <1>1 DEF StackInd, Started, PlanFits
<1>3. QED
  BY <1>1, <1>2 DEF PlanFits, Step

(* The next step, if there is one.                                         *)
LEMMA StepAfter ==
    ASSUME StackInd, StartStep
    PROVE  /\ service' = service /\ at' = at + 1 /\ at' \in 1..Len(Plan[service]) + 1
           /\ main' = IF Step = "loops" THEN "serving" ELSE "starting"
           /\ Started' <=> Step = "loops"
           /\ Step # "loops" => Step' = NextStep(service, at)
           /\ Step = "loops" => NextStep(service, at) = "end"
<1>1. main = "starting" /\ service' = service /\ at' = at + 1
  BY DEF StartStep
<1>2. main' = IF Step = "loops" THEN "serving" ELSE "starting"
  BY <1>1 DEF StartStep
<1>3. at \in 1..Len(Plan[service]) /\ Len(Plan[service]) \in Nat /\ (Step = "loops" <=> at = Len(Plan[service]))
  BY <1>1, AtRow DEF RowFits
<1>4. Started' <=> at + 1 > Len(Plan[service])
  BY <1>1 DEF Started
<1>5. Step' = Plan[service][at + 1]
  BY <1>1 DEF Step
<1>6. QED
  BY <1>1, <1>2, <1>3, <1>4, <1>5 DEF NextStep

(* A step of Run keeps to the stack.                                       *)
LEMMA StartStack ==
    ASSUME StackInd, StartStep
    PROVE  StackInd'
<1>1. main = "starting" /\ service \in Services
  BY AtRow DEF StartStep
<1>2. RowFits(service, at, Step, NextStep(service, at), Len(closers), Height[service][at + 1])
  BY <1>1, AtRow
<1>3. RowKinds(service, Step, NextStep(service, at), Len(closers), Height[service][at + 1])
  BY <1>2, RowFacts, Zenon
<1>4. /\ closers' \in Seq(Resources) /\ Len(closers') = Height[service][at + 1]
      /\ \A j \in 1..Len(closers') : closers'[j] = Stack[service][j]
  <2>1. closers' = closers \o Defers(service, Step)
    BY Zenon DEF StartStep, Defers, LastDurable, Opening
  <2>2. Follows(service, closers, Len(closers))
    BY DEF StackInd, Follows
  <2>3. Follows(service, closers', Height[service][at + 1])
    BY <1>1, <1>3, <2>1, <2>2, StartPushes, Zenon
  <2>4. QED
    BY <2>3, Zenon DEF Follows
<1>5. opened' = Below(service, Len(closers')) \cup (IF Connecting' THEN {"broker"} ELSE {})
  <2>1. opened' = opened \cup Opens(Step)
    BY Zenon DEF StartStep, Opens, Opening
  <2>2. opened = Below(service, Len(closers)) \cup (IF Step = "stream" THEN {"broker"} ELSE {})
    BY <1>1 DEF StackInd, Connecting
  <2>3. opened' = Below(service, Len(closers')) \cup (IF NextStep(service, at) = "stream" THEN {"broker"} ELSE {})
    <3>1. Below(service, Len(closers)) \cup (IF Step = "stream" THEN {"broker"} ELSE {}) \cup Opens(Step)
            = Below(service, Height[service][at + 1])
                \cup (IF NextStep(service, at) = "stream" THEN {"broker"} ELSE {})
      BY <1>1, <1>3, StartOpens
    <3>2. QED
      BY <1>4, <2>1, <2>2, <3>1, Zenon
  <2>4. Connecting' <=> NextStep(service, at) = "stream"
    BY StepAfter DEF Connecting
  <2>5. QED
    BY <2>3, <2>4
<1>6. consuming' \subseteq Handlers[service]
  BY DEF StartStep, StackInd
<1>7. consuming' # {} => Len(closers') = 4 \/ (main' = "starting" /\ Step' = "release")
  <2>1. CASE Step \in Handlers[service]
    <3>1. Step = LastDurable(service) \/ NextStep(service, at) = "release"
      BY <1>2, <2>1 DEF RowFits
    <3>2. Step = LastDurable(service) => Height[service][at + 1] = 4
      BY <1>2 DEF RowFits
    <3>3. QED
      BY <1>4, <3>1, <3>2, StepAfter
  <2>2. CASE Step \notin Handlers[service]
    <3>1. consuming' = consuming
      BY <2>2 DEF StartStep
    <3>2. Step # "release"
      BY <1>2, <2>2 DEF RowFits
    <3>3. Len(closers) = 4 => Height[service][at + 1] = 4
      BY <1>3 DEF RowKinds
    <3>4. QED
      BY <1>4, <3>1, <3>2, <3>3 DEF StackInd
  <2>3. QED
    BY <2>1, <2>2
<1>8. Len(closers') <= 4 /\ (Step = "loops" => Len(closers') = 4)
  BY <1>2, <1>4 DEF RowFits
<1>9. QED
  <2>1. at' \in 1..Len(Plan[service']) + 1 /\ service' = service /\ at' = at + 1
    BY StepAfter
  <2>2. main' = "starting" => ~Started' /\ Len(closers') = Height[service'][at']
    BY <1>4, <2>1, StepAfter
  <2>3. /\ main' \in {"serving", "starting"}
        /\ main' = "serving" => Started' /\ Len(closers') = 4
    BY <1>8, StepAfter
  <2>4. QED
    BY <1>1, <1>4, <1>5, <1>6, <1>7, <1>8, <2>1, <2>2, <2>3 DEF StackInd

(* A step that fails leaves what is below the closers.                     *)
LEMMA FailStack ==
    ASSUME StackInd, StartFails
    PROVE  StackInd'
<1>1. /\ main = "starting" /\ main' = "unwinding" /\ UNCHANGED <<service, at, closers>>
      /\ opened' = OpenedAfterFailure /\ consuming' = ConsumingAfterFailure
  BY DEF StartFails
<1>2. service \in Services
  BY DEF StackInd
<1>3. RowFits(service, at, Step, NextStep(service, at), Len(closers), Height[service][at + 1])
  BY <1>1, AtRow
<1>4. opened' = Below(service, Len(closers))
  <2>1. CASE Step = "stream"
    <3>1. Len(closers) \in 0..3 /\ Stack[service][Len(closers) + 1] = "broker"
      <4>1. PICK h : h = Len(closers)
        BY Zenon
      <4>2. RowKinds(service, Step, NextStep(service, at), h, Height[service][at + 1])
        BY <1>3, <4>1, RowFacts, Zenon
      <4>3. h \in 0..2 /\ Stack[service][h + 1] = "broker"
        BY <2>1, <4>2, Zenon DEF RowKinds
      <4>4. QED
        BY <4>1, <4>3
    <3>2. "broker" \notin Below(service, Len(closers))
      BY <1>2, <3>1, NotBelow, Zenon
    <3>3. opened = Below(service, Len(closers)) \cup {"broker"}
      BY <1>1, <2>1 DEF StackInd, Connecting
    <3>4. QED
      BY <1>1, <2>1, <3>2, <3>3 DEF OpenedAfterFailure
  <2>2. CASE Step # "stream"
    BY <1>1, <2>2 DEF StackInd, Connecting, OpenedAfterFailure
  <2>3. QED
    BY <2>1, <2>2
<1>5. consuming' \subseteq consuming /\ (consuming' # {} => Len(closers) = 4)
  <2>1. Step = "release" => Step \in Handlers[service]
    BY <1>3 DEF RowFits
  <2>2. QED
    BY <1>1, <2>1 DEF StackInd, ConsumingAfterFailure
<1>6. ~Connecting'
  BY <1>1 DEF Connecting
<1>7. QED
  BY <1>1, <1>4, <1>5, <1>6 DEF StackInd, Started

(* The last closer is run.                                                 *)
LEMMA CloseStack ==
    ASSUME StackInd, Close
    PROVE  StackInd'
<1> PICK n : n = Len(closers)
  BY Zenon
<1>1. /\ service \in Services /\ closers \in Seq(Resources) /\ closers # <<>> /\ n <= 4
      /\ main = "unwinding" /\ opened = Below(service, n)
      /\ consuming \subseteq Handlers[service] /\ (consuming # {} => n = 4)
      /\ \A k \in 1..n : closers[k] = Stack[service][k]
  BY DEF Close, StackInd, Connecting
<1>2. closers' = SubSeq(closers, 1, Len(closers) - 1)
  BY DEF Close
<1>3. /\ n \in 1..4 /\ closers' \in Seq(Resources) /\ Len(closers') = n - 1
      /\ \A k \in 1..(n - 1) : closers'[k] = closers[k]
  BY <1>1, <1>2, Popped
<1>4. PICK r : r = closers[Len(closers)]
  OBVIOUS
<1>5. r = Stack[service][n]
  BY <1>1, <1>3, <1>4
<1>6. /\ opened' = opened \ {r} /\ consuming' = IF r = "consumers" THEN {} ELSE consuming
      /\ main' = IF r \in {"pool", "mailer"} THEN r ELSE main
      /\ UNCHANGED <<service, at>>
  BY <1>4, Zenon DEF Close
<1>7. main' \in {"pool", "mailer", "unwinding"}
  BY <1>1, <1>6
<1>8. opened' = Below(service, n - 1)
  <2>1. PICK h \in 0..3 : n = h + 1 /\ n - 1 = h
    BY <1>3
  <2>2. Below(service, n) = Below(service, h) \cup (IF h = 3 THEN {} ELSE {Stack[service][h + 1]})
    BY <1>1, <2>1, BelowNext
  <2>3. Stack[service][h + 1] \notin Below(service, h)
    BY <1>1, <2>1, NotBelow
  <2>4. QED
    BY <1>1, <1>5, <1>6, <2>1, <2>2, <2>3
<1>9. consuming' = {}
  <2>1. n = 4 => r = "consumers"
    BY <1>1, <1>5, StackFacts
  <2>2. QED
    BY <1>1, <1>6, <2>1
<1>10. \A k \in 1..Len(closers') : closers'[k] = Stack[service'][k]
  BY <1>1, <1>3, <1>6
<1>11. Len(closers') <= 4
  BY <1>3
<1>12. opened' = Below(service', Len(closers')) \cup (IF Connecting' THEN {"broker"} ELSE {})
  BY <1>3, <1>6, <1>7, <1>8 DEF Connecting
<1>13. QED
  BY <1>3, <1>6, <1>7, <1>9, <1>10, <1>11, <1>12 DEF StackInd

(* Run goes on to its next wait, the rest as it is.                        *)
RunTurns ==
    /\ UNCHANGED <<service, at, opened, closers, consuming>>
    /\ \/ main = "serving" /\ main' = "awaiting"
       \/ main \in {"awaiting", "pool", "mailer"} /\ main' = "unwinding"
       \/ main = "unwinding" /\ closers = <<>> /\ main' = "exited"
       \/ main' = main

(* It keeps the stack.                                                     *)
LEMMA TurnStack ==
    ASSUME StackInd, RunTurns
    PROVE  StackInd'
<1>1. (Connecting' <=> Connecting) /\ (Started' <=> Started) /\ Step' = Step
  BY DEF RunTurns, Connecting, Started, Step
<1>2. main' = "starting" <=> main = "starting"
  BY DEF RunTurns
<1>3. QED
  BY <1>1, <1>2 DEF RunTurns, StackInd

(* The steps by what they do to it.                                        *)
LEMMA StackFrame ==
    ASSUME [ProcNext]_vars
    PROVE  StartStep \/ StartFails \/ Close \/ RunTurns
<1>1. CASE ServeEnds \/ LoopsStopped \/ PoolClosed \/ MailerStopped \/ Exit
  BY <1>1 DEF ServeEnds, LoopsStopped, PoolClosed, MailerStopped, Exit, RunTurns
<1>2. ASSUME Signal \/ Dispatch \/ Gone \/ UNCHANGED vars PROVE RunTurns
  BY <1>2 DEF Signal, Dispatch, Gone, vars, procVars, RunTurns
<1>3. ASSUME NEW g \in Goroutines, Work(g) PROVE RunTurns
  BY <1>3 DEF Work, Begin, BeginTx, EndTx, Return, LoopEnds, Become, RunTurns
<1>4. ASSUME NEW c \in Callers, MailWork(c) PROVE RunTurns
  BY <1>4, Zenon DEF MailWork, MailCall, Record, Recorded, CallMailer, Become, procVars, RunTurns
<1>5. QED
  BY <1>1, <1>2, <1>3, <1>4, Zenon DEF ProcNext, Run

(* Every step keeps the stack.                                             *)
LEMMA StackStep ==
    ASSUME StackInd, [ProcNext]_vars
    PROVE  StackInd'
BY StackFrame, StartStack, FailStack, CloseStack, TurnStack, Zenon

----------------------------------------------------------------------------
(* The loops.                                                              *)

(* Before start-up is over no loop runs; after gracefulShutdown those it   *)
(* waits for have ended; after the exit there is nobody.                   *)
LoopInd ==
    /\ timedOut \in BOOLEAN
    /\ ~Started => \A g \in Loops[service] : task[g] = "idle"
    /\ Started /\ main \notin {"serving", "awaiting", "exited"} => \A g \in Awaited[service] : task[g] = "ended"
    /\ main = "exited" => \A g \in Goroutines : task[g] = "idle"

(* Loops and handlers are different goroutines.                            *)
LEMMA LoopFacts ==
    ASSUME NEW s \in Services
    PROVE  /\ Awaited[s] \subseteq Loops[s] /\ Loops[s] \subseteq {"ticker", "relay"}
           /\ Handlers[s] \subseteq {"events", "release"}
<1>1. Awaited[s] \subseteq {"ticker", "relay"} /\ Unawaited[s] \subseteq {"ticker", "relay"}
  BY DEF Awaited, Unawaited, Services
<1>2. Handlers[s] = Elements(Durables[s])
  BY DEF Handlers
<1>3. Durables[s] = <<"events", "release">> \/ Durables[s] = <<"events">>
  BY DEF Durables
<1>4. /\ Elements(<<"events", "release">>) \subseteq {"events", "release"}
      /\ Elements(<<"events">>) \subseteq {"events", "release"}
  BY DEF Elements
<1>5. QED
  BY <1>1, <1>2, <1>3, <1>4, Zenon DEF Loops

(* A goroutine takes its next step.                                        *)
LEMMA LoopBecomes ==
    ASSUME StackInd, TaskTypeOK, LoopInd, main # "exited", NEW g \in Goroutines, NEW st,
           st \in {"idle", "working", "tx", "mailing", "recording", "ended"}, Become(g, st),
           task[g] # "ended", task[g] = "idle" => Started \/ g \notin Loops[service]
    PROVE  LoopInd'
<1>1. task'[g] = st /\ \A h \in Goroutines : h # g => task'[h] = task[h]
  BY BecomeFacts
<1>2. UNCHANGED <<service, main, at, timedOut>> /\ (Started' <=> Started)
  BY DEF Become, Started
<1>3. Awaited[service] \subseteq Goroutines /\ Loops[service] \subseteq Goroutines
  BY LoopFacts DEF StackInd, Goroutines
<1>4. ~Started => g \notin Loops[service]
  BY DEF LoopInd
<1>5. Started /\ main \notin {"serving", "awaiting", "exited"} => g \notin Awaited[service]
  BY DEF LoopInd
<1>6. QED
  BY <1>1, <1>2, <1>3, <1>4, <1>5, Zenon DEF LoopInd

(* Handlers, loops and requests.                                           *)
LEMMA WorkLoop ==
    ASSUME StackInd, TaskTypeOK, LoopInd, NEW g \in Goroutines, Work(g)
    PROVE  LoopInd'
<1>1. \E st \in {"idle", "working", "tx", "ended"} : Become(g, st)
  BY DEF Work, Begin, BeginTx, EndTx, Return, LoopEnds
<1>2. PICK st \in {"idle", "working", "tx", "ended"} : Become(g, st)
  BY <1>1
<1>3. main # "exited" /\ task[g] # "ended"
  BY DEF Work, Begin, BeginTx, EndTx, Return, LoopEnds, Alive
<1>4. task[g] = "idle" => Started \/ g \notin Loops[service]
  <2>1. service \in Services /\ consuming \subseteq Handlers[service]
    BY DEF StackInd
  <2>2. g \in consuming \/ g = "request" => g \notin Loops[service]
    BY <2>1, LoopFacts
  <2>3. QED
    BY <2>2, SMTT(20) DEF Work, Begin, BeginTx, EndTx, Return, LoopEnds
<1>5. QED
  BY <1>2, <1>3, <1>4, LoopBecomes

(* Goroutines that send mail.                                              *)
LEMMA MailLoop ==
    ASSUME StackInd, TaskTypeOK, LoopInd, NEW c \in Callers, MailWork(c)
    PROVE  LoopInd'
<1>1. CASE MailCall(c)
  BY <1>1 DEF MailCall, procVars, LoopInd, Started
<1>2. CASE Record(c) \/ Recorded(c) \/ \E to \in Batches[c] : CallMailer(c, to)
  <2>1. c \in Goroutines
    BY SendersOfMail, Zenon DEF Goroutines
  <2>2. \E st \in {"idle", "working", "mailing", "recording"} : Become(c, st)
    BY <1>2, Zenon DEF Record, Recorded, CallMailer
  <2>3. PICK st \in {"idle", "working", "mailing", "recording"} : Become(c, st)
    BY <2>2, Zenon
  <2>4. main # "exited" /\ task[c] \notin {"idle", "ended"}
    BY <1>2, Zenon DEF Record, Recorded, CallMailer, Alive
  <2>5. QED
    BY <2>1, <2>3, <2>4, LoopBecomes
<1>3. QED
  BY <1>1, <1>2 DEF MailWork

(* Every step keeps the loops within serving.                              *)
LEMMA LoopStep ==
    ASSUME StackInd, TaskTypeOK, LoopInd, [ProcNext]_vars
    PROVE  LoopInd'
<1>1. CASE StartStep
  <2>1. main = "starting" /\ UNCHANGED <<service, timedOut>> /\ (Step # "loops" => task' = task)
    BY <1>1 DEF StartStep
  <2>2. ~Started
    BY <2>1 DEF StackInd
  <2>3. main' = (IF Step = "loops" THEN "serving" ELSE "starting") /\ (Started' <=> Step = "loops")
    BY <1>1, StepAfter
  <2>4. QED
    BY <2>1, <2>2, <2>3 DEF LoopInd
<1>2. CASE StartFails
  <2>1. ~Started /\ ~Started' /\ main' = "unwinding" /\ UNCHANGED <<service, task, timedOut>>
    BY <1>2 DEF StartFails, StackInd, Started
  <2>2. QED
    BY <2>1 DEF LoopInd
<1>3. CASE Exit
  <2>1. main' = "exited" /\ UNCHANGED timedOut /\ \A g \in Goroutines : task'[g] = "idle"
    BY <1>3 DEF Exit
  <2>2. Loops[service'] \subseteq Goroutines
    BY <1>3, LoopFacts DEF Exit, StackInd, Goroutines
  <2>3. QED
    BY <2>1, <2>2 DEF LoopInd
<1>4. CASE ServeEnds
  BY <1>4 DEF ServeEnds, LoopInd, Started
<1>5. CASE LoopsStopped
  BY <1>5 DEF LoopsStopped, LoopsEnded, LoopInd, Started
<1>6. CASE Close
  <2>1. main = "unwinding" /\ main' \in {"unwinding", "pool", "mailer"} /\ UNCHANGED <<service, at, task, timedOut>>
    BY <1>6 DEF Close
  <2>2. QED
    BY <2>1 DEF LoopInd, Started
<1>7. CASE PoolClosed \/ MailerStopped
  <2>1. /\ main \in {"pool", "mailer"} /\ main' = "unwinding" /\ UNCHANGED <<service, at, task>>
        /\ timedOut' = timedOut \/ timedOut' = TRUE
    BY <1>7 DEF PoolClosed, MailerStopped
  <2>2. QED
    BY <2>1, Zenon DEF LoopInd, Started
<1>8. CASE Signal \/ Dispatch \/ Gone \/ UNCHANGED vars
  <2>1. UNCHANGED procVars
    BY <1>8 DEF Signal, Dispatch, Gone, vars
  <2>2. QED
    BY <2>1 DEF procVars, LoopInd, Started
<1>9. QED
  BY <1>1, <1>2, <1>3, <1>4, <1>5, <1>6, <1>7, <1>8, WorkLoop, MailLoop, ZenonT(30) DEF ProcNext, Run

----------------------------------------------------------------------------
(* Every step keeps the calls with their goroutines.                       *)
LEMMA TaskStep ==
    ASSUME MailTypeOK, TaskTypeOK, TaskInd, StackInd, LoopInd, [ProcNext]_vars
    PROVE  TaskTypeOK' /\ TaskInd'
<1>1. CASE task' = task /\ call' = call /\ ctxDone \subseteq ctxDone'
  BY <1>1, Zenon DEF TaskTypeOK, TaskInd, Busy
<1>2. CASE StartStep
  <2>1. UNCHANGED <<call, ctxDone>>
    BY <1>2 DEF StartStep, NewMailer, mailVars
  <2>2. CASE task' = task
    BY <1>1, <2>1, <2>2
  <2>3. CASE task' = [task EXCEPT !["ticker"] = "working"] /\ service \in {"scanner", "subscription"}
    <3>1. "ticker" \in Loops[service] /\ "ticker" \in Goroutines
      BY <2>3 DEF Loops, Awaited, Services, Goroutines
    <3>2. task["ticker"] = "idle"
      BY <1>2, <3>1 DEF StartStep, StackInd, LoopInd
    <3>3. TaskTypeOK' /\ task'["ticker"] = "working" /\ \A h \in Goroutines : h # "ticker" => task'[h] = task[h]
      BY <2>3, <3>1 DEF TaskTypeOK
    <3>4. QED
      BY <2>1, <3>1, <3>2, <3>3, TaskOnly
  <2>4. QED
    BY <1>2, <2>2, <2>3 DEF StartStep
<1>3. CASE Exit
  <2>1. /\ task' = [g \in Goroutines |-> "idle"]
        /\ \A c \in Callers : call'[c].st = "none"
    BY <1>3 DEF Exit, NoCall
  <2>2. Callers \subseteq Goroutines
    BY SendersOfMail, Zenon DEF Goroutines
  <2>3. QED
    BY <2>1, <2>2 DEF TaskTypeOK, TaskInd, Busy
<1>4. CASE StartFails \/ LoopsStopped \/ PoolClosed \/ MailerStopped
  BY <1>1, <1>4 DEF StartFails, LoopsStopped, PoolClosed, MailerStopped, mailVars
<1>5. CASE Close
  BY <1>1, <1>5 DEF Close, CloseJobs, mailVars
<1>6. CASE Signal \/ ServeEnds
  BY <1>1, <1>6 DEF Signal, ServeEnds, Cancel, procVars
<1>7. CASE Dispatch
  BY <1>1, <1>7 DEF Dispatch, procVars, Deliver, Take, DispatchEnds, Dial, DialFails, Delivered, Send
<1>8. CASE Gone \/ UNCHANGED vars
  BY <1>1, <1>8 DEF Gone, vars, procVars, mailVars
<1>9. ASSUME NEW g \in Goroutines, Work(g) PROVE TaskTypeOK' /\ TaskInd'
  BY <1>9, WorkTask
<1>10. ASSUME NEW c \in Callers, MailWork(c) PROVE TaskTypeOK' /\ TaskInd'
  BY <1>10, MailCallTask, CallerTask, Zenon DEF MailWork
<1>11. QED
  BY <1>2, <1>3, <1>4, <1>5, <1>6, <1>7, <1>8, <1>9, <1>10, Zenon DEF ProcNext, Run

----------------------------------------------------------------------------
(* The jobs at shutdown: there are some only while the mailer's goroutine  *)
(* runs, and it runs when the mailer has been opened and not shut down.    *)
DrainInd ==
    /\ ~dispatching => jobs = <<>> /\ worker = <<>>
    /\ service = "notifier" /\ at > 1 => dispatching \/ closed
    /\ service # "notifier" \/ at = 1 => ~dispatching
    /\ service = "notifier" /\ at = 1 => consuming = {} /\ \A g \in Goroutines : task[g] = "idle"
    /\ \A c \in Callers : Busy(c) => service = "notifier"
    /\ service = "notifier" /\ at > 1 /\ "mailer" \notin opened /\ main # "mailer" => timedOut \/ ~dispatching

(* Start-up is over only after its first step.                             *)
LEMMA StartedAfterOne ==
    ASSUME StackInd, Started
    PROVE  at # 1
BY PlansFit DEF StackInd, Started, PlanFits

(* A step of Run.                                                          *)
LEMMA StartDrain ==
    ASSUME MailTypeOK, StackInd, DrainInd, StartStep
    PROVE  DrainInd'
<1>1. /\ main = "starting" /\ service \in Services /\ at \in Nat /\ at >= 1
      /\ (Step = "mailer" <=> service = "notifier" /\ at = 1)
  BY AtRow DEF StartStep, RowFits
<1>2. service' = service /\ at' = at + 1 /\ main' # "mailer" /\ timedOut' = timedOut
  BY StepAfter DEF StartStep
<1>3. opened \subseteq opened' /\ (Step = "mailer" => "mailer" \in opened')
  BY DEF StartStep
<1>4. UNCHANGED <<jobs, worker, closed, call>>
  BY DEF StartStep, NewMailer, mailVars
<1>5. dispatching' = IF Step = "mailer" THEN TRUE ELSE dispatching
  BY Zenon DEF StartStep, NewMailer, mailVars
<1>6. at' > 1 /\ at' # 1
  BY <1>1, <1>2
<1>7. CASE Step = "mailer"
  BY <1>1, <1>2, <1>3, <1>4, <1>5, <1>6, <1>7 DEF DrainInd, Busy
<1>8. CASE Step # "mailer"
  <2>1. service = "notifier" => at > 1
    BY <1>1, <1>8
  <2>2. QED
    BY <1>1, <1>2, <1>3, <1>4, <1>5, <1>6, <1>8, <2>1 DEF DrainInd, Busy
<1>9. QED
  BY <1>7, <1>8

(* A goroutine that is not idle, or that may begin, runs after it.         *)
LEMMA BecomeDrain ==
    ASSUME MailTypeOK, TaskTypeOK, StackInd, DrainInd, NEW g \in Goroutines, NEW st,
           st \in {"idle", "working", "tx", "mailing", "recording", "ended"}, Become(g, st),
           UNCHANGED <<jobs, worker, dispatching, closed>>,
           task[g] = "idle" => Started \/ g \in consuming \/ service # "notifier",
           \A c \in Callers : Busy(c)' => Busy(c) \/ service = "notifier"
    PROVE  DrainInd'
<1>1. UNCHANGED <<service, main, at, opened, consuming, timedOut>>
  BY DEF Become
<1>2. ~(service = "notifier" /\ at = 1)
  BY StartedAfterOne DEF DrainInd
<1>3. QED
  BY <1>1, <1>2 DEF DrainInd

(* Handlers, loops and requests.                                           *)
LEMMA WorkDrain ==
    ASSUME MailTypeOK, TaskTypeOK, StackInd, DrainInd, NEW g \in Goroutines, Work(g)
    PROVE  DrainInd'
<1>1. \E st \in {"idle", "working", "tx", "ended"} : Become(g, st)
  BY DEF Work, Begin, BeginTx, EndTx, Return, LoopEnds
<1>2. PICK st \in {"idle", "working", "tx", "ended"} : Become(g, st)
  BY <1>1
<1>3. UNCHANGED <<jobs, worker, dispatching, closed, call>>
  BY Zenon DEF Work, Begin, BeginTx, EndTx, Return, LoopEnds, mailVars
<1>4. task[g] = "idle" => Started \/ g \in consuming \/ service # "notifier"
  BY DEF Work, Begin, BeginTx, EndTx, Return, LoopEnds
<1>5. \A c \in Callers : Busy(c)' => Busy(c)
  BY <1>3 DEF Busy
<1>6. QED
  BY <1>2, <1>3, <1>4, <1>5, BecomeDrain, SMTT(20)

(* Goroutines that send mail: a job is accepted only while the mailer runs.*)
LEMMA MailDrain ==
    ASSUME MailTypeOK, TaskTypeOK, TaskInd, StackInd, DrainInd, NEW c \in Callers, MailWork(c)
    PROVE  DrainInd'
<1>1. c \in Goroutines
  BY SendersOfMail DEF Goroutines
<1>2. CASE MailCall(c)
  <2>1. /\ UNCHANGED procVars /\ UNCHANGED <<worker, dispatching, closed>>
        /\ jobs' = jobs \/ Enqueue(c)
    BY <1>2, Zenon DEF MailCall, Enqueue, SendOnClosed, GiveUp, Receive
  <2>2. \A d \in Callers : Busy(d)' => Busy(d)
    <3>1. call[c].st # "none" \/ call' = call
      BY <1>2, Zenon DEF MailCall, Enqueue, SendOnClosed, GiveUp, Receive
    <3>2. \A d \in Callers : d # c => call'[d] = call[d]
      BY <1>2, Zenon DEF MailCall, Enqueue, SendOnClosed, GiveUp, Receive, MailTypeOK
    <3>3. QED
      BY <3>1, <3>2 DEF Busy
  <2>3. Enqueue(c) => dispatching
    <3>1. Enqueue(c) => Busy(c) /\ ~closed
      BY DEF Enqueue, Busy
    <3>2. Busy(c) => service = "notifier" /\ task[c] # "idle"
      BY DEF DrainInd, TaskInd
    <3>3. Busy(c) => service = "notifier" /\ at # 1
      BY <1>1, <3>2 DEF DrainInd
    <3>4. at # 1 => at > 1
      BY DEF StackInd
    <3>5. QED
      BY <3>1, <3>3, <3>4 DEF DrainInd
  <2>4. QED
    BY <2>1, <2>2, <2>3 DEF procVars, DrainInd
<1>3. CASE Record(c) \/ Recorded(c) \/ \E to \in Batches[c] : CallMailer(c, to)
  <2>1. \E st \in {"idle", "working", "mailing", "recording"} : Become(c, st)
    BY <1>3, Zenon DEF Record, Recorded, CallMailer
  <2>2. PICK st \in {"idle", "working", "mailing", "recording"} : Become(c, st)
    BY <2>1, Zenon
  <2>3. UNCHANGED <<jobs, worker, dispatching, closed>> /\ task[c] # "idle"
    BY <1>3, Zenon DEF Record, Recorded, CallMailer, Forget, SendMail, mailVars
  <2>4. \A d \in Callers : Busy(d)' => Busy(d) \/ service = "notifier"
    <3>1. CASE Record(c)
      BY <3>1 DEF Record, mailVars, Busy
    <3>2. CASE Recorded(c)
      BY <3>2, Zenon DEF Recorded, Forget, MailTypeOK, NoCall, Busy
    <3>3. ASSUME NEW to \in Batches[c], CallMailer(c, to) PROVE service = "notifier"
      BY <3>3, Zenon DEF CallMailer, Senders, StackInd
    <3>4. QED
      BY <1>3, <3>1, <3>2, <3>3, Zenon
  <2>5. QED
    BY <1>1, <2>2, <2>3, <2>4, BecomeDrain, Zenon
<1>4. QED
  BY <1>2, <1>3 DEF MailWork

(* The mailer's goroutine: it has jobs only while it runs, and ends when   *)
(* there are none.                                                         *)
LEMMA DispatchDrain ==
    ASSUME DrainInd, Dispatch
    PROVE  DrainInd'
<1>1. UNCHANGED procVars /\ UNCHANGED <<closed, call>>
  BY DEF Dispatch, Deliver, Take, DispatchEnds, Dial, DialFails, Delivered, Send
<1>2. dispatching /\ (dispatching' = dispatching \/ DispatchEnds)
  BY DEF Dispatch, Deliver, Take, DispatchEnds, Dial, DialFails, Delivered, Send, DrainInd
<1>3. CASE DispatchEnds
  <2>1. dispatching' = FALSE /\ jobs' = <<>> /\ worker' = <<>> /\ closed'
    BY <1>1, <1>3 DEF DispatchEnds
  <2>2. UNCHANGED <<service, main, at, opened, consuming, task, timedOut, call>>
    BY <1>1, Zenon DEF procVars
  <2>3. QED
    BY <2>1, <2>2, Zenon DEF DrainInd, Busy
<1>4. CASE dispatching' = dispatching
  BY <1>1, <1>2, <1>4, SMTT(20) DEF procVars, DrainInd, Busy
<1>5. QED
  BY <1>2, <1>3, <1>4, Zenon

(* A closer is run: the mailer's shutdown closes the channel and waits.    *)
LEMMA CloseDrain ==
    ASSUME DrainInd, Close
    PROVE  DrainInd'
<1>1. PICK r : r = closers[Len(closers)]
  OBVIOUS
<1>2. /\ opened' = opened \ {r} /\ consuming' = IF r = "consumers" THEN {} ELSE consuming
      /\ main = "unwinding" /\ main' = IF r \in {"pool", "mailer"} THEN r ELSE main
      /\ IF r = "mailer" THEN CloseJobs ELSE UNCHANGED mailVars
      /\ UNCHANGED <<service, at, task, timedOut>>
  BY <1>1, Zenon DEF Close
<1>3. UNCHANGED <<jobs, worker, dispatching, call>> /\ (closed' = closed \/ closed' = TRUE)
  BY <1>2 DEF CloseJobs, mailVars
<1>4. consuming' \subseteq consuming /\ ("mailer" \notin opened' /\ main' # "mailer" => "mailer" \notin opened)
  BY <1>2
<1>5. QED
  BY <1>2, <1>3, <1>4 DEF DrainInd, Busy

(* Every step drains.                                                      *)
LEMMA DrainStep ==
    ASSUME MailTypeOK, TaskTypeOK, TaskInd, StackInd, DrainInd, [ProcNext]_vars
    PROVE  DrainInd'
<1>1. CASE StartFails
  <2>1. /\ main = "starting" /\ main' = "unwinding" /\ UNCHANGED <<service, at, task, timedOut>>
        /\ UNCHANGED <<jobs, worker, dispatching, closed, call>>
    BY <1>1 DEF StartFails, mailVars
  <2>2. consuming' \subseteq consuming /\ ("mailer" \notin opened' => "mailer" \notin opened)
    BY <1>1, SMTT(20) DEF StartFails, OpenedAfterFailure, ConsumingAfterFailure
  <2>3. QED
    BY <2>1, <2>2, Zenon DEF DrainInd, Busy
<1>2. CASE ServeEnds \/ LoopsStopped \/ PoolClosed
  <2>1. /\ main # "mailer" /\ UNCHANGED <<service, at, opened, consuming, task, timedOut>>
        /\ UNCHANGED <<jobs, worker, dispatching, closed, call>>
    BY <1>2 DEF ServeEnds, LoopsStopped, PoolClosed, Cancel, mailVars
  <2>2. QED
    BY <2>1 DEF DrainInd, Busy
<1>3. CASE MailerStopped
  <2>1. /\ UNCHANGED <<service, at, opened, consuming, task>>
        /\ UNCHANGED <<jobs, worker, dispatching, closed, call>>
        /\ timedOut' = TRUE \/ ~dispatching
    BY <1>3 DEF MailerStopped, MailerDrained, mailVars
  <2>2. QED
    BY <2>1, Zenon DEF DrainInd, Busy
<1>4. CASE Exit
  <2>1. /\ main # "mailer" /\ UNCHANGED <<service, at, opened, consuming, timedOut>>
        /\ UNCHANGED <<jobs, worker, dispatching, closed>>
        /\ \A g \in Goroutines : task'[g] = "idle"
        /\ \A c \in Callers : call'[c].st = "none"
    BY <1>4 DEF Exit, NoCall
  <2>2. QED
    BY <2>1, Zenon DEF DrainInd, Busy
<1>5. CASE Signal \/ Gone \/ UNCHANGED vars
  <2>1. UNCHANGED procVars /\ UNCHANGED <<jobs, worker, dispatching, closed, call>>
    BY <1>5 DEF Signal, Gone, Cancel, vars, mailVars
  <2>2. QED
    BY <2>1 DEF procVars, DrainInd, Busy
<1>6. QED
  BY <1>1, <1>2, <1>3, <1>4, <1>5, StartDrain, DispatchDrain, CloseDrain, WorkDrain, MailDrain, Zenon
     DEF ProcNext, Run

----------------------------------------------------------------------------
(* The messages that are built.                                            *)
FS == INSTANCE FiniteSetTheorems

(* The cardinality that the library's theorems are about.                  *)
LEMMA SameCardinality ==
    \A S : Cardinality(S) = FS!Cardinality(S) /\ (IsFiniteSet(S) <=> FS!IsFiniteSet(S))
BY DEF Cardinality, FS!Cardinality, IsFiniteSet, FS!IsFiniteSet

(* Subsets, and proper ones.                                               *)
LEMMA CountSubset ==
    ASSUME NEW S, IsFiniteSet(S), NEW T \in SUBSET S
    PROVE  /\ IsFiniteSet(T) /\ Cardinality(T) \in Nat /\ Cardinality(S) \in Nat
           /\ Cardinality(T) <= Cardinality(S)
           /\ Cardinality(S) = Cardinality(T) => S = T
           /\ Cardinality(T) = 0 => T = {}
<1>1. FS!IsFiniteSet(S)
  BY SameCardinality
<1>2. /\ FS!IsFiniteSet(T) /\ FS!Cardinality(T) <= FS!Cardinality(S)
      /\ FS!Cardinality(S) = FS!Cardinality(T) => S = T
  BY <1>1, FS!FS_Subset, Zenon
<1>3. FS!Cardinality(T) \in Nat /\ FS!Cardinality(S) \in Nat
  BY <1>1, <1>2, FS!FS_CardinalityType, Zenon
<1>4. FS!Cardinality(T) = 0 => T = {}
  BY <1>2, FS!FS_EmptySet, Zenon
<1>5. QED
  BY <1>2, <1>3, <1>4, SameCardinality

(* A position has its own number among those that count.                   *)
LEMMA OwnNumber ==
    ASSUME NEW P \in SUBSET Nat, IsFiniteSet(P), NEW i \in P
    PROVE  /\ Cardinality({h \in P : h <= i}) \in 1..Cardinality(P)
           /\ \A j \in P : Cardinality({h \in P : h <= j}) = Cardinality({h \in P : h <= i}) => j = i
<1> DEFINE Upto(j) == {h \in P : h <= j}
<1>1. \A j \in P : Upto(j) \in SUBSET P /\ j \in Upto(j)
  OBVIOUS
<1>2. ASSUME NEW j \in P, NEW k \in P, Cardinality(Upto(j)) = Cardinality(Upto(k)) PROVE ~(j < k)
  <2>1. SUFFICES ASSUME j < k PROVE FALSE
    OBVIOUS
  <2>2. Upto(j) \in SUBSET Upto(k) /\ k \notin Upto(j) /\ k \in Upto(k)
    <3>1. j \in Nat /\ k \in Nat /\ \A h \in P : h \in Nat
      OBVIOUS
    <3>2. \A h \in P : h <= j => h <= k
      BY <2>1, <3>1
    <3>3. ~(k <= j) /\ k <= k
      BY <2>1, <3>1
    <3>4. QED
      BY <3>2, <3>3, Zenon
  <2> HIDE DEF Upto
  <2>3. IsFiniteSet(Upto(k))
    BY <1>1, CountSubset
  <2>4. Upto(k) = Upto(j)
    BY <1>2, <2>2, <2>3, CountSubset
  <2>5. QED
    BY <2>2, <2>4
<1>3. Cardinality(Upto(i)) \in 1..Cardinality(P)
  <2> HIDE DEF Upto
  <2>1. QED
    BY <1>1, CountSubset
<1>4. \A j \in P : Cardinality(Upto(j)) = Cardinality(Upto(i)) => j = i
  <2>1. \A j \in P : j < i \/ i < j \/ j = i
    OBVIOUS
  <2> HIDE DEF Upto
  <2>2. QED
    BY <1>2, <2>1
<1>5. QED
  BY <1>3, <1>4

(* No address for which a message can be built is left out.                *)
LEMMA BuildsAll ==
    ASSUME NEW to \in Seq(Addresses)
    PROVE  Buildable(to) \in Seq(Built) /\ Elements(to) \ Invalid \subseteq Elements(Buildable(to))
<1> DEFINE S == {i \in DOMAIN to : to[i] \notin Invalid}
<1>1. Buildable(to) = [p \in 1..Cardinality(S) |-> to[CHOOSE i \in S : Cardinality({h \in S : h <= i}) = p]]
  BY DEF Buildable
<1>2. S \in SUBSET Nat /\ IsFiniteSet(S)
  <2>1. DOMAIN to = 1..Len(to) /\ Len(to) \in Nat
    OBVIOUS
  <2>2. S \in SUBSET (1..Len(to))
    BY <2>1
  <2>3. S \in SUBSET Nat
    BY <2>2
  <2> HIDE DEF S
  <2>4. IsFiniteSet(1..Len(to))
    BY <2>1, SameCardinality, FS!FS_Interval
  <2>5. QED
    BY <2>2, <2>3, <2>4, CountSubset, Zenon
<1>3. \A a \in Elements(to) \ Invalid : \E i \in S : a = to[i]
  BY DEF Elements
<1> HIDE DEF S
<1>4. ASSUME NEW a \in Elements(to) \ Invalid PROVE a \in Elements(Buildable(to))
  <2>1. PICK i \in S : a = to[i]
    BY <1>3, <1>4
  <2>2. PICK p : p = Cardinality({h \in S : h <= i})
    BY Zenon
  <2>3. p \in 1..Cardinality(S) /\ \A j \in S : Cardinality({h \in S : h <= j}) = p => j = i
    <3>1. /\ Cardinality({h \in S : h <= i}) \in 1..Cardinality(S)
          /\ \A j \in S : Cardinality({h \in S : h <= j}) = Cardinality({h \in S : h <= i}) => j = i
      BY <1>2, OwnNumber
    <3>2. QED
      BY <2>2, <3>1, Zenon
  <2>4. (CHOOSE j \in S : Cardinality({h \in S : h <= j}) = p) = i
    BY <2>2, <2>3, Zenon
  <2>5. Buildable(to)[p] = a /\ p \in DOMAIN Buildable(to)
    BY <1>1, <2>1, <2>3, <2>4, Zenon
  <2>6. QED
    BY <2>5, Zenon DEF Elements
<1>5. Buildable(to) \in Seq(Built)
  <2>1. Cardinality(S) \in Nat
    BY <1>2, CountSubset
  <2>2. \A p \in 1..Cardinality(S) : Buildable(to)[p] \in Built
    <3>1. DOMAIN Buildable(to) = 1..Cardinality(S)
      BY <1>1, Zenon
    <3>2. \A p \in 1..Cardinality(S) : Buildable(to)[p] \in Elements(Buildable(to))
      BY <3>1, Zenon DEF Elements
    <3>3. Elements(Buildable(to)) \subseteq Built
      BY Zenon DEF Built
    <3>4. QED
      BY <3>2, <3>3, Zenon
  <2>3. PICK f : f = Buildable(to)
    OBVIOUS
  <2>4. f \in [1..Cardinality(S) -> Built]
    BY <1>1, <2>2, <2>3, Zenon
  <2>5. QED
    BY <2>1, <2>3, <2>4
<1>6. QED
  BY <1>4, <1>5

(* Which is what the mailer's invariant needs.                             *)
LEMMA BuildLawHolds == BuildLaw
BY BuildsAll DEF BuildLaw

----------------------------------------------------------------------------
(* The invariant of the process.                                           *)
ProcInd ==
    /\ MailTypeOK /\ MailInd
    /\ TaskTypeOK /\ TaskInd
    /\ StackInd /\ LoopInd /\ DrainInd

(* A process begins in it.                                                 *)
LEMMA ProcStart ==
    ASSUME ProcInit
    PROVE  ProcInd
<1>1. /\ calls = 0 /\ jobs = <<>> /\ worker = <<>> /\ results = {}
      /\ closed = FALSE /\ dispatching = FALSE /\ panicked = FALSE
      /\ call = [c \in Callers |-> NoCall] /\ \A c \in Callers : call[c].st = "none"
  BY DEF ProcInit, MailInit, NoCall
<1>2. MailTypeOK
  <2>1. jobs \in Seq(JobRecord) /\ Len(jobs) <= QueueSize /\ worker \in Seq(InWork) /\ Len(worker) <= 1
    BY <1>1, QueueHasRoom
  <2>2. call \in [Callers -> {NoCall} \cup Waiting \cup Over]
    BY <1>1, ZenonT(30)
  <2>3. QED
    BY <1>1, <2>1, <2>2, Zenon DEF MailTypeOK
<1>3. MailInd
  <2>1. Numbered /\ RecipientsFit /\ AnswerTrue
    BY <1>1, Zenon DEF Numbered, RecipientsFit, AnswerTrue, Busy
  <2>2. WorkTrue /\ ResultsTrue
    BY <1>1, Zenon DEF WorkTrue, ResultsTrue
  <2>3. DOMAIN jobs = {}
    BY <1>1
  <2>4. JobsFit
    BY <2>3, Zenon DEF JobsFit
  <2>5. QED
    BY <2>1, <2>2, <2>4 DEF MailInd
<1>4. /\ service \in Services /\ main = "starting" /\ at = 1 /\ opened = {} /\ closers = <<>> /\ consuming = {}
      /\ task = [g \in Goroutines |-> "idle"] /\ timedOut = FALSE
  BY Zenon DEF ProcInit
<1>5. TaskTypeOK /\ \A g \in Goroutines : task[g] = "idle"
  BY <1>4 DEF TaskTypeOK
<1>6. TaskInd
  <2>1. Callers \subseteq Goroutines
    BY SendersOfMail DEF Goroutines
  <2>2. QED
    BY <1>1, <1>5, <2>1 DEF TaskInd, Busy
<1>7. StackInd
  <2>1. PlanFits(service)
    BY <1>4, PlansFit, SMTT(20)
  <2>2. /\ at \in 1..Len(Plan[service]) + 1 /\ ~Started /\ Height[service][at] = 0 /\ Step # "stream"
    BY <1>4, <2>1 DEF PlanFits, Started, Step
  <2>3. Len(closers) = 0 /\ closers \in Seq(Resources)
    BY <1>4
  <2>4. Below(service, 0) = {}
    BY <1>4, BelowNeeded
  <2>5. QED
    BY <1>4, <2>2, <2>3, <2>4, SMTT(20) DEF StackInd, Connecting
<1>8. LoopInd
  <2>1. Loops[service] \subseteq Goroutines /\ Awaited[service] \subseteq Goroutines
    BY <1>4, LoopFacts, ZenonT(30) DEF Goroutines
  <2>2. ~Started
    BY <1>4, <1>7 DEF StackInd
  <2>3. QED
    BY <1>4, <1>5, <2>1, <2>2, Zenon DEF LoopInd
<1>9. DrainInd
  BY <1>1, <1>4, <1>5 DEF DrainInd, Busy
<1>10. QED
  BY <1>2, <1>3, <1>5, <1>6, <1>7, <1>8, <1>9, SMTT(20) DEF ProcInd

(* Every step preserves it.                                                *)
LEMMA ProcStep ==
    ASSUME ProcInd, [ProcNext]_vars
    PROVE  ProcInd'
BY MailStep, BuildLawHolds, TaskStep, StackStep, LoopStep, DrainStep, Zenon DEF ProcInd

(* ProcInd is an invariant of every process: start-up, goroutines, mail    *)
(* and shutdown together.                                                  *)
THEOREM ProcInvariance == ProcSpec => []ProcInd
<1>1. ProcInit => ProcInd
  BY ProcStart
<1>2. ProcInd /\ [ProcNext]_vars => ProcInd'
  BY ProcStep
<1>3. QED
  BY <1>1, <1>2, PTL DEF ProcSpec

(* However start-up fails and the process ends, Run returns with nothing   *)
(* left open, no subscription active, every closer run once, and, unless   *)
(* the mailer's shutdown timed out, with no job undelivered.               *)
THEOREM RunLeavesNothingOpen == ProcSpec => []ProcInv
<1>1. ASSUME ProcInd PROVE ProcInv
  <2>1. service \in Services /\ Len(closers) \in 0..4
    BY <1>1, StackHeight DEF ProcInd
  <2>2. Below(service, Len(closers)) \subseteq Needed[service] /\ "broker" \in Needed[service]
    BY <2>1, BelowNeeded, ZenonT(30) DEF Needed
  <2>3. opened \subseteq Needed[service]
    BY <1>1, <2>2 DEF ProcInd, StackInd
  <2>4. Elements(closers) \subseteq opened \cup {"consumers"}
    <3>1. DOMAIN closers = 1..Len(closers) /\ Below(service, Len(closers)) \subseteq opened
      BY <1>1, SMTT(20) DEF ProcInd, StackInd
    <3>2. \A k \in 1..Len(closers) : closers[k] \in Below(service, Len(closers)) \cup {"consumers"}
      BY <1>1 DEF ProcInd, StackInd, Below
    <3>3. QED
      BY <3>1, <3>2, ZenonT(30) DEF Elements
  <2>5. ProcTypeOK
    <3>1. Len(jobs) <= QueueSize /\ results \subseteq [n : Nat, ok : Seq(BOOLEAN)]
      BY <1>1, Zenon DEF ProcInd, MailTypeOK, Result
    <3>2. {closed, dispatching, panicked, timedOut} \subseteq BOOLEAN
      BY <1>1, Zenon DEF ProcInd, MailTypeOK, LoopInd
    <3>3. QED
      BY <1>1, <2>3, <2>4, <3>1, <3>2, ZenonT(30) DEF ProcTypeOK, ProcInd, StackInd, TaskTypeOK
  <2>6. NothingLeftOpen
    <3>1. SUFFICES ASSUME main = "exited"
                   PROVE  /\ opened = {} /\ consuming = {} /\ closers = <<>>
                          /\ timedOut \/ (jobs = <<>> /\ worker = <<>>)
      BY DEF NothingLeftOpen
    <3>2. closers = <<>> /\ Len(closers) = 0 /\ ~Connecting
      BY <1>1, <3>1, Zenon DEF ProcInd, StackInd, Connecting
    <3>3. opened = {}
      BY <1>1, <2>1, <3>2, BelowNeeded, ZenonT(30) DEF ProcInd, StackInd
    <3>4. consuming = {}
      BY <1>1, <3>1, <3>2, SMTT(20) DEF ProcInd, StackInd
    <3>5. at = 1 \/ at > 1
      BY <1>1 DEF ProcInd, StackInd
    <3>6. timedOut \/ (jobs = <<>> /\ worker = <<>>)
      BY <1>1, <3>1, <3>3, <3>5, SMTT(20) DEF ProcInd, DrainInd
    <3>7. QED
      BY <3>2, <3>3, <3>4, <3>6
  <2>7. QED
    BY <2>5, <2>6 DEF ProcInv
<1>2. QED
  BY <1>1, ProcInvariance, PTL

(* While messages are delivered, or a loop gracefulShutdown waits for is   *)
(* at work, everything they use is open.                                   *)
THEOREM UsersFindResources == ProcSpec => []UsersBeforeResources
<1>1. ASSUME ProcInd PROVE UsersBeforeResources
  <2>1. SUFFICES ASSUME consuming # {} \/ \E g \in Awaited[service] : task[g] \notin {"idle", "ended"}
                 PROVE  Needed[service] \subseteq opened
    BY DEF UsersBeforeResources
  <2>2. service \in Services /\ Len(closers) \in 0..4 /\ Below(service, Len(closers)) \subseteq opened
    BY <1>1, StackHeight, Zenon DEF ProcInd
  <2>3. CASE consuming # {}
    <3>1. CASE Len(closers) = 4
      BY <2>2, <3>1, BelowNeeded, SMTT(20)
    <3>2. CASE main = "starting" /\ Step = "release"
      <4>1. Len(closers) = 3
        BY <1>1, <3>2, AtRow DEF ProcInd, RowFits
      <4>2. QED
        BY <2>2, <4>1, BelowNeeded, SMTT(20)
    <3>3. QED
      BY <1>1, <2>3, <3>1, <3>2, ZenonT(30) DEF ProcInd, StackInd
  <2>4. ASSUME NEW g \in Awaited[service], task[g] \notin {"idle", "ended"} PROVE Needed[service] \subseteq opened
    <3>1. g \in Loops[service] /\ g \in Goroutines
      BY <2>2, LoopFacts DEF Goroutines
    <3>2. Started
      BY <1>1, <2>4, <3>1 DEF ProcInd, LoopInd
    <3>3. main \in {"serving", "awaiting"}
      BY <1>1, <2>4, <3>1, <3>2, ZenonT(30) DEF ProcInd, LoopInd
    <3>4. Len(closers) = 4
      BY <1>1, <3>3 DEF ProcInd, StackInd
    <3>5. QED
      BY <2>2, <3>4, BelowNeeded
  <2>5. QED
    BY <2>1, <2>3, <2>4
<1>2. QED
  BY <1>1, ProcInvariance, PTL

(* An address that a call does not report as failed has had its e-mail.    *)
THEOREM AnswersAreTrue == ProcSpec => []AnswerTrue
<1>1. ProcInd => AnswerTrue
  BY DEF ProcInd, MailInd
<1>2. QED
  BY <1>1, ProcInvariance, PTL

(* An outcome that was only given up on is never written.                  *)
THEOREM ShutdownIsNoFailure == ProcSpec => []GiveUpNotRecorded
<1>1. ProcInd => GiveUpNotRecorded
  BY Zenon DEF ProcInd, TaskInd, GiveUpNotRecorded
<1>2. QED
  BY <1>1, ProcInvariance, PTL
=============================================================================
