------------------------------ MODULE ScanPass ------------------------------
(***************************************************************************)
(* The two users of the GitHub client.  The scanner's passes: the          *)
(* scheduler runs one at a time, a pass asks for the latest release of     *)
(* every watched repository with a bounded number of workers, stops early  *)
(* when GitHub refuses, waits for its workers and processes what was       *)
(* observed.  And the subscribe calls, which ask whether a repository      *)
(* exists and may do so at the same time.  Their keys are disjoint, so     *)
(* the model follows one user or the other.                                *)
(***************************************************************************)
EXTENDS GitHubClient

CONSTANT Requested    \* the repository subscribe calls ask for

ASSUME RequestedIsKey == Requested \in Keys

VARIABLES
    user,      \* "scanner" or "subscribe"
    due,       \* the scheduler's ticker has fired (its channel holds one tick)
    pass,      \* "idle" or "running"
    todo,      \* repositories the pass has not come to
    aborted,   \* the errgroup's context has ended
    observed,  \* per repository: the version observed in this pass, or 0
    tried,     \* history: repositories that got an answer or an error of their own
    refused,   \* history: GitHub refused in this pass (401, rate limit)
    seen       \* per repository: the version last processed

passVars == <<user, due, pass, todo, aborted, observed, tried, refused, seen>>
vars == <<passVars, ghVars>>

ScanInit ==
    /\ ClientInit
    /\ user \in {"scanner", "subscribe"}
    /\ due = TRUE /\ pass = "idle" /\ todo = {} /\ aborted = FALSE
    /\ observed = [k \in Keys |-> 0] /\ tried = {} /\ refused = FALSE
    /\ seen = [k \in Keys |-> 0]

(* Scheduler.Start runs a pass at once and then one per tick, never two    *)
(* together; watch.Run lists the repositories.                             *)
PassStarts ==
    /\ user = "scanner" /\ due /\ pass = "idle"
    /\ due' = FALSE /\ pass' = "running" /\ todo' = Keys
    /\ UNCHANGED <<user, aborted, observed, tried, refused, seen>> /\ UNCHANGED ghVars

(* What the loop has left after repository k.                              *)
Remaining(k) == todo \ {k}

(* g.Go: a worker takes the next repository, unless the pass was aborted.  *)
Fetch(w, k) ==
    /\ pass = "running" /\ ~aborted /\ k \in todo
    /\ Call(w, k)
    /\ todo' = Remaining(k)
    /\ UNCHANGED <<user, due, pass, aborted, observed, tried, refused, seen>>

FetchCancelled(w) ==
    /\ user = "scanner" /\ aborted
    /\ CallCancelled(w)
    /\ UNCHANGED passVars

(* handleReleaseError: which errors end the pass.  Variant: every error.   *)
AnyError(why) == why # "cancelled"
EndsPass(why) == why = "stop"

(* fetchRelease returns.                                                   *)
Fetched(w) ==
    /\ user = "scanner"
    /\ Take(w)
    /\ LET k == call[w].key  r == call[w].result
       IN  /\ observed' = IF r.ok THEN [observed EXCEPT ![k] = r.val] ELSE observed
           /\ aborted' = (aborted \/ (~r.ok /\ EndsPass(r.why)))
           /\ refused' = (refused \/ (~r.ok /\ r.why = "stop"))
           /\ tried' = IF r.ok \/ r.why = "error" THEN tried \cup {k} ELSE tried
    /\ UNCHANGED <<user, due, pass, todo, seen>>

(* g.Wait.  Variant: an aborted pass leaves its workers behind.            *)
AbortedOrIdle == aborted \/ \A w \in Slots : call[w] = NoCall
WorkersDone == \A w \in Slots : call[w] = NoCall

(* The pass processes what it observed, all of it or, aborted, some; the   *)
(* rest of its state goes with it.                                         *)
PassEnds ==
    /\ pass = "running" /\ (todo = {} \/ aborted)
    /\ WorkersDone
    /\ pass' = "idle" /\ todo' = {} /\ aborted' = FALSE
    /\ observed' = [k \in Keys |-> 0] /\ tried' = {} /\ refused' = FALSE
    /\ seen' = [k \in Keys |-> IF observed[k] > 0 THEN observed[k] ELSE seen[k]]
    /\ UNCHANGED <<user, due>> /\ UNCHANGED ghVars

(* Subscribe calls.                                                        *)
Check(w) == user = "subscribe" /\ Call(w, Requested) /\ UNCHANGED passVars
Checked(w) == user = "subscribe" /\ Take(w) /\ UNCHANGED passVars

(* A tick is one scan interval; nobody but the scanner waits for it.       *)
Interval ==
    /\ Tick
    /\ due' = TRUE
    /\ UNCHANGED <<user, pass, todo, aborted, observed, tried, refused, seen>>

Step(w) == CallStep(w) /\ UNCHANGED passVars

ScanNext ==
    \/ \E k \in Keys : Change(k) /\ UNCHANGED passVars
    \/ Interval \/ PassStarts \/ PassEnds
    \/ \E w \in Slots : \/ Step(w) \/ FetchCancelled(w) \/ Fetched(w) \/ Check(w) \/ Checked(w)
                        \/ \E k \in Keys : Fetch(w, k)

ScanSpec == ScanInit /\ [][ScanNext]_vars

(* Time passes, the scheduler runs pass after pass, workers run.           *)
ScanFairSpec ==
    /\ ScanSpec
    /\ WF_vars(Interval) /\ WF_vars(PassStarts \/ PassEnds)
    /\ \A w \in Slots : WF_vars(Step(w) \/ Fetched(w) \/ \E k \in Keys : Fetch(w, k))

----------------------------------------------------------------------------
(* The scanner asks GitHub for a repository at most once per TTL, as long  *)
(* as Redis works: releases and their absence alike are cached, and no two *)
(* workers ask for the same repository (docs/adr/003, github.go:103-175).  *)
OneRequestPerTTL ==
    user = "scanner" /\ ~redisFailed =>
        \A w \in Slots : call[w].st = "asking" => sinceAnswer[call[w].key] >= TTL

(* A repository that fails does not keep the others from being scanned:    *)
(* unless GitHub refused, a pass ends with every repository tried          *)
(* (scanner.go:93-115).                                                    *)
BrokenRepoIsolated ==
    [][pass = "running" /\ pass' = "idle" /\ ~refused => tried = Keys]_vars

(* The scanner never goes back to an older release while Redis works: no   *)
(* late answer of an earlier pass overwrites a newer one in the cache      *)
(* (scanner.go:62).  When Redis fails a lookup and then a store, the entry *)
(* before it survives a newer answer and is read again.                    *)
NeverBackwards == [][~redisFailed => \A k \in Keys : seen'[k] >= seen[k]]_vars

(* Every release is seen, although passes come more often than entries     *)
(* expire: the scanner is up to date again and again, and for good when    *)
(* nothing is published any more.                                          *)
ReleaseSeen == \A k \in Keys : []<>(user = "scanner" => seen[k] = truth[k])
=============================================================================
