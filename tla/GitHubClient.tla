---------------------------- MODULE GitHubClient ----------------------------
(***************************************************************************)
(* The GitHub client with its Redis cache.  A key is one question about    *)
(* one repository: its latest release (GetLatestRelease) or whether it     *)
(* exists (RepoExists).  Its value at GitHub is a version, of which the    *)
(* first, 0, is 404; 404 is cached like any answer ("none", "0").  A call  *)
(* looks the key up, asks GitHub on a miss or a Redis error, stores what   *)
(* GitHub answered and returns it, so versions may pass in between and     *)
(* calls for one key may overlap.                                          *)
(*                                                                         *)
(* Time advances in ticks.  A request and the storing of its answer take   *)
(* at most CallTime (the HTTP client's timeout), the rest no time.         *)
(***************************************************************************)
EXTENDS Naturals, FiniteSets

CONSTANTS
    Keys,         \* the questions
    Workers,      \* goroutines that may call the client at a time
    TTL,          \* ticks a cache entry lives
    CallTime,     \* ticks a request may take
    MaxChanges,   \* bound: new versions, over all keys
    MaxFaults     \* bound: errors of Redis and of GitHub

ASSUME ClientBounds == Workers \in Nat /\ TTL \in Nat \ {0} /\ CallTime \in Nat

VARIABLES
    truth,        \* per key: the current version at GitHub
    cache,        \* per key: value, ticks to live (0: no entry), and history:
                  \* ticks since GitHub has a newer one
    call,         \* per goroutine: its call
    sinceAnswer,  \* history, per key: ticks since GitHub last answered
    redisFailed,  \* history: a Redis command has failed
    changes, faults

ghVars == <<truth, cache, call, sinceAnswer, redisFailed, changes, faults>>

Slots == 1..Workers
Horizon == TTL + CallTime    \* ages are counted up to here
NoEntry == [val |-> 0, old |-> 0, left |-> 0]
NoCall == [st |-> "idle"]

ClientInit ==
    /\ truth = [k \in Keys |-> 0]
    /\ cache = [k \in Keys |-> NoEntry]
    /\ call = [w \in Slots |-> NoCall]
    /\ sinceAnswer = [k \in Keys |-> TTL]
    /\ redisFailed = FALSE
    /\ changes = 0 /\ faults = 0

Fault == faults < MaxFaults /\ faults' = faults + 1

----------------------------------------------------------------------------
(* GitHub: a release is published, a repository is created.                *)
Change(k) ==
    /\ changes < MaxChanges
    /\ changes' = changes + 1
    /\ truth' = [truth EXCEPT ![k] = @ + 1]
    /\ UNCHANGED <<cache, call, sinceAnswer, redisFailed, faults>>

(* A copy of an answer for key k, one tick later.                          *)
Aged(copy, k) == [copy EXCEPT !.old = IF copy.val < truth[k] /\ @ < Horizon THEN @ + 1 ELSE @]

(* Time passes; an entry whose time is up is gone.                         *)
Tick ==
    /\ \A w \in Slots : \/ call[w].st = "idle"
                        \/ call[w].st \in {"asking", "answered"} /\ call[w].took < CallTime
    /\ call' = [w \in Slots |->
          IF call[w].st = "idle" THEN NoCall
          ELSE LET c == [call[w] EXCEPT !.took = @ + 1]
               IN  IF c.st = "answered" THEN Aged(c, c.key) ELSE c]
    /\ cache' = [k \in Keys |->
          IF cache[k].left > 1 THEN [Aged(cache[k], k) EXCEPT !.left = @ - 1] ELSE NoEntry]
    /\ sinceAnswer' = [k \in Keys |-> IF sinceAnswer[k] < TTL THEN sinceAnswer[k] + 1 ELSE TTL]
    /\ UNCHANGED <<truth, redisFailed, changes, faults>>

----------------------------------------------------------------------------
(* A call.                                                                 *)

(* Goroutines have no names: a call takes the first free slot.             *)
Call(w, k) ==
    /\ call[w] = NoCall /\ \A u \in 1..(w - 1) : call[u] # NoCall
    /\ call' = [call EXCEPT ![w] = [st |-> "looking", key |-> k]]
    /\ UNCHANGED <<truth, cache, sinceAnswer, redisFailed, changes, faults>>

Returns(w, result) == call' = [call EXCEPT ![w] = [st |-> "returned", key |-> @.key, result |-> result]]
Answered(copy) == [ok |-> TRUE, val |-> copy.val, old |-> copy.old]
Failed(why) == [ok |-> FALSE, why |-> why]

(* What a hit leaves in the cache.  Variant: it renews the entry.          *)
Renewed(e) == [e EXCEPT !.left = TTL]
AfterHit(e) == e

CacheHit(w) ==
    /\ call[w].st = "looking"
    /\ LET e == cache[call[w].key]
       IN  /\ e.left > 0
           /\ Returns(w, Answered(e))
           /\ cache' = [cache EXCEPT ![call[w].key] = AfterHit(e)]
    /\ UNCHANGED <<truth, sinceAnswer, redisFailed, changes, faults>>

Ask(w) == call' = [call EXCEPT ![w] = [st |-> "asking", key |-> @.key, took |-> 0]]

CacheMiss(w) ==
    /\ call[w].st = "looking" /\ cache[call[w].key].left = 0
    /\ Ask(w)
    /\ UNCHANGED <<truth, cache, sinceAnswer, redisFailed, changes, faults>>

(* An error of Redis is logged and GitHub is asked.                        *)
CacheGetFails(w) ==
    /\ call[w].st = "looking"
    /\ Fault /\ redisFailed' = TRUE
    /\ Ask(w)
    /\ UNCHANGED <<truth, cache, sinceAnswer, changes>>

(* 200 or 404.                                                             *)
GitHubAnswers(w) ==
    /\ call[w].st = "asking"
    /\ call' = [call EXCEPT ![w] = [st |-> "answered", key |-> @.key, took |-> @.took,
                                     val |-> truth[@.key], old |-> 0]]
    /\ sinceAnswer' = [sinceAnswer EXCEPT ![call[w].key] = 0]
    /\ UNCHANGED <<truth, cache, redisFailed, changes, faults>>

(* "stop": 401 or a rate limit; "error": any other status, a time-out, an  *)
(* unreadable body.  Nothing is stored.                                    *)
GitHubFails(w) ==
    /\ call[w].st = "asking"
    /\ Fault
    /\ \E why \in {"stop", "error"} : Returns(w, Failed(why))
    /\ UNCHANGED <<truth, cache, sinceAnswer, redisFailed, changes>>

(* The caller's context ends before GitHub has answered.                   *)
CallCancelled(w) ==
    /\ call[w].st \in {"looking", "asking"}
    /\ Returns(w, Failed("cancelled"))
    /\ UNCHANGED <<truth, cache, sinceAnswer, redisFailed, changes, faults>>

(* The entry stored for an answer.  Variants: "none" is not stored; the    *)
(* entry lives longer.                                                     *)
ReleasesOnly(a) == IF a.val = 0 THEN NoEntry ELSE [val |-> a.val, old |-> a.old, left |-> TTL]
TooLong(a) == [val |-> a.val, old |-> a.old, left |-> TTL + 1]
Entry(a) == [val |-> a.val, old |-> a.old, left |-> TTL]

(* cacheString, without the caller's cancellation; its error is logged.    *)
StoreAndReturn(w) ==
    /\ call[w].st = "answered"
    /\ \/ /\ cache' = [cache EXCEPT ![call[w].key] = Entry(call[w])]
          /\ UNCHANGED <<redisFailed, faults>>
       \/ Fault /\ redisFailed' = TRUE /\ UNCHANGED cache
    /\ Returns(w, Answered(call[w]))
    /\ UNCHANGED <<truth, sinceAnswer, changes>>

CallStep(w) ==
    \/ CacheHit(w) \/ CacheMiss(w) \/ CacheGetFails(w)
    \/ GitHubAnswers(w) \/ GitHubFails(w) \/ StoreAndReturn(w)

(* The caller has the result.                                              *)
Take(w) ==
    /\ call[w].st = "returned"
    /\ call' = [call EXCEPT ![w] = NoCall]
    /\ UNCHANGED <<truth, cache, sinceAnswer, redisFailed, changes, faults>>

----------------------------------------------------------------------------
(* What a call returns was GitHub's answer less than one TTL and one call  *)
(* ago, whatever calls overlapped, failed or stored late: no error is ever *)
(* cached, a hit does not renew an entry (github.go:64-187).               *)
AnswersFresh ==
    \A w \in Slots : call[w].st = "returned" /\ call[w].result.ok => call[w].result.old < Horizon
=============================================================================
