--------------------------- MODULE ScanPassProofs ---------------------------
(***************************************************************************)
(* Proofs about the GitHub client and the scanner's passes, for every set  *)
(* of repositories, number of workers, TTL and time-out, and any number of *)
(* releases and faults.                                                    *)
(*                                                                         *)
(* Freshness rests on an account of the age of every copy of an answer     *)
(* (CopiesFresh).  That a repository is asked for once per TTL, and that   *)
(* the scanner never goes back, rest on one call per repository and pass   *)
(* (OneCallPerKey), on an entry outliving the pause it stands for          *)
(* (CacheCovers), and on the order of all copies of a key (Monotone).      *)
(***************************************************************************)
EXTENDS ScanPass, TLAPS

Looking == [st : {"looking"}, key : Keys]
Asking == [st : {"asking"}, key : Keys, took : 0..CallTime]
HasAnswer == [st : {"answered"}, key : Keys, took : 0..CallTime, val : Nat, old : 0..CallTime]
Good == [ok : {TRUE}, val : Nat, old : Nat]
Bad == [ok : {FALSE}, why : {"stop", "error", "cancelled"}]
Over == [st : {"returned"}, key : Keys, result : Good \cup Bad]
Calls == {NoCall} \cup Looking \cup Asking \cup HasAnswer \cup Over

GHTypeOK ==
    /\ truth \in [Keys -> Nat]
    /\ cache \in [Keys -> [val : Nat, old : Nat, left : 0..TTL]]
    /\ call \in [Slots -> Calls]
    /\ sinceAnswer \in [Keys -> 0..TTL]
    /\ redisFailed \in BOOLEAN

PassTypeOK ==
    /\ user \in {"scanner", "subscribe"} /\ pass \in {"idle", "running"}
    /\ todo \subseteq Keys /\ tried \subseteq Keys
    /\ aborted \in BOOLEAN /\ refused \in BOOLEAN
    /\ observed \in [Keys -> Nat] /\ seen \in [Keys -> Nat]

(* An answer under way is no older than its call; an entry that has been   *)
(* there for a while was no older than one call when it was stored.        *)
CopiesFresh ==
    /\ \A w \in Slots : call[w].st = "answered" => call[w].old <= call[w].took
    /\ \A k \in Keys : cache[k].left > 0 => cache[k].old + cache[k].left <= Horizon

Busy(w) == call[w] # NoCall

(* In a pass every repository has at most one call, and what the loop has  *)
(* not come to yet has none and nothing observed.                          *)
OneCallPerKey ==
    /\ pass = "running" => user = "scanner"
    /\ user = "scanner" =>
          /\ \A w \in Slots : Busy(w) =>
                /\ pass = "running" /\ call[w].key \notin todo /\ observed[call[w].key] = 0
                /\ \A u \in Slots : Busy(u) /\ call[u].key = call[w].key => u = w
          /\ \A k \in todo : observed[k] = 0
    /\ pass = "idle" => todo = {} /\ ~aborted /\ ~refused /\ \A k \in Keys : observed[k] = 0

(* Only a refusal ends a pass early; every other repository is still to    *)
(* come, being asked for, or tried.                                        *)
PassAccounted ==
    user = "scanner" =>
        /\ aborted => refused
        /\ \A w \in Slots : call[w].st = "returned" /\ ~call[w].result.ok =>
              (call[w].result.why = "cancelled" => refused)
        /\ pass = "running" /\ ~refused =>
              \A k \in Keys \ (todo \cup tried) : \E w \in Slots : Busy(w) /\ call[w].key = k

(* GitHub's last answer is in the cache for as long as it is recent, or    *)
(* about to be stored.                                                     *)
CacheCovers ==
    user = "scanner" /\ ~redisFailed =>
        \A k \in Keys : \/ sinceAnswer[k] + cache[k].left >= TTL
                        \/ \E w \in Slots : call[w].st = "answered" /\ call[w].key = k

(* The copies of a key, from the oldest: processed, observed or answered,  *)
(* cached, current.                                                        *)
Monotone ==
    user = "scanner" /\ ~redisFailed =>
        /\ \A k \in Keys :
              /\ seen[k] <= truth[k]
              /\ observed[k] > 0 => seen[k] <= observed[k] /\ observed[k] <= truth[k]
              /\ cache[k].left > 0 =>
                    /\ seen[k] <= cache[k].val /\ observed[k] <= cache[k].val
                    /\ cache[k].val <= truth[k]
        /\ \A w \in Slots : call[w].st = "answered" =>
              seen[call[w].key] <= call[w].val /\ call[w].val <= truth[call[w].key]
        /\ \A w \in Slots : call[w].st = "returned" /\ call[w].result.ok =>
              /\ seen[call[w].key] <= call[w].result.val
              /\ call[w].result.val <= truth[call[w].key]
              /\ cache[call[w].key].left > 0 => call[w].result.val <= cache[call[w].key].val

ScanInd ==
    /\ GHTypeOK /\ PassTypeOK
    /\ CopiesFresh /\ AnswersFresh
    /\ OneCallPerKey /\ PassAccounted
    /\ CacheCovers /\ OneRequestPerTTL
    /\ Monotone

----------------------------------------------------------------------------
(* The shape of a call by its state.                                       *)
LEMMA CallShape ==
    ASSUME NEW c \in Calls
    PROVE  /\ c.st = "idle" <=> c = NoCall
           /\ c.st = "looking" => c \in Looking
           /\ c.st = "asking" => c \in Asking
           /\ c.st = "answered" => c \in HasAnswer
           /\ c.st = "returned" => c \in Over
           /\ c # NoCall => c.key \in Keys
BY DEF Calls, NoCall, Looking, Asking, HasAnswer, Over

(* The calls that a step puts in a slot.                                   *)
LEMMA NewCalls ==
    ASSUME NEW k \in Keys
    PROVE  /\ NoCall \in Calls /\ NoCall.st = "idle"
           /\ [st |-> "looking", key |-> k] \in Calls
           /\ \A n \in 0..CallTime : [st |-> "asking", key |-> k, took |-> n] \in Calls
           /\ \A n, o \in 0..CallTime, v \in Nat :
                 [st |-> "answered", key |-> k, took |-> n, val |-> v, old |-> o] \in Calls
           /\ \A v, o \in Nat :
                 [st |-> "returned", key |-> k, result |-> [ok |-> TRUE, val |-> v, old |-> o]] \in Calls
           /\ \A why \in {"stop", "error", "cancelled"} :
                 [st |-> "returned", key |-> k, result |-> [ok |-> FALSE, why |-> why]] \in Calls
BY Zenon DEF Calls, NoCall, Looking, Asking, HasAnswer, Over, Good, Bad

Slot(w, c) == call' = [call EXCEPT ![w] = c]

(* A step that changes one slot leaves the others as they are.             *)
LEMMA SlotFacts ==
    ASSUME GHTypeOK, NEW w \in Slots, NEW c \in Calls, Slot(w, c)
    PROVE  /\ call' \in [Slots -> Calls]
           /\ call'[w] = c /\ \A u \in Slots : u # w => call'[u] = call[u]
BY DEF GHTypeOK, Slot

----------------------------------------------------------------------------
(* Each step preserves the invariant.                                      *)

(* A call that goes on stays the one call of its repository.               *)
LEMMA CallGoesOn ==
    ASSUME ScanInd, NEW w \in Slots, NEW c \in Calls, Slot(w, c),
           call[w].st # "idle", c.st # "idle", c.key = call[w].key,
           user = "scanner" /\ c.st = "returned" /\ ~c.result.ok /\ c.result.why = "cancelled" => refused,
           UNCHANGED passVars
    PROVE  /\ call' \in [Slots -> Calls] /\ call'[w] = c
           /\ \A u \in Slots : u # w => call'[u] = call[u]
           /\ PassTypeOK' /\ OneCallPerKey' /\ PassAccounted'
<1> USE DEF ScanInd
<1>1. /\ call' \in [Slots -> Calls] /\ call'[w] = c
      /\ \A u \in Slots : u # w => call'[u] = call[u]
  BY SlotFacts
<1>2. \A u \in Slots : Busy(u)' <=> Busy(u)
  BY <1>1 DEF Busy, NoCall
<1>3. \A u \in Slots : call'[u].key = call[u].key
  BY <1>1
<1>4. PassTypeOK' /\ OneCallPerKey'
  BY <1>2, <1>3 DEF PassTypeOK, OneCallPerKey, passVars
<1>5. PassAccounted'
  BY <1>1, <1>2, <1>3 DEF PassAccounted, passVars
<1>6. QED
  BY <1>1, <1>4, <1>5

(* An entry that is there is returned.                                     *)
LEMMA HitInd ==
    ASSUME ScanInd, NEW w \in Slots, CacheHit(w), UNCHANGED passVars
    PROVE  ScanInd'
<1> USE DEF ScanInd
<1> DEFINE k == call[w].key
           e == cache[k]
           r == [ok |-> TRUE, val |-> e.val, old |-> e.old]
           c == [st |-> "returned", key |-> k, result |-> r]
<1>1. call[w] \in Calls /\ call[w].st = "looking" /\ k \in Keys
  BY CallShape DEF CacheHit, GHTypeOK, NoCall
<1>2. e \in [val : Nat, old : Nat, left : 0..TTL] /\ e.left > 0
  BY <1>1 DEF CacheHit, GHTypeOK
<1>3. c \in Calls /\ Slot(w, c)
  BY <1>1, <1>2, NewCalls, Zenon DEF CacheHit, Returns, Answered, Slot
<1>4. UNCHANGED <<truth, cache, sinceAnswer, redisFailed>>
  BY <1>1 DEF CacheHit, AfterHit, GHTypeOK
<1>5. /\ c.st = "returned" /\ c.key = k /\ c.result.ok = TRUE
      /\ c.result.val = e.val /\ c.result.old = e.old
  OBVIOUS
<1> HIDE DEF c, r
<1>6. /\ call' \in [Slots -> Calls] /\ call'[w] = c
      /\ \A u \in Slots : u # w => call'[u] = call[u]
      /\ PassTypeOK' /\ OneCallPerKey' /\ PassAccounted'
  BY <1>1, <1>3, <1>5, CallGoesOn
<1>7. GHTypeOK' /\ CopiesFresh'
  <2>1. GHTypeOK'
    BY <1>4, <1>6 DEF GHTypeOK
  <2>2. CopiesFresh'
    BY <1>4, <1>5, <1>6 DEF CopiesFresh
  <2>3. QED
    BY <2>1, <2>2
<1>8. AnswersFresh'
  <2>1. e.old < Horizon
    BY <1>1, <1>2, ClientBounds DEF CopiesFresh, Horizon
  <2>2. QED
    BY <1>5, <1>6, <2>1 DEF AnswersFresh
<1>9. CacheCovers' /\ OneRequestPerTTL'
  <2>1. CacheCovers'
    BY <1>1, <1>4, <1>6 DEF CacheCovers, passVars
  <2>2. OneRequestPerTTL'
    BY <1>4, <1>5, <1>6 DEF OneRequestPerTTL, passVars
  <2>3. QED
    BY <2>1, <2>2
<1>10. Monotone'
  <2> SUFFICES ASSUME user' = "scanner", ~redisFailed', user = "scanner", ~redisFailed
               PROVE  Monotone'
    BY <1>4 DEF Monotone, passVars
  <2>1. e.val \in Nat /\ seen[k] <= e.val /\ e.val <= truth[k]
    BY <1>1, <1>2 DEF Monotone
  <2>2. ASSUME NEW u \in Slots
        PROVE  /\ call'[u].st = "answered" =>
                     seen[call'[u].key] <= call'[u].val /\ call'[u].val <= truth[call'[u].key]
               /\ call'[u].st = "returned" /\ call'[u].result.ok =>
                     /\ seen[call'[u].key] <= call'[u].result.val
                     /\ call'[u].result.val <= truth[call'[u].key]
                     /\ cache[call'[u].key].left > 0 =>
                           call'[u].result.val <= cache[call'[u].key].val
    <3>1. CASE u = w
      BY <1>5, <1>6, <2>1, <3>1
    <3>2. CASE u # w
      BY <1>6, <3>2, Zenon DEF Monotone
    <3>3. QED
      BY <3>1, <3>2
  <2>3. seen' = seen /\ observed' = observed /\ truth' = truth /\ cache' = cache
    BY <1>4 DEF passVars
  <2>4. \A l \in Keys :
            /\ seen[l] <= truth[l]
            /\ observed[l] > 0 => seen[l] <= observed[l] /\ observed[l] <= truth[l]
            /\ cache[l].left > 0 =>
                  /\ seen[l] <= cache[l].val /\ observed[l] <= cache[l].val
                  /\ cache[l].val <= truth[l]
    BY Zenon DEF Monotone
  <2>5. \A l \in Keys :
            /\ seen'[l] <= truth'[l]
            /\ observed'[l] > 0 => seen'[l] <= observed'[l] /\ observed'[l] <= truth'[l]
            /\ cache'[l].left > 0 =>
                  /\ seen'[l] <= cache'[l].val /\ observed'[l] <= cache'[l].val
                  /\ cache'[l].val <= truth'[l]
    BY <2>3, <2>4
  <2>6. \A u \in Slots : call'[u].st = "answered" =>
            seen'[call'[u].key] <= call'[u].val /\ call'[u].val <= truth'[call'[u].key]
    BY <2>2, <2>3
  <2>7. \A u \in Slots : call'[u].st = "returned" /\ call'[u].result.ok =>
            /\ seen'[call'[u].key] <= call'[u].result.val
            /\ call'[u].result.val <= truth'[call'[u].key]
            /\ cache'[call'[u].key].left > 0 => call'[u].result.val <= cache'[call'[u].key].val
    BY <2>2, <2>3
  <2>8. QED
    BY <2>5, <2>6, <2>7, Zenon DEF Monotone
<1>11. QED
  BY <1>6, <1>7, <1>8, <1>9, <1>10

(* GitHub is asked: on a miss only after a pause of one TTL.               *)
LEMMA AskInd ==
    ASSUME ScanInd, NEW w \in Slots, CacheMiss(w) \/ CacheGetFails(w), UNCHANGED passVars
    PROVE  ScanInd'
<1> USE DEF ScanInd
<1> DEFINE k == call[w].key
           c == [st |-> "asking", key |-> k, took |-> 0]
<1>1. call[w] \in Calls /\ call[w].st = "looking" /\ k \in Keys /\ call[w] # NoCall
  BY CallShape DEF CacheMiss, CacheGetFails, GHTypeOK, NoCall
<1>2. c \in Calls /\ Slot(w, c)
  <2>1. 0 \in 0..CallTime
    BY ClientBounds
  <2>2. c \in Calls
    BY <1>1, <2>1, NewCalls, Zenon
  <2>3. QED
    BY <2>2 DEF CacheMiss, CacheGetFails, Ask, Slot
<1>3. /\ UNCHANGED <<truth, cache, sinceAnswer>>
      /\ redisFailed' = TRUE \/ (redisFailed' = redisFailed /\ cache[k].left = 0)
  BY DEF CacheMiss, CacheGetFails
<1>4. c.st = "asking" /\ c.key = k
  OBVIOUS
<1> HIDE DEF c
<1>5. /\ call' \in [Slots -> Calls] /\ call'[w] = c
      /\ \A u \in Slots : u # w => call'[u] = call[u]
      /\ PassTypeOK' /\ OneCallPerKey' /\ PassAccounted'
  BY <1>1, <1>2, <1>4, CallGoesOn
<1>6. GHTypeOK' /\ CopiesFresh' /\ AnswersFresh'
  BY <1>3, <1>4, <1>5, Zenon DEF GHTypeOK, CopiesFresh, AnswersFresh
<1>7. CacheCovers'
  BY <1>1, <1>3, <1>5 DEF CacheCovers, passVars
<1>8. OneRequestPerTTL'
  <2>1. ASSUME user = "scanner", ~redisFailed, cache[k].left = 0
        PROVE  sinceAnswer[k] >= TTL
    <3>1. ~\E u \in Slots : call[u].st = "answered" /\ call[u].key = k
      BY <1>1, <2>1 DEF OneCallPerKey, Busy, NoCall
    <3>2. QED
      BY <1>1, <2>1, <3>1, ClientBounds DEF CacheCovers, GHTypeOK
  <2>2. QED
    BY <1>3, <1>4, <1>5, <2>1 DEF OneRequestPerTTL, passVars
<1>9. Monotone'
  BY <1>1, <1>3, <1>4, <1>5 DEF Monotone, passVars
<1>10. QED
  BY <1>5, <1>6, <1>7, <1>8, <1>9

(* GitHub answers with the current version.                                *)
LEMMA AnswerInd ==
    ASSUME ScanInd, NEW w \in Slots, GitHubAnswers(w), UNCHANGED passVars
    PROVE  ScanInd'
<1> USE DEF ScanInd
<1> DEFINE k == call[w].key
           c == [st |-> "answered", key |-> k, took |-> call[w].took, val |-> truth[k], old |-> 0]
<1>1. call[w] \in Asking /\ call[w].st = "asking" /\ k \in Keys /\ call[w] # NoCall
  BY CallShape DEF GitHubAnswers, GHTypeOK, NoCall
<1>2. call[w].took \in 0..CallTime /\ truth[k] \in Nat /\ 0 \in 0..CallTime
  BY <1>1, ClientBounds DEF Asking, GHTypeOK
<1>3. c \in Calls /\ Slot(w, c)
  BY <1>1, <1>2, NewCalls, Zenon DEF GitHubAnswers, Slot
<1>4. /\ UNCHANGED <<truth, cache, redisFailed>>
      /\ sinceAnswer' = [sinceAnswer EXCEPT ![k] = 0]
  BY DEF GitHubAnswers
<1>5. /\ c.st = "answered" /\ c.key = k /\ c.took \in Nat /\ c.val = truth[k] /\ c.old = 0
  BY <1>2, ClientBounds
<1> HIDE DEF c
<1>6. /\ call' \in [Slots -> Calls] /\ call'[w] = c
      /\ \A u \in Slots : u # w => call'[u] = call[u]
      /\ PassTypeOK' /\ OneCallPerKey' /\ PassAccounted'
  BY <1>1, <1>3, <1>5, CallGoesOn
<1>7. GHTypeOK' /\ CopiesFresh' /\ AnswersFresh'
  <2>1. sinceAnswer' \in [Keys -> 0..TTL]
    BY <1>1, <1>4, ClientBounds DEF GHTypeOK
  <2>2. GHTypeOK'
    BY <1>4, <1>6, <2>1 DEF GHTypeOK
  <2>3. CopiesFresh'
    BY <1>4, <1>5, <1>6 DEF CopiesFresh
  <2>4. AnswersFresh'
    BY <1>5, <1>6 DEF AnswersFresh
  <2>5. QED
    BY <2>2, <2>3, <2>4
<1>8. /\ sinceAnswer'[k] = 0
      /\ \A l \in Keys : l # k => sinceAnswer'[l] = sinceAnswer[l]
  BY <1>1, <1>4 DEF GHTypeOK
<1>9. CacheCovers'
  BY <1>1, <1>4, <1>5, <1>6, <1>8 DEF CacheCovers, passVars
<1>10. OneRequestPerTTL'
  <2>1. \A u \in Slots : user = "scanner" /\ call'[u].st = "asking" =>
           call[u].st = "asking" /\ call[u].key \in Keys /\ call[u].key # k /\ call'[u] = call[u]
    BY <1>1, <1>5, <1>6, CallShape DEF OneCallPerKey, Busy, NoCall, GHTypeOK
  <2>2. QED
    BY <1>4, <1>8, <2>1 DEF OneRequestPerTTL, passVars
<1>11. Monotone'
  BY <1>1, <1>2, <1>4, <1>5, <1>6 DEF Monotone, passVars, PassTypeOK
<1>12. QED
  BY <1>6, <1>7, <1>9, <1>10, <1>11

(* The call ends without an answer.                                        *)
LEMMA NoAnswerInd ==
    ASSUME ScanInd, NEW w \in Slots, GitHubFails(w) \/ (CallCancelled(w) /\ aborted),
           UNCHANGED passVars
    PROVE  ScanInd'
<1> USE DEF ScanInd
<1> DEFINE k == call[w].key
<1>1. call[w] \in Calls /\ call[w].st \in {"looking", "asking"} /\ k \in Keys
  BY CallShape DEF GitHubFails, CallCancelled, GHTypeOK, NoCall
<1>2. PICK why \in {"stop", "error", "cancelled"} :
        /\ Returns(w, Failed(why))
        /\ why = "cancelled" => aborted
  BY DEF GitHubFails, CallCancelled
<1> DEFINE c == [st |-> "returned", key |-> k, result |-> [ok |-> FALSE, why |-> why]]
<1>3. c \in Calls /\ Slot(w, c)
  BY <1>1, <1>2, NewCalls, Zenon DEF Returns, Failed, Slot
<1>4. UNCHANGED <<truth, cache, sinceAnswer, redisFailed>>
  BY DEF GitHubFails, CallCancelled
<1>5. c.st = "returned" /\ c.key = k /\ c.result.ok = FALSE /\ c.result.why = why
  OBVIOUS
<1>6. user = "scanner" /\ why = "cancelled" => refused
  BY <1>2 DEF PassAccounted
<1> HIDE DEF c
<1>7. /\ call' \in [Slots -> Calls] /\ call'[w] = c
      /\ \A u \in Slots : u # w => call'[u] = call[u]
      /\ PassTypeOK' /\ OneCallPerKey' /\ PassAccounted'
  BY <1>1, <1>3, <1>5, <1>6, CallGoesOn
<1>8. GHTypeOK' /\ CopiesFresh' /\ AnswersFresh'
  BY <1>4, <1>5, <1>7 DEF GHTypeOK, CopiesFresh, AnswersFresh
<1>9. CacheCovers' /\ OneRequestPerTTL' /\ Monotone'
  BY <1>1, <1>4, <1>5, <1>7 DEF CacheCovers, OneRequestPerTTL, Monotone, passVars
<1>10. QED
  BY <1>7, <1>8, <1>9

(* The answer is stored, unless Redis fails, and returned.                 *)
LEMMA StoreInd ==
    ASSUME ScanInd, NEW w \in Slots, StoreAndReturn(w), UNCHANGED passVars
    PROVE  ScanInd'
<1> USE DEF ScanInd
<1> DEFINE k == call[w].key
           v == call[w].val
           o == call[w].old
           e == [val |-> v, old |-> o, left |-> TTL]
           c == [st |-> "returned", key |-> k, result |-> [ok |-> TRUE, val |-> v, old |-> o]]
<1>1. call[w] \in HasAnswer /\ call[w].st = "answered" /\ k \in Keys
  BY CallShape DEF StoreAndReturn, GHTypeOK, NoCall
<1>2. v \in Nat /\ o \in Nat /\ o <= CallTime
  BY <1>1, ClientBounds DEF HasAnswer
<1>3. c \in Calls /\ Slot(w, c)
  BY <1>1, <1>2, NewCalls, Zenon DEF StoreAndReturn, Returns, Answered, Slot
<1>4. /\ UNCHANGED <<truth, sinceAnswer>>
      /\ \/ cache' = [cache EXCEPT ![k] = e] /\ redisFailed' = redisFailed
         \/ redisFailed' = TRUE /\ cache' = cache
  BY DEF StoreAndReturn, Entry
<1>5. /\ c.st = "returned" /\ c.key = k /\ c.result.ok = TRUE
      /\ c.result.val = v /\ c.result.old = o
  OBVIOUS
<1>6. e \in [val : Nat, old : Nat, left : 0..TTL] /\ e.val = v /\ e.old = o /\ e.left = TTL /\ TTL > 0
  BY <1>2, ClientBounds
<1> HIDE DEF c, e
<1>7. /\ call' \in [Slots -> Calls] /\ call'[w] = c
      /\ \A u \in Slots : u # w => call'[u] = call[u]
      /\ PassTypeOK' /\ OneCallPerKey' /\ PassAccounted'
  BY <1>1, <1>3, <1>5, CallGoesOn
<1>8. GHTypeOK'
  BY <1>1, <1>4, <1>6, <1>7, Zenon DEF GHTypeOK
<1>9. \A l \in Keys : \/ cache'[l] = cache[l] /\ (l # k \/ redisFailed')
                      \/ l = k /\ cache'[l] = e
  BY <1>1, <1>4 DEF GHTypeOK
<1>10. CopiesFresh'
  <2>1. e.old + e.left <= Horizon
    BY <1>2, <1>6, ClientBounds DEF Horizon
  <2>2. QED
    BY <1>5, <1>7, <1>9, <2>1 DEF CopiesFresh
<1>11. AnswersFresh'
  <2>1. o < Horizon
    BY <1>2, ClientBounds DEF Horizon
  <2>2. QED
    BY <1>5, <1>7, <2>1 DEF AnswersFresh
<1>12. CacheCovers'
  <2>1. sinceAnswer[k] \in Nat /\ sinceAnswer[k] + e.left >= TTL
    BY <1>1, <1>6, ClientBounds DEF GHTypeOK
  <2>2. QED
    BY <1>1, <1>4, <1>7, <1>9, <2>1 DEF CacheCovers, passVars
<1>13. OneRequestPerTTL'
  BY <1>4, <1>5, <1>7 DEF OneRequestPerTTL, passVars
<1>14. Monotone'
  <2> SUFFICES ASSUME user' = "scanner", ~redisFailed', user = "scanner", ~redisFailed
               PROVE  Monotone'
    BY <1>4 DEF Monotone, passVars
  <2>1. seen[k] <= v /\ v <= truth[k] /\ observed[k] = 0 /\ observed[k] <= v
    BY <1>1, <1>2 DEF Monotone, OneCallPerKey, Busy, NoCall
  <2>2. \A u \in Slots : call[u].st = "returned" => u # w /\ call[u].key # k /\ call[u].key \in Keys
    BY <1>1, CallShape DEF OneCallPerKey, Busy, NoCall, GHTypeOK
  <2>3. \A l \in Keys : (l # k => cache'[l] = cache[l]) /\ (l = k => cache'[l] = e)
    BY <1>9
  <2>4. \A l \in Keys : cache'[l].left > 0 =>
           seen[l] <= cache'[l].val /\ observed[l] <= cache'[l].val /\ cache'[l].val <= truth[l]
    BY <1>6, <2>1, <2>3 DEF Monotone
  <2>5. ASSUME NEW u \in Slots, call'[u].st = "returned", call'[u].result.ok
        PROVE  /\ seen[call'[u].key] <= call'[u].result.val
               /\ call'[u].result.val <= truth[call'[u].key]
               /\ cache'[call'[u].key].left > 0 => call'[u].result.val <= cache'[call'[u].key].val
    <3>1. CASE u = w
      BY <1>1, <1>2, <1>5, <1>6, <1>7, <2>1, <2>3, <3>1
    <3>2. CASE u # w
      BY <1>7, <2>2, <2>3, <2>5, <3>2 DEF Monotone
    <3>3. QED
      BY <3>1, <3>2
  <2>6. \A u \in Slots : call'[u].st = "answered" =>
           seen[call'[u].key] <= call'[u].val /\ call'[u].val <= truth[call'[u].key]
    BY <1>5, <1>7 DEF Monotone
  <2>7. QED
    BY <1>4, <2>4, <2>5, <2>6, Zenon DEF Monotone, passVars
<1>15. QED
  BY <1>7, <1>8, <1>10, <1>11, <1>12, <1>13, <1>14

(* A call begins, for a repository that has none in this pass.             *)
LEMMA CallInd ==
    ASSUME ScanInd, NEW w \in Slots, NEW k \in Keys, Call(w, k),
           UNCHANGED <<user, pass, aborted, observed, tried, refused, seen>>,
           \/ user = "subscribe" /\ todo' = todo
           \/ pass = "running" /\ k \in todo /\ todo' = todo \ {k}
    PROVE  ScanInd'
<1> USE DEF ScanInd
<1> DEFINE c == [st |-> "looking", key |-> k]
<1>1. c \in Calls /\ Slot(w, c) /\ call[w] = NoCall /\ call[w].st = "idle"
  BY NewCalls, Zenon DEF Call, Slot
<1>2. UNCHANGED <<truth, cache, sinceAnswer, redisFailed>>
  BY Zenon DEF Call
<1>3. c.st = "looking" /\ c.key = k /\ c # NoCall
  BY DEF NoCall
<1> HIDE DEF c
<1>4. /\ call' \in [Slots -> Calls] /\ call'[w] = c
      /\ \A u \in Slots : u # w => call'[u] = call[u]
  BY <1>1, SlotFacts
<1>5. GHTypeOK' /\ PassTypeOK'
  BY <1>2, <1>4 DEF GHTypeOK, PassTypeOK
<1>6. CopiesFresh' /\ AnswersFresh'
  BY <1>2, <1>3, <1>4, Zenon DEF CopiesFresh, AnswersFresh
<1>7. /\ Busy(w)' /\ ~Busy(w)
      /\ \A u \in Slots : u # w => (Busy(u)' <=> Busy(u)) /\ call'[u].key = call[u].key
  BY <1>1, <1>3, <1>4 DEF Busy
<1>8. OneCallPerKey'
  <2>1. CASE user = "subscribe"
    BY <2>1 DEF OneCallPerKey, PassTypeOK
  <2>2. CASE pass = "running" /\ k \in todo /\ todo' = todo \ {k}
    <3>1. user = "scanner" /\ observed[k] = 0 /\ \A u \in Slots : Busy(u) => call[u].key # k
      BY <2>2 DEF OneCallPerKey
    <3>2. QED
      BY <1>3, <1>4, <1>7, <2>2, <3>1 DEF OneCallPerKey
  <2>3. QED
    BY <2>1, <2>2
<1>9. PassAccounted'
  <2>1. \A u \in Slots : call'[u].st = "returned" => call'[u] = call[u] /\ u # w
    BY <1>3, <1>4
  <2>2. ASSUME user = "scanner", pass = "running", ~refused, NEW l \in Keys \ (todo' \cup tried)
        PROVE  \E u \in Slots : Busy(u)' /\ call'[u].key = l
    <3>1. CASE l = k
      BY <1>3, <1>4, <1>7, <3>1
    <3>2. CASE l # k
      <4>1. PICK u \in Slots : Busy(u) /\ call[u].key = l
        BY <2>2, <3>2 DEF PassAccounted
      <4>2. QED
        BY <1>7, <4>1
    <3>3. QED
      BY <3>1, <3>2
  <2>3. QED
    BY <2>1, <2>2 DEF PassAccounted
<1>10. CacheCovers'
  BY <1>1, <1>2, <1>4 DEF CacheCovers
<1>11. OneRequestPerTTL'
  BY <1>2, <1>3, <1>4 DEF OneRequestPerTTL
<1>12. Monotone'
  BY <1>2, <1>3, <1>4 DEF Monotone
<1>13. QED
  BY <1>5, <1>6, <1>8, <1>9, <1>10, <1>11, <1>12

(* Facts about a slot that the caller has emptied.                         *)
LEMMA TakeFacts ==
    ASSUME GHTypeOK, NEW w \in Slots, Take(w)
    PROVE  /\ call' \in [Slots -> Calls] /\ call'[w] = NoCall /\ call'[w].st = "idle"
           /\ \A u \in Slots : u # w => call'[u] = call[u]
           /\ UNCHANGED <<truth, cache, sinceAnswer, redisFailed>>
           /\ call[w] \in Over /\ call[w].key \in Keys /\ Busy(w) /\ ~Busy(w)'
           /\ \A u \in Slots : u # w => (Busy(u)' <=> Busy(u))
<1>1. NoCall \in Calls /\ NoCall.st = "idle"
  BY DEF Calls, NoCall
<1>2. Slot(w, NoCall) /\ UNCHANGED <<truth, cache, sinceAnswer, redisFailed>> /\ call[w].st = "returned"
  BY DEF Take, Slot
<1>3. /\ call' \in [Slots -> Calls] /\ call'[w] = NoCall
      /\ \A u \in Slots : u # w => call'[u] = call[u]
  BY <1>1, <1>2, SlotFacts, Zenon
<1>4. call[w] \in Over /\ call[w].key \in Keys /\ call[w] # NoCall
  BY <1>1, <1>2, CallShape DEF GHTypeOK
<1>5. QED
  BY <1>1, <1>2, <1>3, <1>4 DEF Busy

(* A subscribe call has its answer.                                        *)
LEMMA CheckedInd ==
    ASSUME ScanInd, NEW w \in Slots, Checked(w)
    PROVE  ScanInd'
<1> USE DEF ScanInd
<1>1. Take(w) /\ UNCHANGED passVars /\ user = "subscribe" /\ user' = "subscribe"
  BY DEF Checked, passVars
<1>2. GHTypeOK' /\ PassTypeOK' /\ CopiesFresh' /\ AnswersFresh'
  BY <1>1, TakeFacts DEF GHTypeOK, PassTypeOK, CopiesFresh, AnswersFresh, passVars
<1>3. OneCallPerKey'
  BY <1>1, Zenon DEF OneCallPerKey, passVars
<1>4. PassAccounted' /\ CacheCovers' /\ OneRequestPerTTL' /\ Monotone'
  BY <1>1, Zenon DEF PassAccounted, CacheCovers, OneRequestPerTTL, Monotone
<1>5. QED
  BY <1>2, <1>3, <1>4

(* A worker of the pass has its answer, or its error.                      *)
LEMMA FetchedInd ==
    ASSUME ScanInd, NEW w \in Slots, Fetched(w)
    PROVE  ScanInd'
<1> USE DEF ScanInd
<1> DEFINE k == call[w].key
           r == call[w].result
<1>1. /\ Take(w) /\ user = "scanner"
      /\ UNCHANGED <<user, due, pass, todo, seen>>
      /\ observed' = IF r.ok THEN [observed EXCEPT ![k] = r.val] ELSE observed
      /\ aborted' = (aborted \/ (~r.ok /\ r.why = "stop"))
      /\ refused' = (refused \/ (~r.ok /\ r.why = "stop"))
      /\ tried' = IF r.ok \/ r.why = "error" THEN tried \cup {k} ELSE tried
  BY DEF Fetched, EndsPass
<1>2. /\ call' \in [Slots -> Calls] /\ call'[w] = NoCall /\ call'[w].st = "idle"
      /\ \A u \in Slots : u # w => call'[u] = call[u]
      /\ UNCHANGED <<truth, cache, sinceAnswer, redisFailed>>
      /\ k \in Keys /\ Busy(w) /\ ~Busy(w)'
      /\ \A u \in Slots : u # w => (Busy(u)' <=> Busy(u))
  BY <1>1, TakeFacts
<1>3. r \in Good \/ r \in Bad
  BY <1>1, TakeFacts DEF Over
<1>4. /\ r.ok \in BOOLEAN /\ (r.ok => r.val \in Nat)
      /\ ~r.ok => r.why \in {"stop", "error", "cancelled"}
  BY <1>3, Zenon DEF Good, Bad
<1>5. call[w].st = "returned"
  BY <1>1 DEF Take
<1>6. /\ observed' \in [Keys -> Nat] /\ (r.ok => observed'[k] = r.val) /\ (~r.ok => observed' = observed)
      /\ \A l \in Keys : l # k => observed'[l] = observed[l]
  BY <1>1, <1>2, <1>4, Zenon DEF PassTypeOK
<1>7. /\ pass = "running" /\ k \notin todo /\ observed[k] = 0
      /\ \A u \in Slots : u # w /\ Busy(u) => call[u].key # k
  BY <1>1, <1>2, Zenon DEF OneCallPerKey
<1> HIDE DEF k, r
<1>8. GHTypeOK'
  BY <1>2 DEF GHTypeOK
<1>9. PassTypeOK'
  BY <1>1, <1>2, <1>4, <1>6 DEF PassTypeOK
<1>10. CopiesFresh' /\ AnswersFresh'
  BY <1>2 DEF CopiesFresh, AnswersFresh
<1>11. \A u \in Slots : Busy(u) => call[u].key \in Keys
  BY CallShape DEF GHTypeOK, Busy
<1>12. OneCallPerKey'
  <2>1. ASSUME NEW u \in Slots, Busy(u)'
        PROVE  /\ Busy(u) /\ call'[u] = call[u]
               /\ call[u].key \in Keys /\ call[u].key # k
    BY <1>2, <1>7, <1>11, <2>1, Zenon
  <2>2. ASSUME NEW u \in Slots, Busy(u)'
        PROVE  /\ pass' = "running" /\ call'[u].key \notin todo' /\ observed'[call'[u].key] = 0
               /\ \A v \in Slots : Busy(v)' /\ call'[v].key = call'[u].key => v = u
    <3>1. call[u].key \notin todo /\ observed[call[u].key] = 0
      BY <1>1, <2>1, <2>2, Zenon DEF OneCallPerKey
    <3>2. \A v \in Slots : Busy(v) /\ call[v].key = call[u].key => v = u
      BY <1>1, <2>1, <2>2, Zenon DEF OneCallPerKey
    <3>3. pass' = "running" /\ call'[u].key \notin todo'
      BY <1>1, <1>7, <2>1, <2>2, <3>1
    <3>4. observed'[call'[u].key] = 0
      BY <1>6, <2>1, <2>2, <3>1
    <3>5. ASSUME NEW v \in Slots, Busy(v)', call'[v].key = call'[u].key
          PROVE  v = u
      <4>1. Busy(v) /\ call[v].key = call[u].key
        BY <2>1, <2>2, <3>5
      <4>2. QED
        BY <3>2, <4>1
    <3>6. QED
      BY <3>3, <3>4, <3>5
  <2>3. \A l \in todo : l \in Keys /\ l # k /\ observed[l] = 0
    BY <1>1, <1>7, Zenon DEF OneCallPerKey, PassTypeOK
  <2>4. \A l \in todo' : observed'[l] = 0
    BY <1>1, <1>6, <2>3, Zenon
  <2>5. pass' # "idle"
    BY <1>1, <1>7
  <2>6. QED
    BY <1>1, <2>2, <2>4, <2>5, Zenon DEF OneCallPerKey
<1>13. PassAccounted'
  <2>1. aborted' => refused'
    BY <1>1, Zenon DEF PassAccounted
  <2>2. \A u \in Slots : call'[u].st = "returned" /\ ~call'[u].result.ok =>
            (call'[u].result.why = "cancelled" => refused')
    BY <1>1, <1>2, Zenon DEF PassAccounted
  <2>3. ~r.ok /\ r.why = "cancelled" => refused
    BY <1>1, <1>5 DEF PassAccounted, r
  <2>4. ~refused' => ~refused /\ k \in tried' /\ tried \subseteq tried'
    BY <1>1, <1>4, <2>3, Zenon
  <2>5. ASSUME ~refused', NEW l \in Keys \ (todo' \cup tried')
        PROVE  \E u \in Slots : Busy(u)' /\ call'[u].key = l
    <3>1. l \in Keys \ (todo \cup tried) /\ l # k
      BY <1>1, <2>4, <2>5
    <3>2. PICK u \in Slots : Busy(u) /\ call[u].key = l
      BY <1>1, <1>7, <2>4, <2>5, <3>1 DEF PassAccounted
    <3>3. QED
      BY <1>2, <3>1, <3>2 DEF k
  <2>6. QED
    BY <2>1, <2>2, <2>5, Zenon DEF PassAccounted
<1>14. CacheCovers'
  BY <1>1, <1>2, <1>5 DEF CacheCovers
<1>15. OneRequestPerTTL'
  BY <1>1, <1>2 DEF OneRequestPerTTL
<1>16. Monotone'
  <2> SUFFICES ASSUME ~redisFailed, user = "scanner" PROVE Monotone'
    BY <1>1, <1>2, Zenon DEF Monotone
  <2>1. r.ok => /\ seen[k] <= r.val /\ r.val <= truth[k]
                /\ cache[k].left > 0 => r.val <= cache[k].val
    BY <1>5, Zenon DEF Monotone, k, r
  <2>2. \A l \in Keys : /\ observed'[l] > 0 => seen[l] <= observed'[l] /\ observed'[l] <= truth[l]
                        /\ cache[l].left > 0 => observed'[l] <= cache[l].val
    BY <1>2, <1>6, <2>1, Zenon DEF Monotone
  <2>3. QED
    BY <1>1, <1>2, <2>2, Zenon DEF Monotone
<1>17. QED
  BY <1>8, <1>9, <1>10, <1>12, <1>13, <1>14, <1>15, <1>16

(* A pass begins, with every repository to come.                           *)
LEMMA PassStartsInd ==
    ASSUME ScanInd, PassStarts
    PROVE  ScanInd'
<1> USE DEF ScanInd
<1>1. /\ UNCHANGED ghVars /\ UNCHANGED <<user, aborted, observed, tried, refused, seen>>
      /\ user = "scanner" /\ pass = "idle" /\ pass' = "running" /\ todo' = Keys
  BY DEF PassStarts
<1>2. GHTypeOK' /\ PassTypeOK' /\ CopiesFresh' /\ AnswersFresh'
  BY <1>1 DEF GHTypeOK, PassTypeOK, CopiesFresh, AnswersFresh, ghVars
<1>3. OneCallPerKey'
  BY <1>1 DEF OneCallPerKey, Busy, ghVars
<1>4. PassAccounted'
  BY <1>1 DEF PassAccounted, Busy, ghVars
<1>5. CacheCovers' /\ OneRequestPerTTL' /\ Monotone'
  BY <1>1, Zenon DEF CacheCovers, OneRequestPerTTL, Monotone, ghVars
<1>6. QED
  BY <1>2, <1>3, <1>4, <1>5

(* A pass ends, its workers done.                                          *)
LEMMA PassEndsInd ==
    ASSUME ScanInd, PassEnds
    PROVE  ScanInd'
<1> USE DEF ScanInd
<1>1. /\ UNCHANGED ghVars /\ user' = user /\ pass = "running"
      /\ pass' = "idle" /\ todo' = {} /\ aborted' = FALSE /\ refused' = FALSE /\ tried' = {}
      /\ observed' = [k \in Keys |-> 0]
      /\ seen' = [k \in Keys |-> IF observed[k] > 0 THEN observed[k] ELSE seen[k]]
      /\ \A w \in Slots : call[w] = NoCall
  BY Zenon DEF PassEnds, WorkersDone
<1>2. \A w \in Slots : call[w].st = "idle" /\ call'[w] = NoCall /\ call'[w].st = "idle"
  BY <1>1 DEF NoCall, ghVars
<1>3. GHTypeOK' /\ CopiesFresh' /\ AnswersFresh'
  BY <1>1, <1>2 DEF GHTypeOK, CopiesFresh, AnswersFresh, ghVars
<1>4. PassTypeOK'
  BY <1>1, Zenon DEF PassTypeOK
<1>5. OneCallPerKey'
  BY <1>1, <1>2 DEF OneCallPerKey, Busy
<1>6. PassAccounted'
  BY <1>1, <1>2 DEF PassAccounted
<1>7. CacheCovers' /\ OneRequestPerTTL'
  BY <1>1, <1>2, Zenon DEF CacheCovers, OneRequestPerTTL, ghVars
<1>8. Monotone'
  <2> SUFFICES ASSUME ~redisFailed, user = "scanner" PROVE Monotone'
    BY <1>1, Zenon DEF Monotone, ghVars
  <2>1. \A k \in Keys : seen'[k] <= truth[k] /\ (cache[k].left > 0 => seen'[k] <= cache[k].val)
    BY <1>1 DEF Monotone
  <2>2. \A k \in Keys : cache[k].left > 0 => 0 <= cache[k].val /\ cache[k].val <= truth[k]
    BY DEF Monotone, GHTypeOK
  <2>3. \A k \in Keys : observed'[k] = 0 /\ cache' = cache /\ truth' = truth
    BY <1>1, Zenon DEF ghVars
  <2>4. \A w \in Slots : call'[w].st # "answered" /\ call'[w].st # "returned"
    BY <1>2
  <2>5. ASSUME NEW k \in Keys
        PROVE  /\ seen'[k] <= truth'[k] /\ ~(observed'[k] > 0)
               /\ cache'[k].left > 0 =>
                     /\ seen'[k] <= cache'[k].val /\ observed'[k] <= cache'[k].val
                     /\ cache'[k].val <= truth'[k]
    BY <2>1, <2>2, <2>3
  <2>6. QED
    BY <2>4, <2>5, Zenon DEF Monotone
<1>9. QED
  BY <1>3, <1>4, <1>5, <1>6, <1>7, <1>8

(* A release is published.                                                 *)
LEMMA ChangeInd ==
    ASSUME ScanInd, NEW k \in Keys, Change(k), UNCHANGED passVars
    PROVE  ScanInd'
<1> USE DEF ScanInd
<1>1. /\ truth' = [truth EXCEPT ![k] = @ + 1]
      /\ UNCHANGED <<cache, call, sinceAnswer, redisFailed>>
  BY DEF Change
<1>2. truth' \in [Keys -> Nat] /\ \A l \in Keys : truth[l] \in Nat /\ truth'[l] \in Nat /\ truth[l] <= truth'[l]
  BY <1>1 DEF GHTypeOK
<1>3. GHTypeOK' /\ PassTypeOK' /\ CopiesFresh' /\ AnswersFresh'
  BY <1>1, <1>2 DEF GHTypeOK, PassTypeOK, CopiesFresh, AnswersFresh, passVars
<1>4. OneCallPerKey' /\ PassAccounted'
  BY <1>1, Zenon DEF OneCallPerKey, PassAccounted, Busy, passVars
<1>5. CacheCovers' /\ OneRequestPerTTL'
  BY <1>1 DEF CacheCovers, OneRequestPerTTL, passVars
<1>6. Monotone'
  <2> SUFFICES ASSUME ~redisFailed, user = "scanner" PROVE Monotone'
    BY <1>1, Zenon DEF Monotone, passVars
  <2>1. \A l \in Keys : seen[l] \in Nat /\ observed[l] \in Nat /\ cache[l].val \in Nat
    BY DEF GHTypeOK, PassTypeOK
  <2>2. \A w \in Slots : /\ call[w].st = "answered" => call[w].key \in Keys /\ call[w].val \in Nat
                         /\ call[w].st = "returned" /\ call[w].result.ok =>
                               call[w].key \in Keys /\ call[w].result.val \in Nat
    BY CallShape, Zenon DEF GHTypeOK, HasAnswer, Over, Good, Bad
  <2>3. \A l \in Keys :
          /\ seen[l] <= truth'[l]
          /\ observed[l] > 0 => observed[l] <= truth'[l]
          /\ cache[l].left > 0 => cache[l].val <= truth'[l]
    BY <1>2, <2>1 DEF Monotone
  <2>4. \A w \in Slots : /\ call[w].st = "answered" => call[w].val <= truth'[call[w].key]
                         /\ call[w].st = "returned" /\ call[w].result.ok =>
                               call[w].result.val <= truth'[call[w].key]
    BY <1>2, <2>2 DEF Monotone
  <2>5. QED
    BY <1>1, <2>3, <2>4, Zenon DEF Monotone, passVars
<1>7. QED
  BY <1>3, <1>4, <1>5, <1>6

(* One tick later: the calls, and the entries of the cache.                *)
LEMMA TickFacts ==
    ASSUME GHTypeOK, CopiesFresh, Tick
    PROVE  /\ call' \in [Slots -> Calls]
           /\ \A w \in Slots :
                 /\ call'[w].st = call[w].st /\ (Busy(w)' <=> Busy(w))
                 /\ call'[w].st # "returned"
                 /\ Busy(w) => call'[w].key = call[w].key /\ call[w].key \in Keys
                 /\ call[w].st = "answered" =>
                       call'[w].val = call[w].val /\ call'[w].old <= call'[w].took
           /\ cache' \in [Keys -> [val : Nat, old : Nat, left : 0..TTL]]
           /\ \A k \in Keys :
                 \/ /\ cache[k].left > 1 /\ cache'[k].left = cache[k].left - 1
                    /\ cache'[k].val = cache[k].val /\ cache'[k].old <= cache[k].old + 1
                 \/ cache[k].left <= 1 /\ cache'[k].left = 0
           /\ sinceAnswer' \in [Keys -> 0..TTL]
           /\ \A k \in Keys : /\ sinceAnswer'[k] >= sinceAnswer[k]
                              /\ sinceAnswer'[k] > sinceAnswer[k] \/ sinceAnswer'[k] = TTL
           /\ UNCHANGED <<truth, redisFailed>>
<1>1. /\ \A w \in Slots : \/ call[w].st = "idle"
                          \/ call[w].st \in {"asking", "answered"} /\ call[w].took < CallTime
      /\ call' = [w \in Slots |->
            IF call[w].st = "idle" THEN NoCall
            ELSE LET c == [call[w] EXCEPT !.took = @ + 1]
                 IN  IF c.st = "answered" THEN Aged(c, c.key) ELSE c]
      /\ cache' = [k \in Keys |->
            IF cache[k].left > 1 THEN [Aged(cache[k], k) EXCEPT !.left = @ - 1] ELSE NoEntry]
      /\ sinceAnswer' = [k \in Keys |-> IF sinceAnswer[k] < TTL THEN sinceAnswer[k] + 1 ELSE TTL]
      /\ UNCHANGED <<truth, redisFailed>>
  BY DEF Tick
<1>2. ASSUME NEW w \in Slots
      PROVE  /\ call'[w] \in Calls
             /\ call'[w].st = call[w].st /\ (Busy(w)' <=> Busy(w))
             /\ call'[w].st # "returned"
             /\ Busy(w) => call'[w].key = call[w].key /\ call[w].key \in Keys
             /\ call[w].st = "answered" =>
                   call'[w].val = call[w].val /\ call'[w].old <= call'[w].took
  <2>1. call[w] \in Calls
    BY DEF GHTypeOK
  <2>2. CASE call[w].st = "idle"
    <3>1. call'[w] = NoCall /\ call[w] = NoCall /\ NoCall \in Calls /\ NoCall.st = "idle"
      BY <1>1, <2>1, <2>2, CallShape DEF Calls, NoCall
    <3>2. QED
      BY <2>2, <3>1 DEF Busy
  <2>3. CASE call[w].st = "asking"
    <3>1. call[w] \in Asking /\ call[w].took < CallTime
      BY <1>1, <2>1, <2>3, CallShape
    <3>2. call'[w] = [call[w] EXCEPT !.took = @ + 1]
      BY <1>1, <2>3, <3>1 DEF Asking
    <3>3. call'[w] \in Asking /\ call'[w].st = "asking" /\ call'[w].key = call[w].key /\ call[w].key \in Keys
      BY <3>1, <3>2, ClientBounds DEF Asking
    <3>4. QED
      BY <2>3, <3>3 DEF Calls, Busy, NoCall
  <2>4. CASE call[w].st = "answered"
    <3> DEFINE c == [call[w] EXCEPT !.took = @ + 1]
    <3>1. call[w] \in HasAnswer /\ call[w].took < CallTime /\ call[w].old <= call[w].took
      BY <1>1, <2>1, <2>4, CallShape DEF CopiesFresh
    <3>2. /\ c \in HasAnswer /\ c.st = "answered" /\ c.took = call[w].took + 1 /\ c.old = call[w].old
          /\ c.key = call[w].key /\ c.val = call[w].val
      BY <3>1, ClientBounds DEF HasAnswer
    <3>3. call'[w] = Aged(c, c.key)
      BY <1>1, <2>4, <3>2
    <3> HIDE DEF c
    <3>4. call'[w] = [c EXCEPT !.old = c.old] \/ call'[w] = [c EXCEPT !.old = c.old + 1]
      BY <3>2, <3>3 DEF Aged
    <3>5. c.old + 1 <= c.took /\ c.old \in Nat /\ c.old + 1 \in 0..CallTime /\ c.old \in 0..CallTime
      BY <3>1, <3>2, ClientBounds DEF HasAnswer
    <3>6. /\ call'[w] \in HasAnswer /\ call'[w].old <= c.took /\ call'[w].took = c.took
          /\ call'[w].key = c.key /\ call'[w].val = c.val
      BY <3>2, <3>4, <3>5, ClientBounds DEF HasAnswer
    <3>7. call'[w].st = "answered" /\ call[w].key \in Keys /\ call'[w] \in Calls
      BY <3>1, <3>6 DEF HasAnswer, Calls
    <3>8. QED
      BY <2>4, <3>2, <3>6, <3>7 DEF Busy, NoCall
  <2>5. QED
    BY <1>1, <2>2, <2>3, <2>4
<1>3. call' \in [Slots -> Calls]
  BY <1>1, <1>2, Zenon
<1>4. ASSUME NEW k \in Keys
      PROVE  /\ cache'[k] \in [val : Nat, old : Nat, left : 0..TTL]
             /\ \/ /\ cache[k].left > 1 /\ cache'[k].left = cache[k].left - 1
                   /\ cache'[k].val = cache[k].val /\ cache'[k].old <= cache[k].old + 1
                \/ cache[k].left <= 1 /\ cache'[k].left = 0
  <2>1. cache[k] \in [val : Nat, old : Nat, left : 0..TTL]
    BY DEF GHTypeOK
  <2>2. CASE cache[k].left > 1
    <3> DEFINE a == Aged(cache[k], k)
    <3>1. cache'[k] = [a EXCEPT !.left = @ - 1]
      BY <1>1, <2>2
    <3>2. a = [cache[k] EXCEPT !.old = cache[k].old] \/ a = [cache[k] EXCEPT !.old = cache[k].old + 1]
      BY <2>1 DEF Aged
    <3>3. /\ a \in [val : Nat, old : Nat, left : 0..TTL]
          /\ a.left = cache[k].left /\ a.val = cache[k].val /\ a.old <= cache[k].old + 1
      BY <2>1, <3>2
    <3> HIDE DEF a
    <3>4. a.left - 1 \in 0..TTL
      BY <2>1, <2>2, <3>3, ClientBounds
    <3>5. QED
      BY <2>2, <3>1, <3>3, <3>4
  <2>3. CASE ~(cache[k].left > 1)
    <3>1. cache'[k] = NoEntry /\ cache[k].left <= 1
      BY <1>1, <2>1, <2>3, ClientBounds
    <3>2. NoEntry \in [val : Nat, old : Nat, left : 0..TTL] /\ NoEntry.left = 0
      BY ClientBounds DEF NoEntry
    <3>3. QED
      BY <3>1, <3>2
  <2>4. QED
    BY <2>2, <2>3
<1>5. cache' \in [Keys -> [val : Nat, old : Nat, left : 0..TTL]]
  BY <1>1, <1>4
<1>6. /\ sinceAnswer' \in [Keys -> 0..TTL]
      /\ \A k \in Keys : /\ sinceAnswer'[k] >= sinceAnswer[k]
                         /\ sinceAnswer'[k] > sinceAnswer[k] \/ sinceAnswer'[k] = TTL
  BY <1>1, ClientBounds DEF GHTypeOK
<1>7. QED
  BY <1>1, <1>2, <1>3, <1>4, <1>5, <1>6, Zenon

(* Time passes.                                                            *)
LEMMA IntervalInd ==
    ASSUME ScanInd, Interval
    PROVE  ScanInd'
<1> USE DEF ScanInd
<1>1. Tick /\ UNCHANGED <<user, pass, todo, aborted, observed, tried, refused, seen>>
  BY DEF Interval
<1>2. GHTypeOK' /\ PassTypeOK'
  BY <1>1, TickFacts DEF GHTypeOK, PassTypeOK
<1>3. CopiesFresh'
  <2>1. \A k \in Keys : cache'[k].left > 0 => cache'[k].old + cache'[k].left <= Horizon
    <3> TAKE k \in Keys
    <3>1. HAVE cache'[k].left > 0
    <3>2. /\ cache[k].left > 1 /\ cache'[k].left = cache[k].left - 1
          /\ cache'[k].old <= cache[k].old + 1
      BY <1>1, <3>1, TickFacts
    <3>3. cache[k].old + cache[k].left <= Horizon /\ cache[k].left \in Nat /\ cache[k].old \in Nat
      BY <3>2, ClientBounds DEF CopiesFresh, GHTypeOK
    <3>4. cache'[k].old \in Nat /\ Horizon \in Nat
      BY <1>2, ClientBounds DEF GHTypeOK, Horizon
    <3>5. QED
      BY <3>2, <3>3, <3>4
  <2>2. QED
    BY <1>1, <2>1, TickFacts, Zenon DEF CopiesFresh, Horizon
<1>4. AnswersFresh'
  BY <1>1, TickFacts, Zenon DEF AnswersFresh
<1>5. OneCallPerKey'
  BY <1>1, TickFacts, Zenon DEF OneCallPerKey
<1>6. PassAccounted'
  <2>1. \A k \in Keys : (\E w \in Slots : Busy(w) /\ call[w].key = k)
                            => (\E w \in Slots : Busy(w)' /\ call'[w].key = k)
    BY <1>1, TickFacts, Zenon
  <2>2. QED
    BY <1>1, <2>1, TickFacts, Zenon DEF PassAccounted
<1>7. CacheCovers'
  <2> SUFFICES ASSUME user = "scanner", ~redisFailed, NEW k \in Keys
               PROVE  \/ sinceAnswer'[k] + cache'[k].left >= TTL
                      \/ \E w \in Slots : call'[w].st = "answered" /\ call'[w].key = k
    BY <1>1, TickFacts, Zenon DEF CacheCovers
  <2>1. CASE sinceAnswer[k] + cache[k].left >= TTL
    <3>1. /\ sinceAnswer[k] \in Nat /\ sinceAnswer'[k] \in Nat /\ cache[k].left \in Nat
          /\ cache'[k].left \in Nat
      BY <1>2, ClientBounds DEF GHTypeOK
    <3>2. sinceAnswer'[k] > sinceAnswer[k] \/ sinceAnswer'[k] = TTL
      BY <1>1, TickFacts, Zenon
    <3>3. cache'[k].left = cache[k].left - 1 \/ cache[k].left <= 1
      BY <1>1, TickFacts, Zenon
    <3>4. QED
      BY <2>1, <3>1, <3>2, <3>3, ClientBounds
  <2>2. CASE \E w \in Slots : call[w].st = "answered" /\ call[w].key = k
    <3>1. PICK w \in Slots : call[w].st = "answered" /\ call[w].key = k
      BY <2>2
    <3>2. Busy(w)
      BY <3>1 DEF Busy, NoCall
    <3>3. QED
      BY <1>1, <3>1, <3>2, TickFacts, Zenon
  <2>3. QED
    BY <2>1, <2>2, Zenon DEF CacheCovers
<1>8. OneRequestPerTTL'
  <2> SUFFICES ASSUME user = "scanner", ~redisFailed, NEW w \in Slots, call'[w].st = "asking"
               PROVE  sinceAnswer'[call'[w].key] >= TTL
    BY <1>1, TickFacts, Zenon DEF OneRequestPerTTL
  <2>1. call[w].st = "asking" /\ Busy(w)
    <3>1. call[w].st = "asking"
      BY <1>1, TickFacts, Zenon
    <3>2. QED
      BY <3>1 DEF Busy, NoCall
  <2>2. call'[w].key = call[w].key /\ call[w].key \in Keys /\ sinceAnswer[call[w].key] >= TTL
    BY <1>1, <2>1, TickFacts, Zenon DEF OneRequestPerTTL
  <2>3. QED
    BY <1>1, <1>2, <2>2, TickFacts, ClientBounds DEF GHTypeOK
<1>9. Monotone'
  <2> SUFFICES ASSUME user = "scanner", ~redisFailed PROVE Monotone'
    BY <1>1, TickFacts, Zenon DEF Monotone
  <2>1. \A k \in Keys : cache'[k].left > 0 => cache[k].left > 0 /\ cache'[k].val = cache[k].val
    BY <1>1, TickFacts, ClientBounds DEF GHTypeOK
  <2>2. \A w \in Slots : call'[w].st = "answered" =>
            call[w].st = "answered" /\ call'[w].key = call[w].key /\ call'[w].val = call[w].val
    BY <1>1, TickFacts, Zenon DEF Busy, NoCall
  <2>3. QED
    BY <1>1, <2>1, <2>2, TickFacts, Zenon DEF Monotone
<1>10. QED
  BY <1>2, <1>3, <1>4, <1>5, <1>6, <1>7, <1>8, <1>9

----------------------------------------------------------------------------
(* The invariant is inductive.                                             *)
LEMMA ScanStep ==
    ASSUME ScanInd, [ScanNext]_vars
    PROVE  ScanInd'
<1>1. CASE UNCHANGED vars
  <2>1. UNCHANGED <<truth, cache, call, sinceAnswer, redisFailed>> /\ UNCHANGED passVars
    BY <1>1 DEF vars, ghVars
  <2>2. GHTypeOK' /\ PassTypeOK' /\ CopiesFresh' /\ AnswersFresh'
    BY <2>1, Zenon DEF ScanInd, GHTypeOK, PassTypeOK, CopiesFresh, AnswersFresh, passVars
  <2>3. OneCallPerKey' /\ PassAccounted'
    BY <2>1, Zenon DEF ScanInd, OneCallPerKey, PassAccounted, Busy, passVars
  <2>4. CacheCovers' /\ OneRequestPerTTL' /\ Monotone'
    BY <2>1, Zenon DEF ScanInd, CacheCovers, OneRequestPerTTL, Monotone, passVars
  <2>5. QED
    BY <2>2, <2>3, <2>4 DEF ScanInd
<1>2. ASSUME NEW k \in Keys, Change(k), UNCHANGED passVars PROVE ScanInd'
  BY <1>2, ChangeInd
<1>3. CASE Interval
  BY <1>3, IntervalInd
<1>4. CASE PassStarts
  BY <1>4, PassStartsInd
<1>5. CASE PassEnds
  BY <1>5, PassEndsInd
<1>6. ASSUME NEW w \in Slots, Step(w) PROVE ScanInd'
  <2>1. UNCHANGED passVars
    BY <1>6 DEF Step
  <2>2. CASE CacheHit(w)
    BY <2>1, <2>2, HitInd
  <2>3. CASE CacheMiss(w) \/ CacheGetFails(w)
    BY <2>1, <2>3, AskInd
  <2>4. CASE GitHubAnswers(w)
    BY <2>1, <2>4, AnswerInd
  <2>5. CASE GitHubFails(w)
    BY <2>1, <2>5, NoAnswerInd
  <2>6. CASE StoreAndReturn(w)
    BY <2>1, <2>6, StoreInd
  <2>7. QED
    BY <1>6, <2>2, <2>3, <2>4, <2>5, <2>6 DEF Step, CallStep
<1>7. ASSUME NEW w \in Slots, FetchCancelled(w) PROVE ScanInd'
  BY <1>7, NoAnswerInd DEF FetchCancelled
<1>8. ASSUME NEW w \in Slots, Fetched(w) PROVE ScanInd'
  BY <1>8, FetchedInd
<1>9. ASSUME NEW w \in Slots, Check(w) PROVE ScanInd'
  <2>1. /\ Call(w, Requested) /\ user = "subscribe" /\ todo' = todo
        /\ UNCHANGED <<user, pass, aborted, observed, tried, refused, seen>>
    BY <1>9 DEF Check, passVars
  <2>2. QED
    BY <2>1, CallInd, RequestedIsKey
<1>10. ASSUME NEW w \in Slots, Checked(w) PROVE ScanInd'
  BY <1>10, CheckedInd
<1>11. ASSUME NEW w \in Slots, NEW k \in Keys, Fetch(w, k) PROVE ScanInd'
  <2>1. /\ Call(w, k) /\ pass = "running" /\ k \in todo /\ todo' = todo \ {k}
        /\ UNCHANGED <<user, pass, aborted, observed, tried, refused, seen>>
    BY <1>11 DEF Fetch, Remaining
  <2>2. QED
    BY <2>1, CallInd
<1>12. QED
  BY <1>1, <1>2, <1>3, <1>4, <1>5, <1>6, <1>7, <1>8, <1>9, <1>10, <1>11 DEF ScanNext

(* It holds at the start.                                                  *)
LEMMA ScanStart ==
    ASSUME ScanInit
    PROVE  ScanInd
<1>1. /\ truth = [k \in Keys |-> 0] /\ cache = [k \in Keys |-> NoEntry]
      /\ call = [w \in Slots |-> NoCall] /\ sinceAnswer = [k \in Keys |-> TTL] /\ redisFailed = FALSE
  BY DEF ScanInit, ClientInit
<1>2. /\ user \in {"scanner", "subscribe"} /\ pass = "idle" /\ todo = {} /\ aborted = FALSE
      /\ observed = [k \in Keys |-> 0] /\ tried = {} /\ refused = FALSE /\ seen = [k \in Keys |-> 0]
  BY DEF ScanInit
<1>3. NoCall \in Calls /\ NoCall.st = "idle" /\ \A w \in Slots : call[w] = NoCall /\ call[w].st = "idle"
  BY <1>1 DEF Calls, NoCall
<1>4. NoEntry \in [val : Nat, old : Nat, left : 0..TTL] /\ NoEntry.left = 0 /\ TTL \in 0..TTL /\ TTL \in Nat
  BY ClientBounds DEF NoEntry
<1>5. GHTypeOK
  BY <1>1, <1>3, <1>4, Zenon DEF GHTypeOK
<1>6. PassTypeOK
  BY <1>2, Zenon DEF PassTypeOK
<1>7. CopiesFresh /\ AnswersFresh /\ OneRequestPerTTL
  BY <1>1, <1>3, <1>4 DEF CopiesFresh, AnswersFresh, OneRequestPerTTL
<1>8. OneCallPerKey /\ PassAccounted
  BY <1>2, <1>3 DEF OneCallPerKey, PassAccounted, Busy
<1>9. CacheCovers
  BY <1>1, <1>4 DEF CacheCovers
<1>10. Monotone
  BY <1>1, <1>2, <1>3, <1>4 DEF Monotone
<1>11. QED
  BY <1>5, <1>6, <1>7, <1>8, <1>9, <1>10 DEF ScanInd

(* Whatever calls overlap, fail or are cancelled, the invariant holds.     *)
THEOREM ScanInvariance == ScanSpec => []ScanInd
BY ScanStart, ScanStep, PTL DEF ScanSpec

(* A call to the GitHub client never returns what GitHub has replaced for  *)
(* as long as one TTL and one call: errors are not cached and a hit does   *)
(* not renew an entry (github.go).                                         *)
THEOREM AnswersAreFresh == ScanSpec => []AnswersFresh
<1>1. ScanInd => AnswersFresh
  BY DEF ScanInd
<1>2. QED
  BY <1>1, ScanInvariance, PTL

(* The scanner asks GitHub at most once per TTL for a repository, with any *)
(* number of workers, as long as no Redis command fails.                   *)
THEOREM RequestsAreRare == ScanSpec => []OneRequestPerTTL
<1>1. ScanInd => OneRequestPerTTL
  BY DEF ScanInd
<1>2. QED
  BY <1>1, ScanInvariance, PTL

(* A pass that GitHub did not refuse has tried every repository when it    *)
(* ends (fetchReleases and its errgroup).                                  *)
THEOREM BrokenReposAreIsolated == ScanSpec => BrokenRepoIsolated
<1>1. ASSUME ScanInd, [ScanNext]_vars
      PROVE  [pass = "running" /\ pass' = "idle" /\ ~refused => tried = Keys]_vars
  <2> SUFFICES ASSUME ScanNext, pass = "running", pass' = "idle", ~refused
               PROVE  tried = Keys
    BY <1>1 DEF vars
  <2>1. PassEnds
    BY Zenon DEF ScanNext, Interval, PassStarts, Step, FetchCancelled, Fetched, Check, Checked, Fetch, passVars
  <2>2. todo = {} \/ aborted
    BY <2>1 DEF PassEnds
  <2>3. \A w \in Slots : ~Busy(w)
    BY <2>1 DEF PassEnds, WorkersDone, Busy
  <2>4. user = "scanner" /\ todo = {} /\ tried \subseteq Keys
    BY <1>1, <2>2 DEF ScanInd, PassTypeOK, OneCallPerKey, PassAccounted
  <2>5. QED
    BY <1>1, <2>3, <2>4 DEF ScanInd, PassAccounted
<1>2. QED
  BY <1>1, ScanInvariance, PTL DEF ScanSpec, BrokenRepoIsolated

(* A pass never processes an older release than an earlier one did, as     *)
(* long as no Redis command has failed.                                    *)
THEOREM ScannerNeverGoesBack == ScanSpec => NeverBackwards
<1>1. ASSUME ScanInd, [ScanNext]_vars
      PROVE  [~redisFailed => \A k \in Keys : seen'[k] >= seen[k]]_vars
  <2> SUFFICES ASSUME ScanNext, ~redisFailed, NEW k \in Keys
               PROVE  seen'[k] >= seen[k]
    BY <1>1 DEF vars
  <2>1. seen[k] \in Nat /\ observed[k] \in Nat
    BY <1>1 DEF ScanInd, PassTypeOK
  <2>2. CASE PassEnds
    <3>1. user = "scanner" /\ seen'[k] = IF observed[k] > 0 THEN observed[k] ELSE seen[k]
      BY <1>1, <2>2, Zenon DEF PassEnds, ScanInd, OneCallPerKey
    <3>2. QED
      BY <1>1, <2>1, <3>1 DEF ScanInd, Monotone
  <2>3. CASE ~PassEnds
    <3>1. seen' = seen
      BY <2>3, Zenon DEF ScanNext, Interval, PassStarts, Step, FetchCancelled, Fetched, Check, Checked, Fetch, passVars
    <3>2. QED
      BY <2>1, <3>1
  <2>4. QED
    BY <2>2, <2>3
<1>2. QED
  BY <1>1, ScanInvariance, PTL DEF ScanSpec, NeverBackwards
=============================================================================
