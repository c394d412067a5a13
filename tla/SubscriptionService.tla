------------------------ MODULE SubscriptionService ------------------------
(***************************************************************************)
(* The subscription service: the table `subscriptions` (one row per pair   *)
(* of e-mail and repository), the table `repositories`, the confirmation   *)
(* links (stateless JWTs) in circulation and the events the service        *)
(* commits to its outbox.  Every write and the event that announces it     *)
(* share one database transaction, so a use case that runs in one          *)
(* transaction is one action here.  Subscribe is two: it reads the         *)
(* existing row outside the transaction that acts on what it read          *)
(* (subscribe.go:102 and 144), and anything may happen in between.         *)
(***************************************************************************)
EXTENDS Events, Functions

CONSTANTS
    TTL,           \* CONFIRM_TOKEN_TTL, in ticks; also the age limit of cleanup
    MaxRequests    \* bound: subscribe calls in flight at once

ASSUME TTLIsPositive == TTL \in Nat \ {0}

Ages == 0..(TTL + 1)   \* ages above TTL are not told apart

VARIABLES
    repos,     \* rows of `repositories`
    status,    \* the row of a key: "none", "pending" or "confirmed"
    unsub,     \* its unsubscribe token
    rowAge,    \* now - created_at, for a pending row
    linkAge,   \* now - iat of the JWT of each identifier
    reqs,      \* subscribe calls between their read and their transaction
    subLog     \* outbox of the service: events in the order they committed

subVars == <<repos, status, unsub, rowAge, linkAge, reqs, subLog>>

----------------------------------------------------------------------------
SubEvents == EventSet({"pending", "confirmed", "removed", "expired"})

Requests == [key : Keys, isNew : BOOLEAN, id : Sagas]

Unused(s) == /\ \A q \in reqs : q.id # s
             /\ ~Published(subLog, "pending", s)

SubInit ==
    /\ repos = {}
    /\ status = [k \in Keys |-> "none"]
    /\ unsub = [k \in Keys |-> NoSaga]
    /\ rowAge = [k \in Keys |-> 0]
    /\ linkAge = [s \in Sagas |-> 0]
    /\ reqs = {}
    /\ subLog = <<>>

----------------------------------------------------------------------------
(* INSERT INTO repositories ... ON CONFLICT: the row exists afterwards.    *)
GetOrCreateSkipped(k) == repos   \* variant: the row is not made
GetOrCreate(k) == repos \cup {k[2]}

(* Subscribe.Execute up to its transaction: the repository exists on       *)
(* GitHub, GetOrCreate makes its row, resolveExisting reads the key's row  *)
(* and rejects a confirmed one, emitPending issues the link.               *)
SubscribeResolve(k, s) ==
    /\ Cardinality(reqs) < MaxRequests
    /\ Unused(s)
    /\ status[k] # "confirmed"
    /\ repos' = GetOrCreate(k)
    /\ reqs' = reqs \cup {[key |-> k, isNew |-> status[k] = "none", id |-> s]}
    /\ linkAge' = [linkAge EXCEPT ![s] = 0]
    /\ UNCHANGED <<status, unsub, rowAge, subLog>>

(* The insert meets no row; ON CONFLICT DO NOTHING otherwise.              *)
CanCreate(q) == status[q.key] = "none"

(* The transaction of emitPending: create the row when the read found      *)
(* none, and enqueue the pending event in either case.                     *)
SubscribeCommit(q) ==
    /\ q.isNew => CanCreate(q)
    /\ reqs' = reqs \ {q}
    /\ IF q.isNew
       THEN /\ status' = [status EXCEPT ![q.key] = "pending"]
            /\ unsub' = [unsub EXCEPT ![q.key] = q.id]
            /\ rowAge' = [rowAge EXCEPT ![q.key] = 0]
       ELSE UNCHANGED <<status, unsub, rowAge>>
    /\ subLog' = Append(subLog, Event("pending", q.key, q.id, NoSaga))
    /\ UNCHANGED <<repos, linkAge>>

(* Variant: the insert is not part of the transaction that fails.          *)
SubscribeAbortKeepsRow(q) ==
    /\ q.isNew /\ CanCreate(q)
    /\ reqs' = reqs \ {q}
    /\ status' = [status EXCEPT ![q.key] = "pending"]
    /\ unsub' = [unsub EXCEPT ![q.key] = q.id]
    /\ UNCHANGED <<repos, rowAge, linkAge, subLog>>

(* The call ends without an effect: ErrAlreadyExists from an insert that   *)
(* met a row, any other error (the transaction rolls back), or a crash.    *)
SubscribeAbort(q) ==
    /\ reqs' = reqs \ {q}
    /\ UNCHANGED <<repos, status, unsub, rowAge, linkAge, subLog>>

(* jwt.Parse accepts the token strictly before `exp`.                      *)
LinkValidForever(s) == s \in Sagas   \* variant: `exp` is not checked
LinkValid(s) == linkAge[s] < TTL

(* UPDATE ... WHERE confirmed = false                                      *)
ConfirmableAnyRow(k) == status[k] # "none"   \* variant: no such scope
Confirmable(k) == status[k] = "pending"

(* Confirm.Execute with the link of the i-th event, on a pending row.  A   *)
(* valid link that meets no pending row succeeds and changes nothing.      *)
Confirm(i) ==
    LET k == subLog[i].key IN
    /\ subLog[i].type = "pending"
    /\ LinkValid(subLog[i].id)
    /\ Confirmable(k)
    /\ status' = [status EXCEPT ![k] = "confirmed"]
    /\ rowAge' = [rowAge EXCEPT ![k] = 0]
    /\ subLog' = Append(subLog, Event("confirmed", k, unsub[k], subLog[i].id))
    /\ UNCHANGED <<repos, unsub, linkAge, reqs>>

RemoveRow(k) ==
    /\ status' = [status EXCEPT ![k] = "none"]
    /\ unsub' = [unsub EXCEPT ![k] = NoSaga]
    /\ rowAge' = [rowAge EXCEPT ![k] = 0]

(* Unsubscribe.Execute: the row is found by its token alone.  A token      *)
(* leaves the service only in a confirmed event.                           *)
Unsubscribe(k) ==
    /\ status[k] # "none"
    /\ Published(subLog, "confirmed", unsub[k])
    /\ RemoveRow(k)
    /\ subLog' = Append(subLog, Event("removed", k, NoSaga, NoSaga))
    /\ UNCHANGED <<repos, linkAge, reqs>>

(* created_at < now - maxAge.  Variant: the comparison is inverted.        *)
ExpiredInverted(k) == status[k] = "pending" /\ rowAge[k] < TTL
Expired(k) == status[k] = "pending" /\ rowAge[k] > TTL

(* Cleanup.Run: one transaction deletes every expired row and enqueues an  *)
(* expired event for each, in the order the DELETE returns them.           *)
Cleanup ==
    LET gone == {k \in Keys : Expired(k)} IN
    /\ gone # {}
    /\ status' = [k \in Keys |-> IF k \in gone THEN "none" ELSE status[k]]
    /\ unsub' = [k \in Keys |-> IF k \in gone THEN NoSaga ELSE unsub[k]]
    /\ rowAge' = [k \in Keys |-> IF k \in gone THEN 0 ELSE rowAge[k]]
    /\ \E order \in Bijection(1..Cardinality(gone), gone) :
          subLog' = subLog \o
              [i \in DOMAIN order |-> Event("expired", order[i], NoSaga, NoSaga)]
    /\ UNCHANGED <<repos, linkAge, reqs>>

(* DELETE ... WHERE confirmed = false                                      *)
CompensableAnyRow(k) == status[k] # "none"         \* variant: no such scope
Compensable(k) == status[k] = "pending"

(* Compensate.Execute, by RPC or by saga.compensate: the delete is scoped  *)
(* to confirmed = false and announces nothing.                             *)
Compensate(k) ==
    /\ Compensable(k)
    /\ RemoveRow(k)
    /\ UNCHANGED <<repos, linkAge, reqs, subLog>>

Older(a) == IF a > TTL THEN a ELSE a + 1

(* Time passes for the pending rows and for the links in circulation.      *)
Tick ==
    /\ rowAge' = [k \in Keys |-> IF status[k] = "pending" THEN Older(rowAge[k]) ELSE rowAge[k]]
    /\ linkAge' = [s \in Sagas |-> IF Unused(s) THEN linkAge[s] ELSE Older(linkAge[s])]
    /\ UNCHANGED <<repos, status, unsub, reqs, subLog>>

SubNext ==
    \/ \E k \in Keys, s \in Sagas : SubscribeResolve(k, s)
    \/ \E q \in reqs : SubscribeCommit(q)
    \/ \E q \in reqs : SubscribeAbort(q)
    \/ \E i \in DOMAIN subLog : Confirm(i)
    \/ \E k \in Keys : Unsubscribe(k)
    \/ Cleanup
    \/ \E k \in Keys : Compensate(k)
    \/ Tick

SubSpec == SubInit /\ [][SubNext]_subVars

(* The clock advances and the cleanup ticker (runCleanup) keeps running.   *)
SubFairSpec == SubSpec /\ WF_subVars(Tick) /\ WF_subVars(Cleanup)

----------------------------------------------------------------------------
(* Type invariant of the service's tables, links, calls in flight and      *)
(* outbox; a row's repository exists (the foreign key of `subscriptions`). *)
SubTypeOK ==
    /\ repos \subseteq Repos
    /\ status \in [Keys -> {"none", "pending", "confirmed"}]
    /\ unsub \in [Keys -> Sagas \cup {NoSaga}]
    /\ rowAge \in [Keys -> Ages]
    /\ linkAge \in [Sagas -> Ages]
    /\ reqs \subseteq Requests
    /\ subLog \in Seq(SubEvents)
    /\ \A k \in Keys : status[k] # "none" => k[2] \in repos
    /\ \A q \in reqs : q.key[2] \in repos

(* After its first n events the outbox says that k is subscribed, with     *)
(* unsubscribe token t.                                                    *)
JoinedWith(lg, k, t, n) ==
    \E i \in 1..n :
        /\ IsEvent(lg[i], "confirmed", k) /\ lg[i].id = t
        /\ \A j \in (i + 1)..n : ~(lg[j].key = k /\ lg[j].type \in {"confirmed", "removed"})

Joined(lg, k, n) == \E t \in Sagas : JoinedWith(lg, k, t, n)

(* The table and the events agree: a row is confirmed, with some token,    *)
(* exactly when the last of the key's confirmed and removed events is a    *)
(* confirmed one that carries this token, whatever subscribes, sweeps and  *)
(* compensations ran in between (the transactional outbox of confirm.go    *)
(* and unsubscribe.go).                                                    *)
StateMatchesLog ==
    \A k \in Keys, t \in Sagas :
        (status[k] = "confirmed" /\ unsub[k] = t) <=> JoinedWith(subLog, k, t, Len(subLog))

(* What the consumers' counters and read models rest on: for each key, in  *)
(* commit order, confirmed and removed events alternate, starting with     *)
(* confirmed, and no expired event falls between a confirmed event and its *)
(* removal, although Delete looks at the token only and subscribe acts on  *)
(* a read made before its transaction.                                     *)
MembershipAlternates ==
    \A j \in DOMAIN subLog :
        /\ subLog[j].type = "removed" => Joined(subLog, subLog[j].key, j - 1)
        /\ subLog[j].type \in {"confirmed", "expired"} => ~Joined(subLog, subLog[j].key, j - 1)

(* No row without its announcement: a live row was announced by the        *)
(* pending event of the very subscribe call that created it, and that call *)
(* is over (emitPending commits both or neither).                          *)
RowAnnounced ==
    \A k \in Keys : status[k] # "none" =>
        /\ \E i \in DOMAIN subLog : IsEvent(subLog[i], "pending", k) /\ subLog[i].id = unsub[k]
        /\ \A q \in reqs : q.id # unsub[k]

(* A confirmed row leaves the table only together with a removed event:    *)
(* neither the sweep nor a compensation, however late, takes it            *)
(* (docs/adr/013-orchestrated-saga.md:60-63).                              *)
ConfirmedLeavesByUnsubscribe ==
    [][\A k \in Keys : status[k] = "confirmed" /\ status'[k] # "confirmed" =>
         \E i \in DOMAIN subLog' \ DOMAIN subLog : IsEvent(subLog'[i], "removed", k)]_subVars

(* The sweep takes a row only when the link that was issued with it is no  *)
(* longer accepted: the two use the same period on two different clocks'   *)
(* starting points (cleanup.go:41, confirm_token.go:31).                   *)
SweepSparesLiveLink ==
    [][\A i \in DOMAIN subLog' \ DOMAIN subLog : subLog'[i].type = "expired" =>
         ~LinkValid(unsub[subLog'[i].key])]_subVars

(* Every pending row is eventually confirmed or removed, even when nobody  *)
(* ever clicks a link and no compensation arrives.                         *)
PendingResolves ==
    \A k \in Keys : status[k] = "pending" ~> status[k] # "pending"
=============================================================================
