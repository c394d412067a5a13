--------------------- MODULE SubscriptionServiceProofs ---------------------
(***************************************************************************)
(* Proofs about SubscriptionService, for every set of addresses,           *)
(* repositories and identifiers and every TTL.                             *)
(*                                                                         *)
(* StateMatchesLog is not inductive.  Unsubscribe finds a row by its token *)
(* alone, so the proof needs that a token in circulation belongs to a      *)
(* confirmed row (TokenMeansConfirmed); that rests on a new row's token    *)
(* being in no earlier event (FreshRequests), on tokens being distinct     *)
(* (DistinctTokens) and on every row having been announced (RowAnnounced). *)
(***************************************************************************)
EXTENDS SubscriptionService, TLAPS

(* A key has a token exactly when it has a row.                            *)
TokenIffRow == \A k \in Keys : status[k] = "none" <=> unsub[k] = NoSaga

DistinctTokens ==
    \A k, l \in Keys : unsub[k] = unsub[l] /\ unsub[k] # NoSaga => k = l

(* The identifier of a call in flight is its own and in no event yet.      *)
FreshRequests ==
    /\ \A q \in reqs : ~Published(subLog, "pending", q.id)
    /\ \A p, q \in reqs : p.id = q.id => p = q

(* A token in circulation comes from a call that committed.                *)
TokenWasPending ==
    \A s \in Sagas : Published(subLog, "confirmed", s) => Published(subLog, "pending", s)

(* No pending row's token is in circulation.                               *)
TokenMeansConfirmed ==
    \A k \in Keys : status[k] = "pending" => ~Published(subLog, "confirmed", unsub[k])

(* The link issued with a row is at least as old as the row.               *)
LinkOlderThanRow ==
    \A k \in Keys : status[k] = "pending" => rowAge[k] <= linkAge[unsub[k]]

SubInv ==
    /\ SubTypeOK
    /\ TokenIffRow
    /\ RowAnnounced
    /\ DistinctTokens
    /\ FreshRequests
    /\ TokenWasPending
    /\ TokenMeansConfirmed
    /\ LinkOlderThanRow
    /\ StateMatchesLog
    /\ MembershipAlternates

----------------------------------------------------------------------------
(* How the outbox's view of a key changes when events are appended.        *)

(* What the first n events say depends on these events only.               *)
LEMMA JoinedPrefix ==
    ASSUME NEW lg, NEW lh, NEW k, NEW t, NEW n \in Nat,
           \A i \in 1..n : lh[i] = lg[i]
    PROVE  JoinedWith(lh, k, t, n) <=> JoinedWith(lg, k, t, n)
  BY DEF JoinedWith

(* Events of other types do not change what the outbox says.               *)
LEMMA JoinedExtend ==
    ASSUME NEW lg, NEW lh, NEW k, NEW t, NEW m \in Nat, NEW n \in Nat, m <= n,
           \A i \in 1..m : lh[i] = lg[i],
           \A i \in (m + 1)..n : ~(lh[i].key = k /\ lh[i].type \in {"confirmed", "removed"})
    PROVE  JoinedWith(lh, k, t, n) <=> JoinedWith(lg, k, t, m)
  <1>1. ASSUME JoinedWith(lg, k, t, m)
        PROVE  JoinedWith(lh, k, t, n)
    <2>1. PICK i \in 1..m :
            /\ IsEvent(lg[i], "confirmed", k) /\ lg[i].id = t
            /\ \A j \in (i + 1)..m : ~(lg[j].key = k /\ lg[j].type \in {"confirmed", "removed"})
      BY <1>1 DEF JoinedWith
    <2>2. i \in 1..n /\ lh[i] = lg[i]
      BY <2>1
    <2>3. ASSUME NEW j \in (i + 1)..n
          PROVE  ~(lh[j].key = k /\ lh[j].type \in {"confirmed", "removed"})
      <3>1. CASE j \in 1..m
        BY <2>1, <3>1
      <3>2. CASE j \in (m + 1)..n
        BY <3>2
      <3> QED  BY <3>1, <3>2
    <2> QED  BY <2>1, <2>2, <2>3 DEF JoinedWith
  <1>2. ASSUME JoinedWith(lh, k, t, n)
        PROVE  JoinedWith(lg, k, t, m)
    <2>1. PICK i \in 1..n :
            /\ IsEvent(lh[i], "confirmed", k) /\ lh[i].id = t
            /\ \A j \in (i + 1)..n : ~(lh[j].key = k /\ lh[j].type \in {"confirmed", "removed"})
      BY <1>2 DEF JoinedWith
    <2>2. i \in 1..m
      BY <2>1 DEF IsEvent
    <2>3. \A j \in (i + 1)..m : j \in (i + 1)..n /\ lh[j] = lg[j]
      BY <2>2
    <2> QED  BY <2>1, <2>2, <2>3 DEF JoinedWith
  <1> QED  BY <1>1, <1>2

(* After a confirmed or removed event of k, the outbox says what this      *)
(* event says.                                                             *)
LEMMA JoinedByLast ==
    ASSUME NEW lh, NEW e, NEW t, NEW n \in Nat, n > 0,
           lh[n] = e, e.type \in {"confirmed", "removed"}
    PROVE  JoinedWith(lh, e.key, t, n) <=> (e.type = "confirmed" /\ e.id = t)
  <1>1. ASSUME NEW i \in 1..n,
               \A j \in (i + 1)..n : ~(lh[j].key = e.key /\ lh[j].type \in {"confirmed", "removed"})
        PROVE  i = n
    BY <1>1
  <1>2. \A j \in (n + 1)..n : FALSE
    OBVIOUS
  <1> QED  BY <1>1, <1>2 DEF JoinedWith, IsEvent

(* The fields of an event of the service.                                  *)
LEMMA EventFields ==
    ASSUME NEW e \in SubEvents
    PROVE  /\ e.key \in Keys
           /\ e.id \in Sagas \cup {NoSaga}
           /\ e.type \in {"pending", "confirmed", "removed", "expired"}
  BY DEF SubEvents, EventSet

(* The outbox lh is lg with one more event, e.                             *)
GrowsBy(lg, e, lh) ==
    /\ Len(lg) \in Nat /\ Len(lh) = Len(lg) + 1
    /\ DOMAIN lg = 1..Len(lg) /\ DOMAIN lh = 1..(Len(lg) + 1)
    /\ lh \in Seq(SubEvents)
    /\ \A i \in 1..Len(lg) : lh[i] = lg[i]
    /\ lh[Len(lg) + 1] = e
    /\ \A t, s : Published(lh, t, s) <=> Published(lg, t, s) \/ (e.type = t /\ e.id = s)

(* Appending one event.                                                    *)
LEMMA AppendFacts ==
    ASSUME NEW lg \in Seq(SubEvents), NEW e \in SubEvents
    PROVE  GrowsBy(lg, e, Append(lg, e))
  <1> DEFINE lh == Append(lg, e)
  <1>1. /\ lh \in Seq(SubEvents)
        /\ Len(lh) = Len(lg) + 1
        /\ \A i \in 1..Len(lg) : lh[i] = lg[i]
        /\ lh[Len(lg) + 1] = e
    OBVIOUS
  <1>2. DOMAIN lg = 1..Len(lg) /\ DOMAIN lh = 1..(Len(lg) + 1) /\ Len(lg) \in Nat
    BY <1>1
  <1>3. DOMAIN lh = DOMAIN lg \cup {Len(lg) + 1}
    BY <1>2
  <1>4. \A t, s : Published(lh, t, s) <=> Published(lg, t, s) \/ (e.type = t /\ e.id = s)
    <2> HIDE DEF lh
    <2> QED  BY <1>1, <1>2, <1>3 DEF Published
  <1> QED  BY <1>1, <1>2, <1>4 DEF GrowsBy

(* What the outbox says of a key, read off the table.                      *)
LEMMA JoinedIffConfirmed ==
    ASSUME SubTypeOK, TokenIffRow, StateMatchesLog, NEW k \in Keys
    PROVE  Joined(subLog, k, Len(subLog)) <=> status[k] = "confirmed"
  BY DEF SubTypeOK, TokenIffRow, StateMatchesLog, Joined

(* Events that neither confirm nor remove keep table and outbox in step.   *)
LEMMA KeepInStep ==
    ASSUME SubTypeOK, TokenIffRow, StateMatchesLog, MembershipAlternates,
           subLog' \in Seq(SubEvents), Len(subLog) <= Len(subLog'),
           \A i \in 1..Len(subLog) : subLog'[i] = subLog[i],
           \A i \in (Len(subLog) + 1)..Len(subLog') :
               \/ subLog'[i].type = "pending"
               \/ subLog'[i].type = "expired" /\ status[subLog'[i].key] # "confirmed",
           \A k \in Keys, t \in Sagas :
               (status'[k] = "confirmed" /\ unsub'[k] = t) <=> (status[k] = "confirmed" /\ unsub[k] = t)
    PROVE  StateMatchesLog' /\ MembershipAlternates'
  <1>1. Len(subLog) \in Nat /\ Len(subLog') \in Nat /\ DOMAIN subLog = 1..Len(subLog)
        /\ DOMAIN subLog' = 1..Len(subLog')
    BY DEF SubTypeOK
  <1>2. ASSUME NEW n \in Nat, Len(subLog) <= n, n <= Len(subLog'), NEW k, NEW t
        PROVE  JoinedWith(subLog', k, t, n) <=> JoinedWith(subLog, k, t, Len(subLog))
    <2>1. \A i \in (Len(subLog) + 1)..n : subLog'[i].type \notin {"confirmed", "removed"}
      BY <1>1, <1>2
    <2> QED  BY <1>1, <1>2, <2>1, JoinedExtend, Zenon
  <1>3. StateMatchesLog'
    BY <1>1, <1>2 DEF StateMatchesLog
  <1>4. ASSUME NEW j \in DOMAIN subLog'
        PROVE  /\ subLog'[j].type = "removed" => Joined(subLog', subLog'[j].key, j - 1)
               /\ subLog'[j].type \in {"confirmed", "expired"}
                    => ~Joined(subLog', subLog'[j].key, j - 1)
    <2>1. CASE j \in 1..Len(subLog)
      <3>1. \A k, t : JoinedWith(subLog', k, t, j - 1) <=> JoinedWith(subLog, k, t, j - 1)
        <4> DEFINE p == j - 1
        <4>1. p \in Nat /\ \A i \in 1..p : subLog'[i] = subLog[i]
          BY <1>1, <2>1
        <4> HIDE DEF p
        <4>2. \A k, t : JoinedWith(subLog', k, t, p) <=> JoinedWith(subLog, k, t, p)
          BY <4>1, JoinedPrefix, Zenon
        <4> QED  BY <4>2, Zenon DEF p
      <3> QED  BY <1>1, <2>1, <3>1 DEF MembershipAlternates, Joined
    <2>2. CASE j \in (Len(subLog) + 1)..Len(subLog')
      <3>1. j - 1 \in Nat /\ Len(subLog) <= j - 1 /\ j - 1 <= Len(subLog')
        BY <1>1, <2>2
      <3>2. \A k : Joined(subLog', k, j - 1) <=> Joined(subLog, k, Len(subLog))
        BY <3>1, <1>2 DEF Joined
      <3>3. subLog'[j].key \in Keys
        BY <1>1, <1>4, EventFields
      <3> QED  BY <2>2, <3>2, <3>3, JoinedIffConfirmed
    <2> QED  BY <1>1, <1>4, <2>1, <2>2
  <1>5. MembershipAlternates'
    BY <1>4 DEF MembershipAlternates
  <1> QED  BY <1>3, <1>5

(* A confirmed or removed event that follows the table's change keeps them *)
(* in step.                                                                *)
LEMMA MoveInStep ==
    ASSUME SubTypeOK, TokenIffRow, StateMatchesLog, MembershipAlternates,
           NEW k \in Keys, NEW e \in SubEvents, subLog' = Append(subLog, e), e.key = k,
           \/ e.type = "confirmed" /\ status[k] # "confirmed"
           \/ e.type = "removed" /\ status[k] = "confirmed",
           \A t \in Sagas : (status'[k] = "confirmed" /\ unsub'[k] = t)
                              <=> (e.type = "confirmed" /\ e.id = t),
           \A l \in Keys \ {k}, t \in Sagas :
               (status'[l] = "confirmed" /\ unsub'[l] = t) <=> (status[l] = "confirmed" /\ unsub[l] = t)
    PROVE  StateMatchesLog' /\ MembershipAlternates'
  <1>1. /\ Len(subLog) \in Nat /\ DOMAIN subLog = 1..Len(subLog)
        /\ subLog' \in Seq(SubEvents) /\ Len(subLog') = Len(subLog) + 1
        /\ DOMAIN subLog' = 1..(Len(subLog) + 1)
        /\ \A i \in 1..Len(subLog) : subLog'[i] = subLog[i]
        /\ subLog'[Len(subLog) + 1] = e
    BY AppendFacts DEF SubTypeOK, GrowsBy
  <1>2. ASSUME NEW t
        PROVE  JoinedWith(subLog', k, t, Len(subLog')) <=> e.type = "confirmed" /\ e.id = t
    <2> DEFINE n == Len(subLog')
    <2>1. n \in Nat /\ n > 0 /\ subLog'[n] = e
      BY <1>1
    <2>2. e.type \in {"confirmed", "removed"}
      OBVIOUS
    <2> HIDE DEF n
    <2>3. JoinedWith(subLog', e.key, t, n) <=> (e.type = "confirmed" /\ e.id = t)
      BY <2>1, <2>2, JoinedByLast, Zenon
    <2> QED  BY <2>3 DEF n
  <1>3. ASSUME NEW l \in Keys \ {k}, NEW t
        PROVE  JoinedWith(subLog', l, t, Len(subLog')) <=> JoinedWith(subLog, l, t, Len(subLog))
    <2> DEFINE m == Len(subLog)
               n == Len(subLog')
    <2>1. m \in Nat /\ n \in Nat /\ m <= n /\ \A i \in 1..m : subLog'[i] = subLog[i]
      BY <1>1
    <2>2. \A i \in (m + 1)..n : subLog'[i].key # l
      BY <1>1
    <2> HIDE DEF m, n
    <2>3. JoinedWith(subLog', l, t, n) <=> JoinedWith(subLog, l, t, m)
      BY <2>1, <2>2, JoinedExtend, Zenon
    <2> QED  BY <2>3 DEF m, n
  <1>4. StateMatchesLog'
    BY <1>2, <1>3 DEF StateMatchesLog
  <1>5. ASSUME NEW j \in DOMAIN subLog'
        PROVE  /\ subLog'[j].type = "removed" => Joined(subLog', subLog'[j].key, j - 1)
               /\ subLog'[j].type \in {"confirmed", "expired"}
                    => ~Joined(subLog', subLog'[j].key, j - 1)
    <2>1. \A l, t : JoinedWith(subLog', l, t, j - 1) <=> JoinedWith(subLog, l, t, j - 1)
      <3> DEFINE p == j - 1
      <3>1. p \in Nat /\ \A i \in 1..p : subLog'[i] = subLog[i]
        BY <1>1, <1>5
      <3> HIDE DEF p
      <3>2. \A l, t : JoinedWith(subLog', l, t, p) <=> JoinedWith(subLog, l, t, p)
        BY <3>1, JoinedPrefix, Zenon
      <3> QED  BY <3>2, Zenon DEF p
    <2>2. CASE j \in 1..Len(subLog)
      BY <1>1, <2>1, <2>2 DEF MembershipAlternates, Joined
    <2>3. CASE j = Len(subLog) + 1
      <3>1. j - 1 = Len(subLog)
        BY <1>1, <2>3
      <3> QED  BY <1>1, <2>1, <2>3, <3>1, JoinedIffConfirmed DEF Joined
    <2> QED  BY <1>1, <1>5, <2>2, <2>3
  <1>6. MembershipAlternates'
    BY <1>5 DEF MembershipAlternates
  <1> QED  BY <1>4, <1>6

----------------------------------------------------------------------------
(* Each action preserves the invariant.                                    *)

(* The empty tables satisfy the invariant.                                 *)
LEMMA InitInv == SubInit => SubInv
  <1> SUFFICES ASSUME SubInit PROVE SubInv
    OBVIOUS
  <1> USE DEF SubInit
  <1>1. subLog = <<>> /\ Len(subLog) = 0 /\ DOMAIN subLog = {}
    OBVIOUS
  <1>2. SubTypeOK
    BY <1>1, TTLIsPositive DEF SubTypeOK, Ages
  <1>3. \A t, s : ~Published(subLog, t, s)
    BY <1>1 DEF Published
  <1>4. \A k, t : ~JoinedWith(subLog, k, t, Len(subLog))
    BY <1>1 DEF JoinedWith
  <1>5. StateMatchesLog
    BY <1>4 DEF StateMatchesLog
  <1>6. MembershipAlternates
    BY <1>1 DEF MembershipAlternates
  <1>7. TokenIffRow /\ RowAnnounced /\ DistinctTokens /\ LinkOlderThanRow
    BY DEF TokenIffRow, RowAnnounced, DistinctTokens, LinkOlderThanRow
  <1>8. FreshRequests /\ TokenWasPending /\ TokenMeansConfirmed
    BY <1>3 DEF FreshRequests, TokenWasPending, TokenMeansConfirmed
  <1> QED  BY <1>2, <1>5, <1>6, <1>7, <1>8 DEF SubInv

(* Subscribe.Execute up to its transaction preserves the invariant.        *)
LEMMA ResolveInv ==
    ASSUME SubInv, NEW k \in Keys, NEW s \in Sagas, SubscribeResolve(k, s)
    PROVE  SubInv'
  <1> DEFINE q0 == [key |-> k, isNew |-> status[k] = "none", id |-> s]
  <1>1. /\ Unused(s) /\ repos' = repos \cup {k[2]} /\ reqs' = reqs \cup {q0}
        /\ linkAge' = [linkAge EXCEPT ![s] = 0]
        /\ UNCHANGED <<status, unsub, rowAge, subLog>>
    BY DEF SubscribeResolve, GetOrCreate
  <1>2. q0 \in Requests /\ k[2] \in Repos
    BY DEF Requests, Keys
  <1>3. SubTypeOK'
    BY <1>1, <1>2, TTLIsPositive DEF SubInv, SubTypeOK, Ages
  <1>4. \A l \in Keys : status[l] # "none" => unsub[l] # s
    BY <1>1 DEF SubInv, RowAnnounced, Unused, Published, IsEvent
  <1>5. RowAnnounced'
    BY <1>1, <1>4 DEF SubInv, RowAnnounced
  <1>6. FreshRequests'
    BY <1>1 DEF SubInv, FreshRequests, Unused, Published
  <1>7. LinkOlderThanRow'
    BY <1>1, <1>4 DEF SubInv, LinkOlderThanRow, SubTypeOK
  <1>8. StateMatchesLog' /\ MembershipAlternates'
    BY <1>1 DEF SubInv, StateMatchesLog, MembershipAlternates
  <1>9. TokenIffRow' /\ DistinctTokens' /\ TokenWasPending' /\ TokenMeansConfirmed'
    BY <1>1 DEF SubInv, TokenIffRow, DistinctTokens, TokenWasPending, TokenMeansConfirmed
  <1> QED  BY <1>3, <1>5, <1>6, <1>7, <1>8, <1>9 DEF SubInv

(* The transaction of emitPending preserves the invariant.                 *)
LEMMA CommitInv ==
    ASSUME SubInv, NEW q \in reqs, SubscribeCommit(q)
    PROVE  SubInv'
  <1> DEFINE e == Event("pending", q.key, q.id, NoSaga)
  <1>1. /\ q.isNew => status[q.key] = "none"
        /\ reqs' = reqs \ {q}
        /\ subLog' = Append(subLog, e)
        /\ UNCHANGED <<repos, linkAge>>
    BY DEF SubscribeCommit, CanCreate
  <1>2. q \in Requests /\ q.key \in Keys /\ q.id \in Sagas /\ q.id # NoSaga /\ q.isNew \in BOOLEAN
    BY NoSagaIsNew DEF SubInv, SubTypeOK, Requests
  <1>3. e \in SubEvents /\ e.type = "pending" /\ e.key = q.key /\ e.id = q.id
    BY <1>2 DEF Event, SubEvents, EventSet
  <1>4. GrowsBy(subLog, e, subLog')
    BY <1>1, <1>3, AppendFacts DEF SubInv, SubTypeOK
  <1> HIDE DEF e
  <1>5. \/ /\ q.isNew /\ status' = [status EXCEPT ![q.key] = "pending"]
           /\ unsub' = [unsub EXCEPT ![q.key] = q.id]
           /\ rowAge' = [rowAge EXCEPT ![q.key] = 0]
        \/ ~q.isNew /\ UNCHANGED <<status, unsub, rowAge>>
    BY DEF SubscribeCommit
  <1>6. SubTypeOK'
    <2>1. (status \in [Keys -> {"none", "pending", "confirmed"}])'
      BY <1>2, <1>5 DEF SubInv, SubTypeOK
    <2>2. (unsub \in [Keys -> Sagas \cup {NoSaga}])'
      BY <1>2, <1>5 DEF SubInv, SubTypeOK
    <2>3. (rowAge \in [Keys -> Ages])'
      BY <1>2, <1>5, TTLIsPositive DEF SubInv, SubTypeOK, Ages
    <2>4. (\A k \in Keys : status[k] # "none" => k[2] \in repos)'
      BY <1>1, <1>2, <1>5 DEF SubInv, SubTypeOK
    <2> QED  BY <1>1, <1>4, <2>1, <2>2, <2>3, <2>4 DEF SubInv, SubTypeOK, GrowsBy
  <1>7. \A l \in Keys : status[l] # "none" => unsub[l] # q.id
    BY DEF SubInv, RowAnnounced
  <1>8. TokenIffRow'
    BY <1>2, <1>5 DEF SubInv, SubTypeOK, TokenIffRow
  <1>9. DistinctTokens'
    BY <1>2, <1>5, <1>7 DEF SubInv, SubTypeOK, TokenIffRow, DistinctTokens
  <1>10. RowAnnounced'
    <2>1. \A l \in Keys : \A i \in DOMAIN subLog : i \in DOMAIN subLog' /\ subLog'[i] = subLog[i]
      BY <1>4 DEF GrowsBy
    <2>2. Len(subLog) + 1 \in DOMAIN subLog' /\ IsEvent(subLog'[Len(subLog) + 1], "pending", q.key)
          /\ subLog'[Len(subLog) + 1].id = q.id
      BY <1>3, <1>4 DEF IsEvent, GrowsBy
    <2>3. \A p \in reqs' : p \in reqs /\ p.id # q.id
      BY <1>1 DEF SubInv, FreshRequests
    <2>4. ASSUME NEW l \in Keys, status'[l] # "none"
          PROVE  \/ l = q.key /\ unsub'[l] = q.id
                 \/ status[l] # "none" /\ unsub'[l] = unsub[l]
      BY <1>2, <1>5, <2>4 DEF SubInv, SubTypeOK
    <2> QED  BY <2>1, <2>2, <2>3, <2>4 DEF SubInv, RowAnnounced
  <1>11. FreshRequests'
    BY <1>1, <1>3, <1>4 DEF SubInv, FreshRequests, GrowsBy
  <1>12. TokenWasPending'
    BY <1>3, <1>4 DEF SubInv, TokenWasPending, GrowsBy
  <1>13. ~Published(subLog, "confirmed", q.id)
    BY <1>2 DEF SubInv, FreshRequests, TokenWasPending
  <1>14. TokenMeansConfirmed'
    BY <1>2, <1>3, <1>4, <1>5, <1>13 DEF SubInv, SubTypeOK, TokenMeansConfirmed, GrowsBy
  <1>15. LinkOlderThanRow'
    BY <1>1, <1>2, <1>5 DEF SubInv, SubTypeOK, LinkOlderThanRow, Ages
  <1>16. \A l \in Keys, t \in Sagas :
           (status'[l] = "confirmed" /\ unsub'[l] = t) <=> (status[l] = "confirmed" /\ unsub[l] = t)
    BY <1>1, <1>2, <1>5 DEF SubInv, SubTypeOK
  <1>17. StateMatchesLog' /\ MembershipAlternates'
    <2>1. Len(subLog) <= Len(subLog')
      BY <1>4 DEF GrowsBy
    <2>2. \A i \in (Len(subLog) + 1)..Len(subLog') : subLog'[i].type = "pending"
      BY <1>3, <1>4 DEF GrowsBy
    <2> QED  BY <1>4, <1>16, <2>1, <2>2, KeepInStep DEF SubInv, GrowsBy
  <1> QED  BY <1>6, <1>8, <1>9, <1>10, <1>11, <1>12, <1>14, <1>15, <1>17 DEF SubInv

(* A subscribe call that ends without effect preserves it.                 *)
LEMMA AbortInv ==
    ASSUME SubInv, NEW q \in reqs, SubscribeAbort(q)
    PROVE  SubInv'
  <1>1. reqs' \subseteq reqs /\ UNCHANGED <<repos, status, unsub, rowAge, linkAge, subLog>>
    BY DEF SubscribeAbort
  <1>2. SubTypeOK' /\ RowAnnounced' /\ FreshRequests'
    BY <1>1 DEF SubInv, SubTypeOK, RowAnnounced, FreshRequests
  <1>3. StateMatchesLog' /\ MembershipAlternates'
    BY <1>1 DEF SubInv, StateMatchesLog, MembershipAlternates
  <1>4. /\ TokenIffRow' /\ DistinctTokens' /\ TokenWasPending' /\ TokenMeansConfirmed'
        /\ LinkOlderThanRow'
    BY <1>1 DEF SubInv, TokenIffRow, DistinctTokens, TokenWasPending, TokenMeansConfirmed,
                LinkOlderThanRow
  <1> QED  BY <1>2, <1>3, <1>4 DEF SubInv

(* Confirm.Execute preserves the invariant.                                *)
LEMMA ConfirmInv ==
    ASSUME SubInv, NEW i \in DOMAIN subLog, Confirm(i)
    PROVE  SubInv'
  <1> DEFINE k == subLog[i].key
             e == Event("confirmed", k, unsub[k], subLog[i].id)
  <1>1. /\ status[k] = "pending"
        /\ status' = [status EXCEPT ![k] = "confirmed"]
        /\ rowAge' = [rowAge EXCEPT ![k] = 0]
        /\ subLog' = Append(subLog, e)
        /\ UNCHANGED <<repos, unsub, linkAge, reqs>>
    BY DEF Confirm, Confirmable
  <1>2. subLog[i] \in SubEvents
    BY DEF SubInv, SubTypeOK
  <1>3. k \in Keys /\ subLog[i].id \in Sagas \cup {NoSaga}
    BY <1>2, EventFields
  <1> HIDE DEF k
  <1>4. unsub[k] \in Sagas
    BY <1>1, <1>3 DEF SubInv, SubTypeOK, TokenIffRow
  <1>5. e \in SubEvents /\ e.type = "confirmed" /\ e.key = k /\ e.id = unsub[k]
    BY <1>3, <1>4 DEF Event, SubEvents, EventSet
  <1> HIDE DEF e
  <1>6. GrowsBy(subLog, e, subLog')
    BY <1>1, <1>5, AppendFacts DEF SubInv, SubTypeOK
  <1>7. SubTypeOK'
    <2>1. (status \in [Keys -> {"none", "pending", "confirmed"}])'
      BY <1>1, <1>3 DEF SubInv, SubTypeOK
    <2>2. (rowAge \in [Keys -> Ages])'
      BY <1>1, <1>3, TTLIsPositive DEF SubInv, SubTypeOK, Ages
    <2>3. (\A l \in Keys : status[l] # "none" => l[2] \in repos)'
      BY <1>1, <1>3 DEF SubInv, SubTypeOK
    <2> QED  BY <1>1, <1>6, <2>1, <2>2, <2>3 DEF SubInv, SubTypeOK, GrowsBy
  <1>8. \A l \in Keys : (status'[l] = "none" <=> status[l] = "none")
                        /\ (status'[l] = "pending" <=> status[l] = "pending" /\ l # k)
    BY <1>1, <1>3 DEF SubInv, SubTypeOK
  <1>9. TokenIffRow' /\ DistinctTokens'
    BY <1>1, <1>8 DEF SubInv, TokenIffRow, DistinctTokens
  <1>10. RowAnnounced'
    <2>1. \A j \in DOMAIN subLog : j \in DOMAIN subLog' /\ subLog'[j] = subLog[j]
      BY <1>6 DEF GrowsBy
    <2>2. ASSUME NEW l \in Keys, status'[l] # "none"
          PROVE  /\ \E j \in DOMAIN subLog' : IsEvent(subLog'[j], "pending", l) /\ subLog'[j].id = unsub'[l]
                 /\ \A q \in reqs' : q.id # unsub'[l]
      <3>1. unsub'[l] = unsub[l] /\ reqs' = reqs /\ status[l] # "none"
        BY <1>1, <1>8, <2>2
      <3> QED  BY <2>1, <3>1 DEF SubInv, RowAnnounced
    <2> QED  BY <2>2 DEF RowAnnounced
  <1>11. FreshRequests'
    BY <1>1, <1>5, <1>6 DEF SubInv, FreshRequests, GrowsBy
  <1>12. Published(subLog, "pending", unsub[k])
    BY <1>1, <1>3 DEF SubInv, RowAnnounced, Published, IsEvent
  <1>13. TokenWasPending'
    BY <1>5, <1>6, <1>12 DEF SubInv, TokenWasPending, GrowsBy
  <1>14. TokenMeansConfirmed'
    <2>1. ASSUME NEW l \in Keys, status'[l] = "pending"
          PROVE  unsub[l] # unsub[k]
      BY <1>3, <1>4, <1>8, <2>1, NoSagaIsNew DEF SubInv, DistinctTokens
    <2> QED  BY <1>1, <1>5, <1>6, <1>8, <2>1 DEF SubInv, TokenMeansConfirmed, GrowsBy
  <1>15. LinkOlderThanRow'
    BY <1>1, <1>3, <1>8 DEF SubInv, SubTypeOK, LinkOlderThanRow
  <1>16. StateMatchesLog' /\ MembershipAlternates'
    <2>1. \A t \in Sagas : (status'[k] = "confirmed" /\ unsub'[k] = t)
                             <=> (e.type = "confirmed" /\ e.id = t)
      BY <1>1, <1>3, <1>5 DEF SubInv, SubTypeOK
    <2>2. \A l \in Keys \ {k}, t \in Sagas :
            (status'[l] = "confirmed" /\ unsub'[l] = t) <=> (status[l] = "confirmed" /\ unsub[l] = t)
      BY <1>1, <1>3 DEF SubInv, SubTypeOK
    <2>3. status[k] # "confirmed"
      BY <1>1
    <2> QED  BY <1>1, <1>3, <1>5, <2>1, <2>2, <2>3, MoveInStep DEF SubInv
  <1> QED  BY <1>7, <1>9, <1>10, <1>11, <1>13, <1>14, <1>15, <1>16 DEF SubInv

(* Deleting a row disturbs nothing that is said of the rows that remain.   *)
LEMMA RemoveRowFacts ==
    ASSUME SubInv, NEW k \in Keys, RemoveRow(k), UNCHANGED <<repos, linkAge, reqs>>
    PROVE  /\ status' \in [Keys -> {"none", "pending", "confirmed"}]
           /\ unsub' \in [Keys -> Sagas \cup {NoSaga}]
           /\ rowAge' \in [Keys -> Ages]
           /\ \A l \in Keys : status'[l] # "none" =>
                l # k /\ status'[l] = status[l] /\ unsub'[l] = unsub[l] /\ rowAge'[l] = rowAge[l]
           /\ status'[k] = "none" /\ unsub'[k] = NoSaga
           /\ TokenIffRow' /\ DistinctTokens' /\ LinkOlderThanRow'
  <1>1. /\ status' = [status EXCEPT ![k] = "none"]
        /\ unsub' = [unsub EXCEPT ![k] = NoSaga]
        /\ rowAge' = [rowAge EXCEPT ![k] = 0]
        /\ linkAge' = linkAge
    BY DEF RemoveRow
  <1>2. /\ status' \in [Keys -> {"none", "pending", "confirmed"}]
        /\ unsub' \in [Keys -> Sagas \cup {NoSaga}]
        /\ rowAge' \in [Keys -> Ages]
    BY <1>1, TTLIsPositive DEF SubInv, SubTypeOK, Ages
  <1>3. /\ status'[k] = "none" /\ unsub'[k] = NoSaga
        /\ \A l \in Keys \ {k} : status'[l] = status[l] /\ unsub'[l] = unsub[l] /\ rowAge'[l] = rowAge[l]
    BY <1>1 DEF SubInv, SubTypeOK
  <1>4. TokenIffRow' /\ DistinctTokens' /\ LinkOlderThanRow'
    BY <1>1, <1>3 DEF SubInv, TokenIffRow, DistinctTokens, LinkOlderThanRow
  <1> QED  BY <1>2, <1>3, <1>4

(* Compensate.Execute preserves the invariant.                             *)
LEMMA CompensateInv ==
    ASSUME SubInv, NEW k \in Keys, Compensate(k)
    PROVE  SubInv'
  <1>1. status[k] = "pending" /\ RemoveRow(k) /\ UNCHANGED <<repos, linkAge, reqs, subLog>>
    BY DEF Compensate, Compensable
  <1>2. /\ status' \in [Keys -> {"none", "pending", "confirmed"}]
        /\ unsub' \in [Keys -> Sagas \cup {NoSaga}]
        /\ rowAge' \in [Keys -> Ages]
        /\ \A l \in Keys : status'[l] # "none" =>
             l # k /\ status'[l] = status[l] /\ unsub'[l] = unsub[l] /\ rowAge'[l] = rowAge[l]
        /\ status'[k] = "none" /\ unsub'[k] = NoSaga
        /\ TokenIffRow' /\ DistinctTokens' /\ LinkOlderThanRow'
    BY <1>1, RemoveRowFacts
  <1>3. SubTypeOK' /\ RowAnnounced' /\ FreshRequests'
    BY <1>1, <1>2 DEF SubInv, SubTypeOK, RowAnnounced, FreshRequests
  <1>4. TokenWasPending' /\ TokenMeansConfirmed'
    BY <1>1, <1>2 DEF SubInv, TokenWasPending, TokenMeansConfirmed
  <1>5. \A l \in Keys, t \in Sagas :
          (status'[l] = "confirmed" /\ unsub'[l] = t) <=> (status[l] = "confirmed" /\ unsub[l] = t)
    <2>1. \A l \in Keys \ {k} : status'[l] = status[l] /\ unsub'[l] = unsub[l]
      BY <1>1 DEF RemoveRow, SubInv, SubTypeOK
    <2> QED  BY <1>1, <1>2, <2>1
  <1>6. StateMatchesLog' /\ MembershipAlternates'
    BY <1>1, <1>5 DEF SubInv, StateMatchesLog, MembershipAlternates
  <1> QED  BY <1>2, <1>3, <1>4, <1>6 DEF SubInv

(* Unsubscribe.Execute preserves the invariant.                            *)
LEMMA UnsubscribeInv ==
    ASSUME SubInv, NEW k \in Keys, Unsubscribe(k)
    PROVE  SubInv'
  <1> DEFINE e == Event("removed", k, NoSaga, NoSaga)
  <1>1. /\ status[k] # "none" /\ Published(subLog, "confirmed", unsub[k])
        /\ RemoveRow(k)
        /\ subLog' = Append(subLog, e)
        /\ UNCHANGED <<repos, linkAge, reqs>>
    BY DEF Unsubscribe
  <1>2. e \in SubEvents /\ e.type = "removed" /\ e.key = k /\ e.id = NoSaga
    BY DEF Event, SubEvents, EventSet
  <1> HIDE DEF e
  <1>3. GrowsBy(subLog, e, subLog')
    BY <1>1, <1>2, AppendFacts DEF SubInv, SubTypeOK
  <1>4. /\ status' \in [Keys -> {"none", "pending", "confirmed"}]
        /\ unsub' \in [Keys -> Sagas \cup {NoSaga}]
        /\ rowAge' \in [Keys -> Ages]
        /\ \A l \in Keys : status'[l] # "none" =>
             l # k /\ status'[l] = status[l] /\ unsub'[l] = unsub[l] /\ rowAge'[l] = rowAge[l]
        /\ status'[k] = "none" /\ unsub'[k] = NoSaga
        /\ TokenIffRow' /\ DistinctTokens' /\ LinkOlderThanRow'
    BY <1>1, RemoveRowFacts
  <1>5. SubTypeOK'
    BY <1>1, <1>3, <1>4 DEF SubInv, SubTypeOK, GrowsBy
  <1>6. RowAnnounced'
    <2>1. \A j \in DOMAIN subLog : j \in DOMAIN subLog' /\ subLog'[j] = subLog[j]
      BY <1>3 DEF GrowsBy
    <2> QED  BY <1>1, <1>4, <2>1 DEF SubInv, RowAnnounced
  <1>7. FreshRequests' /\ TokenWasPending' /\ TokenMeansConfirmed'
    <2>1. \A s : Published(subLog', "pending", s) <=> Published(subLog, "pending", s)
      BY <1>2, <1>3 DEF GrowsBy
    <2>2. \A s : Published(subLog', "confirmed", s) <=> Published(subLog, "confirmed", s)
      BY <1>2, <1>3 DEF GrowsBy
    <2>3. FreshRequests'
      BY <1>1, <2>1 DEF SubInv, FreshRequests
    <2>4. TokenWasPending'
      BY <2>1, <2>2 DEF SubInv, TokenWasPending
    <2>5. TokenMeansConfirmed'
      BY <1>4, <2>2 DEF SubInv, TokenMeansConfirmed
    <2> QED  BY <2>3, <2>4, <2>5
  <1>8. status[k] = "confirmed"
    BY <1>1 DEF SubInv, SubTypeOK, TokenMeansConfirmed
  <1>9. StateMatchesLog' /\ MembershipAlternates'
    <2>1. \A t \in Sagas : (status'[k] = "confirmed" /\ unsub'[k] = t)
                             <=> (e.type = "confirmed" /\ e.id = t)
      BY <1>2, <1>4
    <2>2. \A l \in Keys \ {k}, t \in Sagas :
            (status'[l] = "confirmed" /\ unsub'[l] = t) <=> (status[l] = "confirmed" /\ unsub[l] = t)
      BY <1>1 DEF RemoveRow, SubInv, SubTypeOK
    <2> QED  BY <1>1, <1>2, <1>8, <2>1, <2>2, MoveInStep DEF SubInv
  <1> QED  BY <1>4, <1>5, <1>6, <1>7, <1>9 DEF SubInv

(* What the sweep appends: expired events, of expired rows.                *)
SweepLog(gone) ==
    /\ Len(subLog) \in Nat /\ DOMAIN subLog = 1..Len(subLog)
    /\ subLog' \in Seq(SubEvents) /\ Len(subLog') \in Nat /\ Len(subLog) <= Len(subLog')
    /\ DOMAIN subLog' = 1..Len(subLog')
    /\ \A i \in 1..Len(subLog) : subLog'[i] = subLog[i]
    /\ \A i \in (Len(subLog) + 1)..Len(subLog') :
          subLog'[i].type = "expired" /\ subLog'[i].key \in gone

(* The events Cleanup.Run appends are expired events of swept rows.        *)
LEMMA SweptAreExpired ==
    ASSUME SubInv, Cleanup
    PROVE  SweepLog({k \in Keys : Expired(k)})
  <1> DEFINE gone == {k \in Keys : Expired(k)}
  <1>1. PICK order \in Bijection(1..Cardinality(gone), gone) :
          subLog' = subLog \o [i \in DOMAIN order |-> Event("expired", order[i], NoSaga, NoSaga)]
    BY Zenon DEF Cleanup
  <1> DEFINE ext == [i \in DOMAIN order |-> Event("expired", order[i], NoSaga, NoSaga)]
  <1>2. ext \in Seq(SubEvents) /\ \A i \in DOMAIN ext : ext[i].type = "expired" /\ ext[i].key \in gone
    <2>1. Cardinality(gone) \in Nat
      BY KeysAreFinite
    <2> HIDE DEF gone
    <2>2. order \in [1..Cardinality(gone) -> gone]
      BY <1>1 DEF Bijection, Injection
    <2>3. \A k \in gone : Event("expired", k, NoSaga, NoSaga) \in SubEvents
                          /\ Event("expired", k, NoSaga, NoSaga).type = "expired"
                          /\ Event("expired", k, NoSaga, NoSaga).key = k
      BY DEF Event, SubEvents, EventSet, gone
    <2>4. ext \in [1..Cardinality(gone) -> SubEvents]
      BY <2>2, <2>3
    <2>5. \A i \in DOMAIN ext : ext[i].type = "expired" /\ ext[i].key \in gone
      BY <2>2, <2>3
    <2> HIDE DEF ext
    <2> QED  BY <2>1, <2>4, <2>5
  <1> HIDE DEF ext
  <1>3. /\ Len(subLog) \in Nat /\ Len(ext) \in Nat
        /\ DOMAIN subLog = 1..Len(subLog) /\ DOMAIN ext = 1..Len(ext)
        /\ subLog' \in Seq(SubEvents) /\ Len(subLog') = Len(subLog) + Len(ext)
        /\ DOMAIN subLog' = 1..Len(subLog')
        /\ \A i \in 1..Len(subLog) : subLog'[i] = subLog[i]
        /\ \A i \in (Len(subLog) + 1)..Len(subLog') : i - Len(subLog) \in 1..Len(ext)
                                                     /\ subLog'[i] = ext[i - Len(subLog)]
    <2>1. subLog \in Seq(SubEvents) /\ ext \in Seq(SubEvents) /\ subLog' = subLog \o ext
      BY <1>1, <1>2 DEF SubInv, SubTypeOK, ext
    <2> QED  BY <2>1
  <1>4. \A i \in (Len(subLog) + 1)..Len(subLog') :
          subLog'[i].type = "expired" /\ subLog'[i].key \in gone
    BY <1>2, <1>3
  <1> QED  BY <1>3, <1>4 DEF SweepLog, gone

(* The link issued with an expired row is no longer accepted.              *)
LEMMA ExpiredLinkIsDead ==
    ASSUME SubInv, NEW k \in Keys, Expired(k)
    PROVE  ~LinkValid(unsub[k])
  <1>1. status[k] = "pending" /\ rowAge[k] > TTL /\ rowAge[k] <= linkAge[unsub[k]]
    BY DEF Expired, SubInv, LinkOlderThanRow
  <1>2. unsub[k] \in Sagas /\ linkAge[unsub[k]] \in Nat /\ rowAge[k] \in Nat
    BY <1>1, TTLIsPositive DEF SubInv, SubTypeOK, TokenIffRow, Ages
  <1> QED  BY <1>1, <1>2, TTLIsPositive DEF LinkValid

(* Cleanup.Run preserves the invariant.                                    *)
LEMMA CleanupInv ==
    ASSUME SubInv, Cleanup
    PROVE  SubInv'
  <1> DEFINE gone == {k \in Keys : Expired(k)}
  <1>1. /\ status' = [k \in Keys |-> IF k \in gone THEN "none" ELSE status[k]]
        /\ unsub' = [k \in Keys |-> IF k \in gone THEN NoSaga ELSE unsub[k]]
        /\ rowAge' = [k \in Keys |-> IF k \in gone THEN 0 ELSE rowAge[k]]
        /\ UNCHANGED <<repos, linkAge, reqs>>
    BY DEF Cleanup
  <1>2. \A k \in gone : k \in Keys /\ status[k] = "pending"
    BY DEF Expired
  <1>3. SweepLog(gone)
    BY SweptAreExpired
  <1>4. \A t \in {"pending", "confirmed"} : \A s : Published(subLog', t, s) <=> Published(subLog, t, s)
    <2>1. DOMAIN subLog' = DOMAIN subLog \cup (Len(subLog) + 1)..Len(subLog')
      BY <1>3 DEF SweepLog
    <2> QED  BY <1>3, <2>1 DEF Published, SweepLog
  <1>5. \A l \in Keys :
          /\ status'[l] # "none" => /\ status'[l] = status[l] /\ unsub'[l] = unsub[l]
                                    /\ rowAge'[l] = rowAge[l]
          /\ status[l] = "confirmed" => status'[l] = "confirmed" /\ unsub'[l] = unsub[l]
          /\ status'[l] = "none" => status[l] = "none" \/ l \in gone
          /\ l \in gone => status'[l] = "none" /\ unsub'[l] = NoSaga
          /\ l \notin gone => status'[l] = status[l] /\ unsub'[l] = unsub[l]
    BY <1>1, <1>2
  <1>6. SubTypeOK'
    <2>1. status' \in [Keys -> {"none", "pending", "confirmed"}]
      BY <1>1 DEF SubInv, SubTypeOK
    <2>2. unsub' \in [Keys -> Sagas \cup {NoSaga}]
      BY <1>1 DEF SubInv, SubTypeOK
    <2>3. rowAge' \in [Keys -> Ages]
      BY <1>1, TTLIsPositive DEF SubInv, SubTypeOK, Ages
    <2> QED  BY <1>1, <1>3, <1>5, <2>1, <2>2, <2>3 DEF SubInv, SubTypeOK, SweepLog
  <1> HIDE DEF gone
  <1>7. TokenIffRow' /\ DistinctTokens' /\ LinkOlderThanRow'
    BY <1>1, <1>2, <1>5 DEF SubInv, TokenIffRow, DistinctTokens, LinkOlderThanRow
  <1>8. RowAnnounced'
    <2>1. \A j \in DOMAIN subLog : j \in DOMAIN subLog' /\ subLog'[j] = subLog[j]
      BY <1>3 DEF SweepLog
    <2> QED  BY <1>1, <1>5, <2>1 DEF SubInv, RowAnnounced
  <1>9. FreshRequests' /\ TokenWasPending' /\ TokenMeansConfirmed'
    BY <1>1, <1>4, <1>5 DEF SubInv, FreshRequests, TokenWasPending, TokenMeansConfirmed
  <1>10. StateMatchesLog' /\ MembershipAlternates'
    <2>1. Len(subLog) <= Len(subLog')
      BY <1>3 DEF SweepLog
    <2>2. \A i \in (Len(subLog) + 1)..Len(subLog') :
            subLog'[i].type = "expired" /\ status[subLog'[i].key] # "confirmed"
      BY <1>2, <1>3 DEF SweepLog
    <2>3. \A l \in Keys, t \in Sagas :
            (status'[l] = "confirmed" /\ unsub'[l] = t) <=> (status[l] = "confirmed" /\ unsub[l] = t)
      BY <1>5
    <2> QED  BY <1>3, <2>1, <2>2, <2>3, KeepInStep DEF SubInv, SweepLog
  <1> QED  BY <1>6, <1>7, <1>8, <1>9, <1>10 DEF SubInv

(* The passing of time preserves the invariant.                            *)
LEMMA TickInv ==
    ASSUME SubInv, Tick
    PROVE  SubInv'
  <1>1. UNCHANGED <<repos, status, unsub, reqs, subLog>>
    BY DEF Tick
  <1>2. /\ rowAge' = [k \in Keys |-> IF status[k] = "pending" THEN Older(rowAge[k]) ELSE rowAge[k]]
        /\ linkAge' = [s \in Sagas |-> IF Unused(s) THEN linkAge[s] ELSE Older(linkAge[s])]
    BY DEF Tick
  <1>3. \A a, b \in Ages : Older(a) \in Ages /\ (a <= b => Older(a) <= Older(b))
    BY TTLIsPositive DEF Ages, Older
  <1>4. rowAge' \in [Keys -> Ages] /\ linkAge' \in [Sagas -> Ages]
    BY <1>2, <1>3 DEF SubInv, SubTypeOK
  <1>5. SubTypeOK'
    BY <1>1, <1>4 DEF SubInv, SubTypeOK
  <1>6. LinkOlderThanRow'
    <2>1. ASSUME NEW k \in Keys, status[k] = "pending"
          PROVE  unsub[k] \in Sagas /\ ~Unused(unsub[k])
      BY <2>1 DEF SubInv, SubTypeOK, TokenIffRow, RowAnnounced, Unused, Published, IsEvent
    <2>2. ASSUME NEW k \in Keys, status[k] = "pending"
          PROVE  rowAge'[k] = Older(rowAge[k]) /\ linkAge'[unsub[k]] = Older(linkAge[unsub[k]])
      BY <1>2, <2>1, <2>2
    <2> QED  BY <1>1, <1>3, <2>1, <2>2 DEF SubInv, SubTypeOK, LinkOlderThanRow
  <1>7. StateMatchesLog' /\ MembershipAlternates' /\ RowAnnounced' /\ FreshRequests'
    BY <1>1 DEF SubInv, StateMatchesLog, MembershipAlternates, RowAnnounced, FreshRequests
  <1>8. TokenIffRow' /\ DistinctTokens' /\ TokenWasPending' /\ TokenMeansConfirmed'
    BY <1>1 DEF SubInv, TokenIffRow, DistinctTokens, TokenWasPending, TokenMeansConfirmed
  <1> QED  BY <1>5, <1>6, <1>7, <1>8 DEF SubInv

(* A step that changes nothing preserves the invariant.                    *)
LEMMA StutterInv ==
    ASSUME SubInv, UNCHANGED subVars
    PROVE  SubInv'
  <1>1. UNCHANGED <<repos, status, unsub, rowAge, linkAge, reqs, subLog>>
    BY DEF subVars
  <1>2. SubTypeOK' /\ StateMatchesLog' /\ MembershipAlternates' /\ RowAnnounced'
    BY <1>1 DEF SubInv, SubTypeOK, StateMatchesLog, MembershipAlternates, RowAnnounced
  <1>3. /\ FreshRequests' /\ TokenIffRow' /\ DistinctTokens' /\ TokenWasPending'
        /\ TokenMeansConfirmed' /\ LinkOlderThanRow'
    BY <1>1 DEF SubInv, FreshRequests, TokenIffRow, DistinctTokens, TokenWasPending,
                TokenMeansConfirmed, LinkOlderThanRow
  <1> QED  BY <1>2, <1>3 DEF SubInv

----------------------------------------------------------------------------
(* Every step of the service preserves the invariant.                      *)
LEMMA SubInvStep ==
    ASSUME SubInv, [SubNext]_subVars
    PROVE  SubInv'
  BY ResolveInv, CommitInv, AbortInv, ConfirmInv, UnsubscribeInv, CleanupInv,
     CompensateInv, TickInv, StutterInv DEF SubNext

(* SubInv is an inductive invariant of the subscription service.           *)
THEOREM SubInvariance == SubSpec => []SubInv
  BY SubInvStep, InitInv, PTL DEF SubSpec

(* The tables, links, calls and events of the service keep their types,    *)
(* and every row's repository exists.                                      *)
THEOREM SubTypeCorrect == SubSpec => []SubTypeOK
  BY SubInvariance, PTL DEF SubInv

(* A row is confirmed exactly when the outbox says so, with the same       *)
(* unsubscribe token: the transactional outbox of confirm.go and           *)
(* unsubscribe.go never lets the table and the events diverge.             *)
THEOREM TableMatchesEvents == SubSpec => []StateMatchesLog
  BY SubInvariance, PTL DEF SubInv

(* For each key, confirmed and removed events alternate, starting with     *)
(* confirmed, whatever interleaving of subscribe, confirm, unsubscribe,    *)
(* sweep and compensation produced them.                                   *)
THEOREM EventsAlternate == SubSpec => []MembershipAlternates
  BY SubInvariance, PTL DEF SubInv

(* Every row was announced by the call that created it.                    *)
THEOREM RowsAreAnnounced == SubSpec => []RowAnnounced
  BY SubInvariance, PTL DEF SubInv

(* A confirmed row leaves the table only with its removed event: neither   *)
(* the sweep nor a compensation touches it (the scopes confirmed = false   *)
(* of adapter/repository/subscription.go).                                 *)
THEOREM OnlyUnsubscribeRemovesConfirmed == SubSpec => ConfirmedLeavesByUnsubscribe
  <1> DEFINE Leaves(k) == status[k] = "confirmed" /\ status'[k] # "confirmed"
             Told(k) == \E i \in DOMAIN subLog' \ DOMAIN subLog : IsEvent(subLog'[i], "removed", k)
  <1>1. ASSUME SubInv, [SubNext]_subVars, NEW k \in Keys, Leaves(k)
        PROVE  Told(k)
    <2>1. status \in [Keys -> {"none", "pending", "confirmed"}] /\ subLog \in Seq(SubEvents)
      BY <1>1 DEF SubInv, SubTypeOK
    <2>2. ASSUME NEW l \in Keys, NEW s \in Sagas, SubscribeResolve(l, s)
          PROVE  FALSE
      BY <1>1, <2>2 DEF SubscribeResolve
    <2>3. ASSUME NEW q \in reqs, SubscribeCommit(q)
          PROVE  FALSE
      BY <1>1, <2>1, <2>3 DEF SubscribeCommit, CanCreate
    <2>4. ASSUME NEW q \in reqs, SubscribeAbort(q)
          PROVE  FALSE
      BY <1>1, <2>4 DEF SubscribeAbort
    <2>5. ASSUME NEW i \in DOMAIN subLog, Confirm(i)
          PROVE  FALSE
      BY <1>1, <2>1, <2>5 DEF Confirm
    <2>6. ASSUME NEW l \in Keys, Unsubscribe(l)
          PROVE  Told(k)
      <3> DEFINE e == Event("removed", l, NoSaga, NoSaga)
      <3>1. l = k
        BY <1>1, <2>1, <2>6 DEF Unsubscribe, RemoveRow
      <3>2. e \in SubEvents /\ IsEvent(e, "removed", l) /\ subLog' = Append(subLog, e)
        BY <2>6 DEF Event, SubEvents, EventSet, IsEvent, Unsubscribe
      <3> HIDE DEF e
      <3>3. GrowsBy(subLog, e, subLog')
        BY <2>1, <3>2, AppendFacts
      <3>4. Len(subLog) + 1 \in DOMAIN subLog' \ DOMAIN subLog /\ subLog'[Len(subLog) + 1] = e
        BY <3>3 DEF GrowsBy
      <3> QED  BY <3>1, <3>2, <3>4
    <2>7. ASSUME Cleanup
          PROVE  FALSE
      BY <1>1, <2>7 DEF Cleanup, Expired
    <2>8. ASSUME NEW l \in Keys, Compensate(l)
          PROVE  FALSE
      BY <1>1, <2>1, <2>8 DEF Compensate, Compensable, RemoveRow
    <2>9. ASSUME Tick \/ UNCHANGED subVars
          PROVE  FALSE
      BY <1>1, <2>9 DEF Tick, subVars
    <2> QED  BY <1>1, <2>2, <2>3, <2>4, <2>5, <2>6, <2>7, <2>8, <2>9 DEF SubNext
  <1>2. SubInv /\ [SubNext]_subVars => [\A k \in Keys : Leaves(k) => Told(k)]_subVars
    BY <1>1
  <1> QED  BY <1>2, SubInvariance, PTL DEF SubSpec, ConfirmedLeavesByUnsubscribe

(* The sweep removes a row only when the link issued with it is no longer  *)
(* accepted (cleanup.go:41 against confirm_token.go:31).                   *)
THEOREM SweepWaitsForLink == SubSpec => SweepSparesLiveLink
  <1> DEFINE Fresh(i) == subLog'[i].type = "expired"
             Spares == \A i \in DOMAIN subLog' \ DOMAIN subLog :
                           Fresh(i) => ~LinkValid(unsub[subLog'[i].key])
  <1>1. ASSUME SubInv, [SubNext]_subVars
        PROVE  Spares
    <2>1. subLog \in Seq(SubEvents) /\ Len(subLog) \in Nat /\ DOMAIN subLog = 1..Len(subLog)
      BY <1>1 DEF SubInv, SubTypeOK
    <2>2. ASSUME NEW e, e.type # "expired", subLog' = Append(subLog, e)
          PROVE  Spares
      <3>1. /\ DOMAIN subLog' = 1..(Len(subLog) + 1)
            /\ subLog'[Len(subLog) + 1] = e
        BY <2>1, <2>2
      <3>2. \A i \in DOMAIN subLog' \ DOMAIN subLog : i = Len(subLog) + 1
        BY <2>1, <3>1
      <3> QED  BY <2>2, <3>1, <3>2
    <2>3. ASSUME subLog' = subLog
          PROVE  Spares
      BY <2>3
    <2>4. ASSUME NEW q \in reqs, SubscribeCommit(q)
          PROVE  Spares
      BY <2>2, <2>4 DEF SubscribeCommit, Event
    <2>5. ASSUME NEW i \in DOMAIN subLog, Confirm(i)
          PROVE  Spares
      BY <2>2, <2>5 DEF Confirm, Event
    <2>6. ASSUME NEW l \in Keys, Unsubscribe(l)
          PROVE  Spares
      BY <2>2, <2>6 DEF Unsubscribe, Event
    <2>7. ASSUME Cleanup
          PROVE  Spares
      <3>1. SweepLog({k \in Keys : Expired(k)})
        BY <1>1, <2>7, SweptAreExpired
      <3>2. \A i \in DOMAIN subLog' \ DOMAIN subLog : subLog'[i].key \in {k \in Keys : Expired(k)}
        BY <3>1 DEF SweepLog
      <3> QED  BY <1>1, <3>2, ExpiredLinkIsDead
    <2> QED  BY <1>1, <2>3, <2>4, <2>5, <2>6, <2>7
             DEF SubNext, SubscribeResolve, SubscribeAbort, Compensate, Tick, subVars
  <1>2. SubInv /\ [SubNext]_subVars => [Spares]_subVars
    BY <1>1
  <1> QED  BY <1>2, SubInvariance, PTL DEF SubSpec, SweepSparesLiveLink
=============================================================================
