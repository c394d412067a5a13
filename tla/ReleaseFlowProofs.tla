------------------------- MODULE ReleaseFlowProofs -------------------------
(***************************************************************************)
(* Proofs about the way of a release to the subscribers, for every set of  *)
(* addresses and any number of releases, events, faults and retries.       *)
(*                                                                         *)
(* Three arguments, one for each group of variables.  Events: every event  *)
(* of an address has a place, the read model holds an address just when    *)
(* its newest event is a confirmation, and a drained durable has reached   *)
(* the newest (ReadInd).  Tags: every notified event that says delivered   *)
(* is about a tag somebody got (TagInd).  E-mails: the sends to an address *)
(* that are still to come without a new reason, one by a batch and one by  *)
(* a retry, are counted with those that were made (MailInd).  The last two *)
(* are in ReleaseMailProofs.                                               *)
(***************************************************************************)
EXTENDS ReleaseMailProofs

----------------------------------------------------------------------------
(* The inductive invariant.                                                *)

(* How many events of an address a durable is done with.                   *)
Handled(d, e) == Occurs(e, SubSeq(Subject(d), 1, acked[d]))

(* Events of an address alternate; the newest one in the read model has    *)
(* happened, and is no older than one that its durable is done with.       *)
ReadInd ==
    \A e \in Emails :
        /\ Occurs(e, leaves) <= Occurs(e, joins) /\ Occurs(e, joins) <= Occurs(e, leaves) + 1
        /\ \/ newest[e] = 0
           \/ \E n \in 1..Occurs(e, joins) : newest[e] = 2 * n - 1
           \/ \E n \in 1..Occurs(e, leaves) : newest[e] = 2 * n
        /\ e \notin drift =>
              /\ Handled("notifier_confirmed", e) > 0 =>
                    newest[e] >= 2 * Handled("notifier_confirmed", e) - 1
              /\ newest[e] >= 2 * Handled("notifier_removed", e)
              /\ e \in readers <=> \E n \in Nat : newest[e] = 2 * n + 1

(* All of it: the three arguments and the types.                           *)
RFInd ==
    /\ EventTypeOK /\ ReadInd
    /\ ScannerTypeOK /\ WatchCountExact
    /\ NotifierTypeOK /\ TagInd /\ SeenMeansDelivered /\ MailInd

----------------------------------------------------------------------------
(* The events and the projections.                                         *)

EventStep ==
    \/ \E e \in Emails : Join(e) \/ Leave(e)
    \/ ScannerConfirmed \/ ScannerRemoved \/ NotifierConfirmed \/ NotifierRemoved
    \/ \E d \in Durables : Dropped(d)

(* Nothing else touches them.                                              *)
LEMMA EventFrame ==
    ASSUME [RFNext]_rfVars
    PROVE  EventStep \/ UNCHANGED <<eventVars, count>>
<1> USE DEF eventVars, memberVars, readVars, scannerVars
<1>1. CASE UNCHANGED rfVars
  BY <1>1 DEF rfVars
<1>2. CASE Release \/ HandleNotified \/ Scan \/ Notify
  BY <1>2 DEF Release, HandleNotified, Scan, Notify, ScanList, Seed, Unchanged, Detect,
              NotifySkip, NotifySend, NotifyRecord
<1>3. CASE ScanNothing \/ NotifyAborted \/ NotifiedDropped \/ RetryRecord \/ RetryAborted \/ Prune
  BY <1>3 DEF ScanNothing, NotifyAborted, NotifiedDropped, RetryRecord, RetryAborted, Prune
<1>4. CASE \E r \in failed : RetryRow(r)
  BY <1>4 DEF RetryRow, RetryGone, RetrySend
<1>5. QED
  BY <1>1, <1>2, <1>3, <1>4 DEF RFNext, Deliveries, EventStep

(* Each durable and its subject.                                           *)
LEMMA SubjectFacts ==
    /\ \A d \in Durables : Subject(d) \in {joins, leaves}
    /\ Subject("scanner_confirmed") = joins /\ Subject("notifier_confirmed") = joins
    /\ Subject("scanner_removed") = leaves /\ Subject("notifier_removed") = leaves
    /\ "scanner_confirmed" \in Durables /\ "notifier_confirmed" \in Durables
    /\ "scanner_removed" \in Durables /\ "notifier_removed" \in Durables
BY DEF Subject, Durables

(* The count of subscribers is that of the events, unless one spoiled it.  *)
LEMMA WatchInd ==
    ASSUME EventTypeOK, ScannerTypeOK, WatchCountExact, [RFNext]_rfVars
    PROVE  WatchCountExact'
<1> DEFINE c == "scanner_confirmed"
           r == "scanner_removed"
<1>1. acked[c] \in Nat /\ acked[r] \in Nat /\ count \in Nat /\ acked \in [Durables -> Nat]
      /\ c \in Durables /\ r \in Durables
  BY SubjectFacts DEF EventTypeOK, ScannerTypeOK
<1>2. CASE UNCHANGED <<eventVars, count>>
  BY <1>2 DEF WatchCountExact, eventVars
<1>3. ASSUME NEW e \in Emails, Join(e) \/ Leave(e) PROVE WatchCountExact'
  BY <1>3 DEF Join, Leave, WatchCountExact, scannerVars
<1>4. CASE ScannerConfirmed
  <2>1. count' = count + 1
    BY <1>4 DEF ScannerConfirmed, IncrementSubscriber
  <2>2. CASE Acked(c) /\ UNCHANGED drift
    <3>1. acked'[c] = acked[c] + 1 /\ acked'[r] = acked[r]
      BY <1>1, <2>2 DEF Acked
    <3>2. QED
      BY <1>1, <2>1, <2>2, <3>1 DEF WatchCountExact
  <2>3. CASE Watch \in drift'
    BY <2>3 DEF WatchCountExact
  <2>4. QED
    BY <1>4, <2>2, <2>3 DEF ScannerConfirmed
<1>5. CASE ScannerRemoved
  <2>1. count > 0 => count' = count - 1
    BY <1>1, <1>5 DEF ScannerRemoved, DecrementSubscriber
  <2>2. CASE Acked(r) /\ UNCHANGED drift /\ count > 0
    <3>1. acked'[r] = acked[r] + 1 /\ acked'[c] = acked[c]
      BY <1>1, <2>2 DEF Acked
    <3>2. QED
      BY <1>1, <2>1, <2>2, <3>1 DEF WatchCountExact
  <2>3. CASE Watch \in drift'
    BY <2>3 DEF WatchCountExact
  <2>4. QED
    BY <1>1, <1>5, <2>2, <2>3 DEF ScannerRemoved
<1>6. CASE NotifierConfirmed \/ NotifierRemoved
  <2>1. PICK d \in {"notifier_confirmed", "notifier_removed"} : Project(d) /\ UNCHANGED count
    BY <1>6 DEF NotifierConfirmed, NotifierRemoved, scannerVars
  <2>2. drift \subseteq drift' /\ acked'[c] = acked[c] /\ acked'[r] = acked[r]
    BY <1>1, <2>1 DEF Project, Acked
  <2>3. QED
    BY <2>1, <2>2 DEF WatchCountExact
<1>7. ASSUME NEW d \in Durables, Dropped(d) PROVE WatchCountExact'
  <2>1. CASE d \in {c, r}
    BY <1>7, <2>1 DEF Dropped, WatchCountExact
  <2>2. CASE d \notin {c, r}
    <3>1. drift \subseteq drift' /\ acked'[c] = acked[c] /\ acked'[r] = acked[r] /\ count' = count
      BY <1>1, <1>7, <2>2 DEF Dropped, Acked, scannerVars
    <3>2. QED
      BY <3>1 DEF WatchCountExact
  <2>3. QED
    BY <2>1, <2>2
<1>8. QED
  BY <1>2, <1>3, <1>4, <1>5, <1>6, <1>7, EventFrame DEF EventStep

----------------------------------------------------------------------------
(* Counting.                                                               *)
FS == INSTANCE FiniteSetTheorems

(* The cardinality that the library's theorems are about.                  *)
LEMMA SameCardinality ==
    \A S : Cardinality(S) = FS!Cardinality(S) /\ (IsFiniteSet(S) <=> FS!IsFiniteSet(S))
BY DEF Cardinality, FS!Cardinality, IsFiniteSet, FS!IsFiniteSet

(* The laws of counting that are used below.                               *)
LEMMA CountingLaws ==
    /\ Cardinality({}) = 0
    /\ \A S : IsFiniteSet(S) => Cardinality(S) \in Nat
    /\ \A S, T : IsFiniteSet(T) /\ S \subseteq T => IsFiniteSet(S) /\ Cardinality(S) <= Cardinality(T)
    /\ \A S, x : IsFiniteSet(S) /\ x \notin S => Cardinality(S \cup {x}) = Cardinality(S) + 1
    /\ \A n \in Nat : IsFiniteSet(1..n)
<1>1. Cardinality({}) = 0
  BY SameCardinality, FS!FS_EmptySet
<1>2. ASSUME NEW S, IsFiniteSet(S) PROVE Cardinality(S) \in Nat
  BY <1>2, SameCardinality, FS!FS_CardinalityType
<1>3. ASSUME NEW S, NEW T, IsFiniteSet(T), S \subseteq T
      PROVE  IsFiniteSet(S) /\ Cardinality(S) <= Cardinality(T)
  <2>1. FS!IsFiniteSet(T) /\ S \in SUBSET T
    BY <1>3, SameCardinality
  <2>2. FS!IsFiniteSet(S) /\ FS!Cardinality(S) <= FS!Cardinality(T)
    BY <2>1, FS!FS_Subset, Zenon
  <2>3. QED
    BY <2>2, SameCardinality
<1>4. ASSUME NEW S, NEW x, IsFiniteSet(S), x \notin S
      PROVE  Cardinality(S \cup {x}) = Cardinality(S) + 1
  <2>1. FS!Cardinality(S \cup {x}) = IF x \in S THEN FS!Cardinality(S) ELSE FS!Cardinality(S) + 1
    BY <1>4, SameCardinality, FS!FS_AddElement, Zenon
  <2>2. QED
    BY <1>4, <2>1, SameCardinality
<1>5. ASSUME NEW n \in Nat PROVE IsFiniteSet(1..n)
  BY SameCardinality, FS!FS_Interval
<1>6. QED
  BY <1>1, <1>2, <1>3, <1>4, <1>5, Zenon

(* Occurs is a number.                                                     *)
LEMMA OccursType ==
    ASSUME NEW S, NEW q \in Seq(S), NEW e
    PROVE  Occurs(e, q) \in Nat /\ IsFiniteSet({i \in DOMAIN q : q[i] = e})
<1>1. IsFiniteSet(1..Len(q)) /\ DOMAIN q = 1..Len(q)
  BY CountingLaws
<1>2. IsFiniteSet({i \in DOMAIN q : q[i] = e})
  BY <1>1, CountingLaws, Zenon
<1>3. QED
  BY <1>2, CountingLaws DEF Occurs

(* Appending counts for what is appended only.                             *)
LEMMA OccursAppend ==
    ASSUME NEW S, NEW q \in Seq(S), NEW x \in S, NEW e
    PROVE  /\ x = e => Occurs(e, Append(q, x)) = Occurs(e, q) + 1
           /\ x # e => Occurs(e, Append(q, x)) = Occurs(e, q)
<1> DEFINE A == {i \in DOMAIN q : q[i] = e}
           B == {i \in DOMAIN Append(q, x) : Append(q, x)[i] = e}
           n == Len(q) + 1
<1>1. IsFiniteSet(A) /\ Cardinality(A) \in Nat
  BY OccursType, CountingLaws, Zenon
<1>2. n \notin A
  OBVIOUS
<1>3. CASE x = e
  <2>1. B = A \cup {n}
    BY <1>3
  <2>2. Cardinality(B) = Cardinality(A) + 1
    <3> HIDE DEF A, B, n
    <3>1. QED
      BY <1>1, <1>2, <2>1, CountingLaws, Zenon
  <2>3. QED
    BY <1>3, <2>2, Zenon DEF Occurs
<1>4. CASE x # e
  <2>1. B = A
    BY <1>4
  <2>2. QED
    BY <1>4, <2>1, Zenon DEF Occurs
<1>5. QED
  BY <1>3, <1>4

(* The prefixes of a sequence.                                             *)
LEMMA OccursPrefix ==
    ASSUME NEW S, NEW q \in Seq(S), NEW n \in 0..Len(q), NEW e
    PROVE  /\ Occurs(e, SubSeq(q, 1, n)) \in Nat
           /\ Occurs(e, SubSeq(q, 1, n)) <= Occurs(e, q)
           /\ n = Len(q) => Occurs(e, SubSeq(q, 1, n)) = Occurs(e, q)
<1> DEFINE p == SubSeq(q, 1, n)
<1>1. p \in Seq(S) /\ Len(p) = n /\ \A i \in 1..n : p[i] = q[i]
  OBVIOUS
<1>2. Occurs(e, p) \in Nat
  BY <1>1, OccursType, Zenon
<1>3. Occurs(e, p) <= Occurs(e, q)
  <2>1. {i \in DOMAIN p : p[i] = e} \subseteq {i \in DOMAIN q : q[i] = e}
    BY <1>1
  <2>2. IsFiniteSet({i \in DOMAIN q : q[i] = e})
    BY OccursType, Zenon
  <2>3. QED
    BY <2>1, <2>2, CountingLaws DEF Occurs
<1>4. n = Len(q) => p = q
  BY <1>1
<1>5. QED
  BY <1>2, <1>3, <1>4, Zenon

(* A prefix and the next element.                                          *)
LEMMA OccursNext ==
    ASSUME NEW S, NEW q \in Seq(S), NEW n \in 0..Len(q), n < Len(q), NEW e
    PROVE  /\ q[n + 1] = e => Occurs(e, SubSeq(q, 1, n + 1)) = Occurs(e, SubSeq(q, 1, n)) + 1
           /\ q[n + 1] # e => Occurs(e, SubSeq(q, 1, n + 1)) = Occurs(e, SubSeq(q, 1, n))
<1> DEFINE p == SubSeq(q, 1, n)
           y == q[n + 1]
           a == SubSeq(q, 1, n + 1)
<1>1. p \in Seq(S) /\ Len(p) = n /\ \A i \in 1..n : p[i] = q[i]
  OBVIOUS
<1>2. y \in S /\ n + 1 \in 1..Len(q)
  OBVIOUS
<1>3. a = Append(p, y)
  <2> DEFINE b == Append(p, y)
  <2>1. a \in Seq(S) /\ Len(a) = n + 1 /\ \A i \in 1..(n + 1) : a[i] = q[i]
    BY <1>2
  <2>2. b \in Seq(S) /\ Len(b) = n + 1 /\ \A i \in 1..(n + 1) : b[i] = q[i]
    BY <1>1, <1>2
  <2> HIDE DEF a, b
  <2>3. a = b
    BY <2>1, <2>2
  <2>4. QED
    BY <2>3 DEF b
<1> HIDE DEF p, y, a
<1>4. /\ y = e => Occurs(e, Append(p, y)) = Occurs(e, p) + 1
      /\ y # e => Occurs(e, Append(p, y)) = Occurs(e, p)
  BY <1>1, <1>2, OccursAppend, Zenon
<1>5. /\ y = e => Occurs(e, a) = Occurs(e, p) + 1
      /\ y # e => Occurs(e, a) = Occurs(e, p)
  BY <1>3, <1>4
<1>6. QED
  BY <1>5 DEF p, y, a

(* A prefix stays one when the sequence grows.                             *)
LEMMA PrefixKept ==
    ASSUME NEW S, NEW q \in Seq(S), NEW n \in 0..Len(q), NEW x \in S
    PROVE  SubSeq(Append(q, x), 1, n) = SubSeq(q, 1, n)
OBVIOUS

----------------------------------------------------------------------------
(* The read model.                                                         *)

(* What a durable is done with, and its current message.                   *)
LEMMA HandledFacts ==
    ASSUME EventTypeOK, NEW d \in Durables, NEW e \in Emails
    PROVE  /\ Handled(d, e) \in Nat /\ Occurs(e, Subject(d)) \in Nat
           /\ Handled(d, e) <= Occurs(e, Subject(d))
           /\ ~Waiting(d) => Handled(d, e) = Occurs(e, Subject(d))
           /\ Waiting(d) =>
                 /\ Current(d) \in Emails
                 /\ Current(d) = e => Occurs(e, SubSeq(Subject(d), 1, acked[d] + 1)) = Handled(d, e) + 1
                 /\ Current(d) # e => Occurs(e, SubSeq(Subject(d), 1, acked[d] + 1)) = Handled(d, e)
                 /\ Occurs(e, SubSeq(Subject(d), 1, acked[d] + 1)) <= Occurs(e, Subject(d))
<1> DEFINE q == Subject(d)
           n == acked[d]
<1>1. q \in Seq(Emails) /\ n \in Nat /\ n \in 0..Len(q)
  BY DEF EventTypeOK, Subject
<1>2. /\ ~Waiting(d) => n = Len(q)
      /\ Waiting(d) => n < Len(q) /\ n + 1 \in 0..Len(q) /\ q[n + 1] \in Emails /\ Current(d) = q[n + 1]
  BY <1>1 DEF Waiting, Current
<1> HIDE DEF q, n
<1>3. Occurs(e, q) \in Nat
  BY <1>1, OccursType, Zenon
<1>4. /\ Occurs(e, SubSeq(q, 1, n)) \in Nat
      /\ Occurs(e, SubSeq(q, 1, n)) <= Occurs(e, q)
      /\ n = Len(q) => Occurs(e, SubSeq(q, 1, n)) = Occurs(e, q)
      /\ n < Len(q) /\ q[n + 1] = e =>
            Occurs(e, SubSeq(q, 1, n + 1)) = Occurs(e, SubSeq(q, 1, n)) + 1
      /\ n < Len(q) /\ q[n + 1] # e =>
            Occurs(e, SubSeq(q, 1, n + 1)) = Occurs(e, SubSeq(q, 1, n))
  <2>1. /\ Occurs(e, SubSeq(q, 1, n)) \in Nat
        /\ Occurs(e, SubSeq(q, 1, n)) <= Occurs(e, q)
        /\ n = Len(q) => Occurs(e, SubSeq(q, 1, n)) = Occurs(e, q)
    BY <1>1, OccursPrefix, Zenon
  <2>2. ASSUME n < Len(q)
        PROVE  /\ q[n + 1] = e => Occurs(e, SubSeq(q, 1, n + 1)) = Occurs(e, SubSeq(q, 1, n)) + 1
               /\ q[n + 1] # e => Occurs(e, SubSeq(q, 1, n + 1)) = Occurs(e, SubSeq(q, 1, n))
    BY <1>1, <2>2, OccursNext, Zenon
  <2>3. QED
    BY <2>1, <2>2, Zenon
<1>5. n + 1 \in 0..Len(q) => Occurs(e, SubSeq(q, 1, n + 1)) <= Occurs(e, q)
  BY <1>1, OccursPrefix, Zenon
<1>6. Handled(d, e) = Occurs(e, SubSeq(q, 1, n))
  BY DEF Handled, q, n
<1>7. QED
  BY <1>2, <1>3, <1>4, <1>5, <1>6, Zenon DEF q, n

(* A durable moves on by one message, or does not.                         *)
LEMMA AckedFacts ==
    ASSUME EventTypeOK, NEW d \in Durables, Waiting(d), UNCHANGED memberVars,
           Acked(d) \/ UNCHANGED acked
    PROVE  /\ acked' \in [Durables -> Nat] /\ \A c \in Durables : acked'[c] <= Len(Subject(c)')
           /\ \A c \in Durables, e \in Emails : Handled(c, e)' =
                 IF Acked(d) /\ c = d /\ Current(d) = e THEN Handled(c, e) + 1 ELSE Handled(c, e)
<1>1. /\ \A c \in Durables : Subject(c)' = Subject(c)
      /\ joins \in Seq(Emails) /\ leaves \in Seq(Emails)
  BY DEF memberVars, Subject, EventTypeOK
<1>2. \A c \in Durables : Len(Subject(c)) \in Nat
  BY <1>1 DEF Subject
<1>3. /\ acked' \in [Durables -> Nat]
      /\ \A c \in Durables : acked'[c] = IF Acked(d) /\ c = d THEN acked[c] + 1 ELSE acked[c]
  <2>1. CASE Acked(d)
    BY <2>1 DEF EventTypeOK, Acked
  <2>2. CASE ~Acked(d)
    BY <2>2 DEF EventTypeOK
  <2>3. QED
    BY <2>1, <2>2
<1>4. \A c \in Durables : acked'[c] <= Len(Subject(c)')
  BY <1>1, <1>2, <1>3 DEF EventTypeOK, Waiting
<1>5. ASSUME NEW c \in Durables, NEW e \in Emails
      PROVE  Handled(c, e)' = IF Acked(d) /\ c = d /\ Current(d) = e THEN Handled(c, e) + 1 ELSE Handled(c, e)
  <2>1. Handled(c, e)' = Occurs(e, SubSeq(Subject(c), 1, acked'[c]))
    BY <1>1, Zenon DEF Handled, Occurs
  <2>2. CASE Acked(d) /\ c = d
    BY <1>3, <2>1, <2>2, HandledFacts
  <2>3. CASE ~(Acked(d) /\ c = d)
    BY <1>3, <2>1, <2>3 DEF Handled
  <2>4. QED
    BY <2>2, <2>3
<1>6. QED
  BY <1>3, <1>4, <1>5

(* An address joins or leaves.                                             *)
LEMMA MemberInd ==
    ASSUME EventTypeOK, ReadInd, NEW x \in Emails, Join(x) \/ Leave(x)
    PROVE  EventTypeOK' /\ ReadInd'
<1>1. /\ \/ joins' = Append(joins, x) /\ leaves' = leaves /\ ~Subscribed(x)
         \/ leaves' = Append(leaves, x) /\ joins' = joins /\ Subscribed(x)
      /\ UNCHANGED <<acked, readers, newest, drift>>
      /\ joins \in Seq(Emails) /\ leaves \in Seq(Emails)
  BY DEF Join, Leave, readVars, EventTypeOK
<1>2. /\ joins' \in Seq(Emails) /\ leaves' \in Seq(Emails)
      /\ Len(joins) <= Len(joins') /\ Len(leaves) <= Len(leaves')
  <2>1. CASE joins' = Append(joins, x) /\ leaves' = leaves
    BY <1>1, <2>1
  <2>2. CASE leaves' = Append(leaves, x) /\ joins' = joins
    BY <1>1, <2>2
  <2>3. QED
    BY <1>1, <2>1, <2>2
<1>3. EventTypeOK'
  <2>1. \A d \in Durables : Len(Subject(d)) <= Len(Subject(d)') /\ Len(Subject(d)) \in Nat /\ Len(Subject(d)') \in Nat
    BY <1>1, <1>2 DEF Subject
  <2>2. \A d \in Durables : acked[d] <= Len(Subject(d)')
    BY <2>1 DEF EventTypeOK
  <2>3. QED
    BY <1>1, <1>2, <2>2 DEF EventTypeOK
<1>4. ASSUME NEW e \in Emails, NEW d \in Durables PROVE Handled(d, e)' = Handled(d, e)
  <2>1. Subject(d)' = Subject(d) \/ Subject(d)' = Append(Subject(d), x)
    BY <1>1 DEF Subject
  <2>2. Subject(d) \in Seq(Emails) /\ acked[d] \in 0..Len(Subject(d))
    BY DEF EventTypeOK, Subject
  <2>3. SubSeq(Append(Subject(d), x), 1, acked[d]) = SubSeq(Subject(d), 1, acked[d])
    BY <2>2, PrefixKept, Zenon
  <2>4. QED
    BY <1>1, <2>1, <2>3, Zenon DEF Handled, Occurs
<1>5. ASSUME NEW e \in Emails
      PROVE  /\ Occurs(e, leaves)' <= Occurs(e, joins)' /\ Occurs(e, joins)' <= Occurs(e, leaves)' + 1
             /\ Occurs(e, joins) <= Occurs(e, joins)' /\ Occurs(e, leaves) <= Occurs(e, leaves)'
             /\ Occurs(e, joins)' \in Nat /\ Occurs(e, leaves)' \in Nat
             /\ Occurs(e, joins) \in Nat /\ Occurs(e, leaves) \in Nat
  <2>1. Occurs(e, joins) \in Nat /\ Occurs(e, leaves) \in Nat
    BY <1>1, OccursType, Zenon
  <2>2. /\ x = e => Occurs(e, Append(joins, x)) = Occurs(e, joins) + 1
        /\ x # e => Occurs(e, Append(joins, x)) = Occurs(e, joins)
    BY <1>1, OccursAppend, Zenon
  <2>3. /\ x = e => Occurs(e, Append(leaves, x)) = Occurs(e, leaves) + 1
        /\ x # e => Occurs(e, Append(leaves, x)) = Occurs(e, leaves)
    BY <1>1, OccursAppend, Zenon
  <2>4. Occurs(e, joins)' = Occurs(e, joins') /\ Occurs(e, leaves)' = Occurs(e, leaves')
    BY DEF Occurs
  <2>5. Occurs(e, leaves) <= Occurs(e, joins) /\ Occurs(e, joins) <= Occurs(e, leaves) + 1
    BY DEF ReadInd
  <2>6. Subscribed(e) <=> Occurs(e, joins) > Occurs(e, leaves)
    BY DEF Subscribed
  <2>7. CASE joins' = Append(joins, x) /\ leaves' = leaves /\ ~Subscribed(x)
    BY <2>1, <2>2, <2>4, <2>5, <2>6, <2>7
  <2>8. CASE leaves' = Append(leaves, x) /\ joins' = joins /\ Subscribed(x)
    BY <2>1, <2>3, <2>4, <2>5, <2>6, <2>8
  <2>9. QED
    BY <1>1, <2>7, <2>8
<1>6. ReadInd'
  <2> SUFFICES ASSUME NEW e \in Emails
               PROVE  /\ \/ newest[e] = 0
                         \/ \E n \in 1..Occurs(e, joins)' : newest[e] = 2 * n - 1
                         \/ \E n \in 1..Occurs(e, leaves)' : newest[e] = 2 * n
                      /\ e \notin drift =>
                            /\ Handled("notifier_confirmed", e) > 0 =>
                                  newest[e] >= 2 * Handled("notifier_confirmed", e) - 1
                            /\ newest[e] >= 2 * Handled("notifier_removed", e)
                            /\ e \in readers <=> \E n \in Nat : newest[e] = 2 * n + 1
    BY <1>1, <1>4, <1>5, SubjectFacts, Zenon DEF ReadInd
  <2>1. 1..Occurs(e, joins) \subseteq 1..Occurs(e, joins)' /\ 1..Occurs(e, leaves) \subseteq 1..Occurs(e, leaves)'
    BY <1>5
  <2>2. QED
    BY <2>1 DEF ReadInd
<1>7. QED
  BY <1>3, <1>6

(* What is counted of an address when neither subject grows.               *)
LEMMA SameSubjects ==
    ASSUME UNCHANGED memberVars, NEW e
    PROVE  Occurs(e, joins)' = Occurs(e, joins) /\ Occurs(e, leaves)' = Occurs(e, leaves)
BY DEF memberVars, Occurs

(* A scanner durable moves on, or any durable drops a message: addresses   *)
(* whose events were dropped are spoiled.                                  *)
LEMMA OtherDurableInd ==
    ASSUME EventTypeOK, ReadInd, NEW d \in Durables, Waiting(d), UNCHANGED memberVars,
           Acked(d) \/ UNCHANGED acked, UNCHANGED readVars, drift \subseteq drift',
           d \in {"scanner_confirmed", "scanner_removed"} \/ Current(d) \in drift'
    PROVE  EventTypeOK' /\ ReadInd'
<1>1. /\ acked' \in [Durables -> Nat] /\ \A c \in Durables : acked'[c] <= Len(Subject(c)')
      /\ \A c \in Durables, e \in Emails : Handled(c, e)' =
            IF Acked(d) /\ c = d /\ Current(d) = e THEN Handled(c, e) + 1 ELSE Handled(c, e)
  BY AckedFacts
<1>2. EventTypeOK'
  BY <1>1 DEF EventTypeOK, memberVars, readVars
<1>3. ASSUME NEW e \in Emails, e \notin drift', NEW c \in {"notifier_confirmed", "notifier_removed"}
      PROVE  Handled(c, e)' = Handled(c, e)
  BY <1>1, <1>3, SubjectFacts
<1>4. ReadInd'
  BY <1>3, SameSubjects DEF ReadInd, readVars
<1>5. QED
  BY <1>2, <1>4

(* An event is projected onto the read model.                              *)
LEMMA ProjectInd ==
    ASSUME EventTypeOK, ReadInd, NotifierConfirmed \/ NotifierRemoved
    PROVE  EventTypeOK' /\ ReadInd'
<1>1. PICK d \in {"notifier_confirmed", "notifier_removed"} :
         /\ Waiting(d) /\ Project(d) /\ UNCHANGED memberVars
         /\ readers' = IF d = "notifier_confirmed" THEN readers \cup {Current(d)} ELSE readers \ {Current(d)}
  BY DEF NotifierConfirmed, NotifierRemoved, Upsert, Delete
<1>2. d \in Durables
  BY SubjectFacts
<1>3. PICK x \in Emails : x = Current(d)
  BY <1>1, <1>2 DEF EventTypeOK, Waiting, Current, Subject
<1> DEFINE h == Handled(d, x)
           place == IF d = "notifier_confirmed" THEN 2 * h + 1 ELSE 2 * h + 2
<1>4. /\ d \in Durables /\ d \in {"notifier_confirmed", "notifier_removed"}
      /\ Waiting(d) /\ Project(d) /\ UNCHANGED memberVars
      /\ readers' = IF d = "notifier_confirmed" THEN readers \cup {x} ELSE readers \ {x}
  BY <1>1, <1>2, <1>3
<1>5. /\ h \in Nat /\ Occurs(x, SubSeq(Subject(d), 1, acked[d] + 1)) = h + 1
      /\ h + 1 <= Occurs(x, Subject(d)) /\ Occurs(x, Subject(d)) \in Nat
  BY <1>4, <1>3, HandledFacts
<1>6. Place(d) = place /\ place \in Nat
  BY <1>4, <1>3, <1>5 DEF Place
<1>7. /\ newest' = [newest EXCEPT ![x] = IF place > @ THEN place ELSE @]
      /\ drift' = IF place < newest[x] THEN drift \cup {x} ELSE drift
      /\ Acked(d) \/ UNCHANGED acked
  BY <1>4, <1>3, <1>6 DEF Project
<1>8. /\ acked' \in [Durables -> Nat] /\ \A c \in Durables : acked'[c] <= Len(Subject(c)')
      /\ \A c \in Durables, e \in Emails : Handled(c, e)' =
            IF Acked(d) /\ c = d /\ Current(d) = e THEN Handled(c, e) + 1 ELSE Handled(c, e)
  BY <1>4, <1>7, AckedFacts
<1>9. /\ newest[x] \in Nat /\ newest' \in [Emails -> Nat]
      /\ newest'[x] = (IF place > newest[x] THEN place ELSE newest[x])
      /\ \A e \in Emails : e # x => newest'[e] = newest[e]
  BY <1>3, <1>6, <1>7 DEF EventTypeOK
<1> HIDE DEF h, place
<1>10. EventTypeOK'
  <2>1. readers' \subseteq Emails
    BY <1>4, <1>3 DEF EventTypeOK
  <2>2. QED
    BY <1>4, <1>8, <1>9, <2>1 DEF EventTypeOK, memberVars
<1>11. ASSUME NEW e \in Emails, e # x
      PROVE  /\ newest'[e] = newest[e] /\ (e \in drift' <=> e \in drift) /\ (e \in readers' <=> e \in readers)
             /\ \A c \in Durables : Handled(c, e)' = Handled(c, e)
  BY <1>4, <1>3, <1>7, <1>8, <1>9, <1>11
<1>12. /\ Occurs(x, leaves) <= Occurs(x, joins) /\ Occurs(x, joins) <= Occurs(x, leaves) + 1
       /\ \/ newest[x] = 0
          \/ \E n \in 1..Occurs(x, joins) : newest[x] = 2 * n - 1
          \/ \E n \in 1..Occurs(x, leaves) : newest[x] = 2 * n
       /\ x \notin drift =>
             /\ Handled("notifier_confirmed", x) > 0 =>
                   newest[x] >= 2 * Handled("notifier_confirmed", x) - 1
             /\ newest[x] >= 2 * Handled("notifier_removed", x)
             /\ x \in readers <=> \E n \in Nat : newest[x] = 2 * n + 1
  BY <1>3 DEF ReadInd
<1>13. \/ newest'[x] = 0
       \/ \E n \in 1..Occurs(x, joins) : newest'[x] = 2 * n - 1
       \/ \E n \in 1..Occurs(x, leaves) : newest'[x] = 2 * n
  <2>1. CASE newest'[x] = newest[x]
    BY <1>12, <2>1
  <2>2. CASE newest'[x] = place /\ d = "notifier_confirmed"
    <3>1. h + 1 \in 1..Occurs(x, joins) /\ place = 2 * (h + 1) - 1
      BY <1>5, <2>2, SubjectFacts DEF place
    <3>2. QED
      BY <2>2, <3>1
  <2>3. CASE newest'[x] = place /\ d = "notifier_removed"
    <3>1. h + 1 \in 1..Occurs(x, leaves) /\ place = 2 * (h + 1)
      BY <1>5, <2>3, SubjectFacts DEF place
    <3>2. QED
      BY <2>3, <3>1
  <2>4. QED
    BY <1>4, <1>9, <2>1, <2>2, <2>3
<1>14. ASSUME x \notin drift'
       PROVE  /\ Handled("notifier_confirmed", x)' > 0 =>
                    newest'[x] >= 2 * Handled("notifier_confirmed", x)' - 1
              /\ newest'[x] >= 2 * Handled("notifier_removed", x)'
              /\ x \in readers' <=> \E n \in Nat : newest'[x] = 2 * n + 1
  <2>1. x \notin drift /\ place >= newest[x] /\ newest'[x] = place
    BY <1>6, <1>7, <1>9, <1>14
  <2>2. /\ Handled("notifier_confirmed", x) \in Nat /\ Handled("notifier_removed", x) \in Nat
    BY <1>3, HandledFacts, SubjectFacts
  <2>3. CASE d = "notifier_confirmed"
    <3>1. /\ Handled("notifier_confirmed", x) = h /\ Handled("notifier_confirmed", x)' \in {h, h + 1}
          /\ Handled("notifier_removed", x)' = Handled("notifier_removed", x)
      BY <1>3, <1>8, <2>3, SubjectFacts DEF h
    <3>2. place = 2 * h + 1 /\ x \in readers'
      BY <1>4, <2>3 DEF place
    <3>3. \E n \in Nat : place = 2 * n + 1
      BY <1>5, <3>2
    <3>4. newest[x] >= 2 * Handled("notifier_removed", x)
      BY <1>12, <2>1
    <3>5. QED
      BY <1>5, <1>9, <2>1, <2>2, <3>1, <3>2, <3>3, <3>4
  <2>4. CASE d = "notifier_removed"
    <3>1. /\ Handled("notifier_removed", x) = h /\ Handled("notifier_removed", x)' \in {h, h + 1}
          /\ Handled("notifier_confirmed", x)' = Handled("notifier_confirmed", x)
      BY <1>3, <1>8, <2>4, SubjectFacts DEF h
    <3>2. place = 2 * h + 2 /\ x \notin readers'
      BY <1>4, <2>4 DEF place
    <3>3. \A n \in Nat : place # 2 * n + 1
      BY <1>5, <3>2
    <3>4. QED
      BY <1>5, <1>12, <2>1, <2>2, <3>1, <3>2, <3>3
  <2>5. QED
    BY <1>4, <2>3, <2>4
<1>15. ReadInd'
  <2> SUFFICES ASSUME NEW e \in Emails
               PROVE  /\ Occurs(e, leaves)' <= Occurs(e, joins)' /\ Occurs(e, joins)' <= Occurs(e, leaves)' + 1
                      /\ \/ newest'[e] = 0
                         \/ \E n \in 1..Occurs(e, joins)' : newest'[e] = 2 * n - 1
                         \/ \E n \in 1..Occurs(e, leaves)' : newest'[e] = 2 * n
                      /\ e \notin drift' =>
                            /\ Handled("notifier_confirmed", e)' > 0 =>
                                  newest'[e] >= 2 * Handled("notifier_confirmed", e)' - 1
                            /\ newest'[e] >= 2 * Handled("notifier_removed", e)'
                            /\ e \in readers' <=> \E n \in Nat : newest'[e] = 2 * n + 1
    BY DEF ReadInd
  <2>1. Occurs(e, joins)' = Occurs(e, joins) /\ Occurs(e, leaves)' = Occurs(e, leaves)
    BY <1>4, SameSubjects
  <2>2. CASE e = x
    BY <1>12, <1>13, <1>14, <2>1, <2>2, SMTT(20)
  <2>3. CASE e # x
    BY <1>11, <2>1, <2>3, SubjectFacts DEF ReadInd
  <2>4. QED
    BY <2>2, <2>3
<1>16. QED
  BY <1>10, <1>15

(* The events and the read model, over every step.                         *)
LEMMA EventInd ==
    ASSUME EventTypeOK, ReadInd, [RFNext]_rfVars
    PROVE  EventTypeOK' /\ ReadInd'
<1>1. CASE UNCHANGED <<eventVars, count>>
  BY <1>1, Zenon DEF EventTypeOK, ReadInd, eventVars, Handled, Occurs, Subject
<1>2. ASSUME NEW e \in Emails, Join(e) \/ Leave(e) PROVE EventTypeOK' /\ ReadInd'
  BY <1>2, MemberInd
<1>3. CASE ScannerConfirmed
  <2>1. /\ Waiting("scanner_confirmed") /\ UNCHANGED memberVars /\ UNCHANGED readVars
        /\ Acked("scanner_confirmed") \/ UNCHANGED acked
        /\ drift \subseteq drift'
    BY <1>3 DEF ScannerConfirmed
  <2>2. QED
    BY <2>1, OtherDurableInd, SubjectFacts
<1>4. CASE ScannerRemoved
  <2>1. /\ Waiting("scanner_removed") /\ UNCHANGED memberVars /\ UNCHANGED readVars
        /\ Acked("scanner_removed") \/ UNCHANGED acked
        /\ drift \subseteq drift'
    BY <1>4 DEF ScannerRemoved
  <2>2. QED
    BY <2>1, OtherDurableInd, SubjectFacts
<1>5. CASE NotifierConfirmed \/ NotifierRemoved
  BY <1>5, ProjectInd
<1>6. ASSUME NEW d \in Durables, Dropped(d) PROVE EventTypeOK' /\ ReadInd'
  <2>1. /\ Waiting(d) /\ UNCHANGED memberVars /\ UNCHANGED readVars /\ Acked(d)
        /\ drift \subseteq drift'
        /\ d \in {"scanner_confirmed", "scanner_removed"} \/ Current(d) \in drift'
    BY <1>6 DEF Dropped
  <2>2. QED
    BY <2>1, OtherDurableInd
<1>7. QED
  BY <1>1, <1>2, <1>3, <1>4, <1>5, <1>6, EventFrame DEF EventStep

(* Drained, the read model is exact.                                       *)
LEMMA DrainedIsExact ==
    ASSUME EventTypeOK, ReadInd
    PROVE  ReadModelExact
<1> SUFFICES ASSUME ~Waiting("notifier_confirmed"), ~Waiting("notifier_removed"), NEW e \in Emails \ drift
             PROVE  e \in readers <=> Subscribed(e)
  BY DEF ReadModelExact
<1> DEFINE j == Occurs(e, joins)
           l == Occurs(e, leaves)
           n == newest[e]
<1>1. /\ j \in Nat /\ l \in Nat /\ n \in Nat
      /\ Handled("notifier_confirmed", e) = j /\ Handled("notifier_removed", e) = l
  BY HandledFacts, SubjectFacts DEF EventTypeOK
<1>2. /\ l <= j /\ j <= l + 1
      /\ n = 0 \/ (\E i \in 1..j : n = 2 * i - 1) \/ (\E i \in 1..l : n = 2 * i)
      /\ j > 0 => n >= 2 * j - 1
      /\ n >= 2 * l
      /\ e \in readers <=> \E i \in Nat : n = 2 * i + 1
  BY <1>1 DEF ReadInd
<1>3. Subscribed(e) <=> j > l
  BY DEF Subscribed
<1> HIDE DEF j, l, n
<1>4. CASE j > l
  <2>1. j = l + 1 /\ j - 1 \in Nat
    BY <1>1, <1>2, <1>4
  <2>2. n = 2 * (j - 1) + 1
    BY <1>1, <1>2, <2>1
  <2>3. QED
    BY <1>2, <1>3, <1>4, <2>1, <2>2
<1>5. CASE ~(j > l)
  <2>1. j = l
    BY <1>1, <1>2, <1>5
  <2>2. n = 2 * l
    BY <1>1, <1>2, <2>1
  <2>3. ~\E i \in Nat : n = 2 * i + 1
    BY <1>1, <2>2
  <2>4. QED
    BY <1>2, <1>3, <1>5, <2>3
<1>6. QED
  BY <1>4, <1>5

----------------------------------------------------------------------------
(* The whole flow.                                                         *)

(* It starts in the invariant.                                             *)
LEMMA RFStart == RFInit => RFInd
<1> SUFFICES ASSUME RFInit PROVE RFInd
  OBVIOUS
<1> USE DEF RFInit
<1>1. \A e : Occurs(e, <<>>) = 0
  <2>1. \A e : {i \in DOMAIN <<>> : <<>>[i] = e} = {}
    OBVIOUS
  <2>2. QED
    BY <2>1, CountingLaws, Zenon DEF Occurs
<1>2. \A d \in Durables : Subject(d) = <<>> /\ acked[d] = 0
  BY DEF Subject
<1>3. EventTypeOK
  <2>1. <<>> \in Seq(Emails) /\ Len(<<>>) = 0
    OBVIOUS
  <2>2. QED
    BY <1>2, <2>1 DEF EventTypeOK
<1>4. ReadInd
  <2> SUFFICES ASSUME NEW e \in Emails
               PROVE  /\ Occurs(e, leaves) = 0 /\ Occurs(e, joins) = 0 /\ newest[e] = 0
                      /\ Handled("notifier_confirmed", e) = 0 /\ Handled("notifier_removed", e) = 0
                      /\ e \notin readers
    BY DEF ReadInd
  <2>1. SubSeq(<<>>, 1, 0) = <<>>
    OBVIOUS
  <2>2. \A d \in Durables : Handled(d, e) = Occurs(e, <<>>)
    BY <1>2, <2>1, Zenon DEF Handled
  <2>3. QED
    BY <1>1, <2>2, SubjectFacts
<1>5. ScannerTypeOK
  <2>1. <<>> \in Seq(Tags \cup {NoTag}) /\ Len(<<>>) <= 1
    OBVIOUS
  <2>2. QED
    BY <2>1 DEF ScannerTypeOK
<1>6. WatchCountExact
  <2>1. acked["scanner_confirmed"] = 0 /\ acked["scanner_removed"] = 0
    BY <1>2, SubjectFacts
  <2>2. QED
    BY <2>1 DEF WatchCountExact
<1>7. NotifierTypeOK
  <2>1. <<>> \in Seq(Tags) /\ <<>> \in Seq(NotifiedRecord)
    OBVIOUS
  <2>2. QED
    BY <2>1 DEF NotifierTypeOK
<1>8. TagInd
  <2>1. DOMAIN notified = {}
    OBVIOUS
  <2>2. QED
    BY <2>1 DEF TagInd
<1>9. SeenMeansDelivered
  BY DEF SeenMeansDelivered
<1>10. MailInd
  <2> SUFFICES ASSUME NEW t \in Tags, NEW e \in Emails
               PROVE  mails[<<t, e>>] + One(BatchMay(t, e)) + One(RetryMay(t, e)) <= 1 + excuses[<<t, e>>]
    BY DEF MailInd
  <2>1. mails[<<t, e>>] = 0 /\ excuses[<<t, e>>] = 0
    BY DEF Pairs
  <2>2. ~RetryMay(t, e)
    BY DEF RetryMay, HasRow
  <2>3. QED
    BY <2>1, <2>2 DEF One
<1>11. QED
  BY <1>3, <1>4, <1>5, <1>6, <1>7, <1>8, <1>9, <1>10 DEF RFInd

(* Every step keeps it, and no e-mail is taken back.                       *)
LEMMA RFStep ==
    ASSUME RFInd, [RFNext]_rfVars
    PROVE  RFInd' /\ MailsGrow
<1>1. EventTypeOK' /\ ReadInd'
  BY EventInd DEF RFInd
<1>2. ScannerTypeOK' /\ WatchCountExact'
  BY ScannerTypeInd, WatchInd DEF RFInd
<1>3. NotifierInd' /\ MailsGrow
  BY NotifierStep DEF RFInd, NotifierInd
<1>4. SeenMeansDelivered'
  <2>1. mails' \in [Pairs -> Nat]
    BY <1>3 DEF NotifierInd, NotifierTypeOK
  <2>2. QED
    BY <1>3, <2>1, SeenInd DEF RFInd, NotifierInd
<1>5. QED
  BY <1>1, <1>2, <1>3, <1>4 DEF RFInd, NotifierInd

(* Whatever events, releases, messages, sends and retries overlap, fail or *)
(* are repeated, the invariant holds.                                      *)
THEOREM RFInvariance == RFSpec => []RFInd
BY RFStart, RFStep, PTL DEF RFSpec

(* The tables are well-typed: a repository without a row has no tag, there *)
(* is one row per tag and address, and the retry counter of a row stays    *)
(* within the reach of ListRetryable (failed_notifications.go).            *)
THEOREM TablesAreSound == RFSpec => []RFTypeOK
<1>1. ASSUME RFInd PROVE RFTypeOK
  <2>1. \A d \in Durables : acked[d] \in 0..Len(Subject(d))
    <3>1. \A d \in Durables : Len(Subject(d)) \in Nat
      BY <1>1, SubjectFacts DEF RFInd, EventTypeOK
    <3>2. QED
      BY <1>1, <3>1 DEF RFInd, EventTypeOK
  <2>2. \A n \in DOMAIN notified : notified[n].tag \in Tags /\ notified[n].delivered \in BOOLEAN
    <3>1. \A n \in DOMAIN notified : notified[n] \in NotifiedRecord
      BY <1>1 DEF RFInd, NotifierTypeOK
    <3>2. QED
      BY <3>1, Zenon DEF NotifiedRecord
  <2>3. QED
    BY <1>1, <2>1, <2>2 DEF RFTypeOK, RFInd, EventTypeOK, ScannerTypeOK, NotifierTypeOK
<1>2. QED
  BY <1>1, RFInvariance, PTL

(* subscriber_count is exact unless an event was dropped or applied twice, *)
(* or a removal found no row (watched_repos.go).                           *)
THEOREM WatchListCounts == RFSpec => []WatchCountExact
<1>1. RFInd => WatchCountExact
  BY DEF RFInd
<1>2. QED
  BY <1>1, RFInvariance, PTL

(* The read model re-converges with any number of addresses and events,    *)
(* whatever order the two durables take and however often they repeat.     *)
THEOREM ReadModelConverges == RFSpec => []ReadModelExact
<1>1. RFInd => ReadModelExact
  BY DrainedIsExact, SMTT(20) DEF RFInd
<1>2. QED
  BY <1>1, RFInvariance, PTL

(* An address gets a release again only for a reason: the rows, the marks  *)
(* and the batch in hand leave room for no other send.                     *)
THEOREM SendsAreCounted == RFSpec => []AgainOnlyForAReason
<1>1. ASSUME RFInd PROVE AgainOnlyForAReason
  <2> SUFFICES ASSUME NEW t \in Tags, NEW e \in Emails
               PROVE  mails[<<t, e>>] <= 1 + excuses[<<t, e>>]
    BY DEF AgainOnlyForAReason, Pairs
  <2>1. mails[<<t, e>>] \in Nat /\ excuses[<<t, e>>] \in Nat
    BY <1>1 DEF RFInd, NotifierTypeOK, Pairs
  <2>2. mails[<<t, e>>] + One(BatchMay(t, e)) + One(RetryMay(t, e)) <= 1 + excuses[<<t, e>>]
    BY <1>1 DEF RFInd, MailInd
  <2>3. QED
    BY <2>1, <2>2 DEF One
<1>2. QED
  BY <1>1, RFInvariance, PTL

(* The scanner stops announcing a release only when it was seeded with it  *)
(* or an e-mail about it left (advance_tag.go).                            *)
THEOREM TagsAreDelivered == RFSpec => []SeenMeansDelivered
<1>1. RFInd => SeenMeansDelivered
  BY DEF RFInd
<1>2. QED
  BY <1>1, RFInvariance, PTL

(* A row leaves failed_notifications only when its e-mail left, it was     *)
(* given up in public, or its address is not in the read model             *)
(* (retrier.go).                                                           *)
THEOREM RowsAreAccounted == RFSpec => RowLeavesForAReason
<1> DEFINE Kept(r) == \E s \in failed' : s.tag = r.tag /\ s.email = r.email
           Delivers(r) == <<r.tag, r.email>> \in sent' /\ mails[<<r.tag, r.email>>] > 0
           Accounted(r) == \/ Kept(r) \/ Delivers(r)
                           \/ <<r.tag, r.email>> \in dead'
                           \/ r.email \notin readers
<1>1. ASSUME RFInd, [RFNext]_rfVars, NEW r \in failed
      PROVE  Accounted(r)
  <2>1. CASE failed \subseteq failed'
    BY <2>1
  <2>2. CASE \E s \in failed : RetryRow(s)
    <3>1. PICK s \in failed : RetryRow(s)
      BY <2>2
    <3>2. CASE RetrySend(s)
      BY <2>1, <3>2, Zenon DEF RetrySend
    <3>3. CASE RetryGone(s)
      <4>1. failed' = failed \ {s} /\ s.email \notin readers
        BY <3>3 DEF RetryGone, DeleteRow, Recipient
      <4>2. QED
        BY <4>1
    <3>4. QED
      BY <3>1, <3>2, <3>3 DEF RetryRow
  <2>3. CASE RetryRecord
    <3>1. retry # <<>> /\ NotifierTypeOK /\ TagInd
      BY <1>1, <2>3 DEF RetryRecord, RFInd
    <3>2. PICK s \in failed : s = retry[1].row
      BY <3>1, RetryPair
    <3>3. CASE r # s
      <4>1. failed' = DeleteRow(s) \/ failed' = IncrementRetry(s)
        BY <2>3, <3>2 DEF RetryRecord
      <4>2. r \in failed'
        BY <3>3, <4>1 DEF IncrementRetry, DeleteRow
      <4>3. QED
        BY <4>2
    <3>4. CASE r = s /\ retry[1].ok
      <4>1. <<r.tag, r.email>> \in sent'
        BY <2>3, <3>2, <3>4 DEF RetryRecord
      <4>2. mails[<<r.tag, r.email>>] > 0
        BY <3>1, <3>2, <3>4 DEF TagInd
      <4>3. QED
        BY <4>1, <4>2
    <3>5. CASE r = s /\ ~retry[1].ok /\ LastAttempt(s)
      BY <2>3, <3>2, <3>5 DEF RetryRecord
    <3>6. CASE r = s /\ ~retry[1].ok /\ ~LastAttempt(s)
      <4>1. failed' = IncrementRetry(s)
        BY <2>3, <3>2, <3>6 DEF RetryRecord
      <4>2. r \in Rows
        BY <3>1 DEF NotifierTypeOK
      <4>3. [r EXCEPT !.retries = @ + 1] \in failed'
        BY <3>6, <4>1 DEF IncrementRetry
      <4>4. [r EXCEPT !.retries = @ + 1].tag = r.tag /\ [r EXCEPT !.retries = @ + 1].email = r.email
        BY <4>2 DEF Rows
      <4>5. QED
        BY <4>3, <4>4, Zenon
    <3>7. QED
      BY <3>3, <3>4, <3>5, <3>6, Zenon
  <2>4. CASE Detect \/ Notify \/ NotifyAborted \/ HandleNotified \/ NotifiedDropped
    <3>1. failed \subseteq failed'
      BY <2>4, Zenon DEF Detect, Notify, NotifySkip, NotifySend, NotifyRecord, NotifyAborted, HandleNotified,
                  NotifiedDropped, retryVars
    <3>2. QED
      BY <2>1, <3>1
  <2>5. CASE RetryAborted \/ Prune \/ UNCHANGED notifierVars
    <3>1. failed \subseteq failed'
      BY <2>5, Zenon DEF RetryAborted, Prune, notifierVars, retryVars
    <3>2. QED
      BY <2>1, <3>1
  <2>6. QED
    BY <1>1, <2>2, <2>3, <2>4, <2>5, NotifierFrame, Zenon
<1>2. ASSUME RFInd, [RFNext]_rfVars
      PROVE  [\A r \in failed : (\E s \in failed' : s.tag = r.tag /\ s.email = r.email)
                               \/ (<<r.tag, r.email>> \in sent' /\ mails[<<r.tag, r.email>>] > 0)
                               \/ <<r.tag, r.email>> \in dead'
                               \/ r.email \notin readers]_rfVars
  BY <1>1, <1>2, Zenon
<1>3. QED
  BY <1>2, RFInvariance, PTL DEF RFSpec, RowLeavesForAReason
=============================================================================
