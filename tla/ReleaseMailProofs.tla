------------------------- MODULE ReleaseMailProofs -------------------------
(***************************************************************************)
(* Proofs about the scanner's tag and the notifier: what a step does to    *)
(* the queues, the batch, the rows and the marks, for every set of         *)
(* addresses and any number of releases, faults and retries.  They are the *)
(* second and the third argument of ReleaseFlowProofs.                     *)
(***************************************************************************)
EXTENDS ReleaseFlow, TLAPS

----------------------------------------------------------------------------
(* Events.                                                                 *)
eventVars == <<joins, leaves, acked, readers, newest, drift>>

EventTypeOK ==
    /\ joins \in Seq(Emails) /\ leaves \in Seq(Emails)
    /\ acked \in [Durables -> Nat] /\ \A d \in Durables : acked[d] <= Len(Subject(d))
    /\ readers \subseteq Emails /\ newest \in [Emails -> Nat]

----------------------------------------------------------------------------
(* The scanner.                                                            *)
ScannerTypeOK ==
    /\ count \in Nat /\ seen \in Tags \cup {NoTag} /\ (count = 0 => seen = NoTag)
    /\ latest \in Tags \cup {NoTag}
    /\ pass \in Seq(Tags \cup {NoTag}) /\ Len(pass) <= 1
    /\ seeded \subseteq Tags

----------------------------------------------------------------------------
(* The notifier.                                                           *)
BatchRecord == [tag : Tags, to : SUBSET Emails, bad : SUBSET Emails]
NotifiedRecord == [tag : Tags, delivered : BOOLEAN]

NotifierTypeOK ==
    /\ detected \in Seq(Tags) /\ processed \in Seq(Tags)
    /\ notified \in Seq(NotifiedRecord)
    /\ sent \subseteq Pairs /\ dead \subseteq Pairs
    /\ mails \in [Pairs -> Nat] /\ excuses \in [Pairs -> Nat]
    /\ batch # <<>> => batch[1] \in BatchRecord /\ detected # <<>>
    /\ failed \subseteq Rows
    /\ \A r, s \in failed : r.tag = s.tag /\ r.email = s.email => r = s
    /\ retry # <<>> => retry[1].row \in failed /\ retry[1].ok \in BOOLEAN

(* Whoever a batch or a retry reports as reached has had the e-mail, and a *)
(* notified event says delivered only if somebody has.                     *)
TagInd ==
    /\ batch # <<>> => \A e \in Reached(batch[1]) : mails[<<batch[1].tag, e>>] > 0
    /\ retry # <<>> /\ retry[1].ok => mails[<<retry[1].row.tag, retry[1].row.email>>] > 0
    /\ \A n \in DOMAIN notified :
          notified[n].delivered => \E e \in Emails : mails[<<notified[n].tag, e>>] > 0

(* A batch for the tag may still reach the address; a retry may.           *)
BatchMay(t, e) ==
    /\ ~Processed(t)
    /\ ~(batch # <<>> /\ batch[1].tag = t /\ e \in Reached(batch[1]))
RetryMay(t, e) ==
    /\ HasRow(t, e)
    /\ ~(retry # <<>> /\ retry[1].ok /\ retry[1].row.tag = t /\ retry[1].row.email = e)
One(b) == IF b THEN 1 ELSE 0

MailInd ==
    /\ batch # <<>> => ~Processed(batch[1].tag)
    /\ \A t \in Tags, e \in Emails :
          mails[<<t, e>>] + One(BatchMay(t, e)) + One(RetryMay(t, e)) <= 1 + excuses[<<t, e>>]

----------------------------------------------------------------------------
(* The scanner's watch list.                                               *)

(* Which steps touch it.                                                   *)
LEMMA ScannerFrame ==
    ASSUME [RFNext]_rfVars
    PROVE  \/ Release \/ ScannerConfirmed \/ ScannerRemoved \/ HandleNotified \/ Scan \/ ScanNothing
           \/ UNCHANGED <<scannerVars, latest>>
<1> USE DEF memberVars, readVars, scannerVars
<1>1. CASE UNCHANGED rfVars
  BY <1>1 DEF rfVars
<1>2. CASE \E e \in Emails : Join(e) \/ Leave(e)
  BY <1>2 DEF Join, Leave
<1>3. CASE NotifierConfirmed \/ NotifierRemoved \/ Notify \/ \E d \in Durables : Dropped(d)
  BY <1>3 DEF NotifierConfirmed, NotifierRemoved, Dropped, Notify, NotifySkip, NotifySend, NotifyRecord
<1>4. CASE NotifyAborted \/ NotifiedDropped \/ RetryRecord \/ RetryAborted \/ Prune
  BY <1>4, Zenon DEF NotifyAborted, NotifiedDropped, RetryRecord, RetryAborted, Prune
<1>5. CASE \E r \in failed : RetryRow(r)
  BY <1>5 DEF RetryRow, RetryGone, RetrySend
<1>6. QED
  BY <1>1, <1>2, <1>3, <1>4, <1>5 DEF RFNext, Deliveries

(* The watch list stays well-typed.                                        *)
LEMMA ScannerTypeInd ==
    ASSUME ScannerTypeOK, NotifierTypeOK, [RFNext]_rfVars
    PROVE  ScannerTypeOK'
<1> USE DEF ScannerTypeOK
<1>1. CASE UNCHANGED <<scannerVars, latest>>
  BY <1>1 DEF scannerVars
<1>2. CASE Release
  BY <1>2, MaxTagIsNatural DEF Release, scannerVars, Tags, NoTag
<1>3. CASE ScannerConfirmed
  BY <1>3 DEF ScannerConfirmed, IncrementSubscriber, scannerVars
<1>4. CASE ScannerRemoved
  <2>1. /\ UNCHANGED <<pass, seeded, latest>>
        /\ \/ count > 1 /\ count' = count - 1 /\ seen' = seen
           \/ count' = 0 /\ seen' = NoTag
    BY <1>4 DEF ScannerRemoved, DecrementSubscriber
  <2>2. QED
    BY <2>1
<1>5. CASE HandleNotified
  <2>1. /\ UNCHANGED <<count, pass, seeded, latest>>
        /\ notified # <<>>
        /\ seen' = seen \/ (count > 0 /\ seen' = Head(notified).tag)
    BY <1>5 DEF HandleNotified, AdvanceIfSent, AdvanceTag, scannerVars
  <2>2. Head(notified) \in NotifiedRecord
    BY <2>1 DEF NotifierTypeOK
  <2>3. Head(notified).tag \in Tags
    BY <2>2 DEF NotifiedRecord
  <2>4. QED
    BY <2>1, <2>3
<1>6. CASE ScanList
  <2>1. UNCHANGED <<count, seen, seeded, latest>> /\ (pass' = <<seen>> \/ pass' = <<>>)
    BY <1>6 DEF ScanList, ListWatched
  <2>2. pass' \in Seq(Tags \cup {NoTag}) /\ Len(pass') <= 1
    <3> DEFINE T == Tags \cup {NoTag}
    <3>1. seen \in T
      OBVIOUS
    <3> HIDE DEF T
    <3>2. <<seen>> \in Seq(T) /\ <<>> \in Seq(T) /\ Len(<<seen>>) <= 1 /\ Len(<<>>) <= 1
      BY <3>1
    <3>3. QED
      BY <2>1, <3>2, Zenon DEF T
  <2>3. QED
    BY <2>1, <2>2
<1>7. CASE Seed
  <2>1. /\ UNCHANGED <<count, latest>> /\ latest # NoTag /\ pass' = <<>>
        /\ seeded' = seeded \cup {latest}
        /\ seen' = seen \/ (count > 0 /\ seen' = latest)
    BY <1>7 DEF Seed, AdvanceTag
  <2>2. QED
    BY <2>1
<1>8. CASE Unchanged \/ Detect \/ ScanNothing
  <2>1. UNCHANGED <<count, seen, seeded, latest>> /\ pass' = <<>>
    BY <1>8 DEF Unchanged, Detect, ScanNothing
  <2>2. QED
    BY <2>1
<1>9. QED
  BY <1>1, <1>2, <1>3, <1>4, <1>5, <1>6, <1>7, <1>8, ScannerFrame DEF Scan

----------------------------------------------------------------------------
(* The notifier.                                                           *)
notifierVars == <<detected, batch, processed, failed, retry, notified, sent, dead, mails, excuses>>

MailsGrow == \A p \in Pairs : mails'[p] >= mails[p]

NotifierInd == NotifierTypeOK /\ TagInd /\ MailInd

(* Which steps touch it.                                                   *)
LEMMA NotifierFrame ==
    ASSUME [RFNext]_rfVars
    PROVE  \/ Detect \/ Notify \/ NotifyAborted \/ HandleNotified \/ NotifiedDropped
           \/ \E r \in failed : RetryRow(r)
           \/ RetryRecord \/ RetryAborted \/ Prune
           \/ UNCHANGED notifierVars
<1> USE DEF notifierVars, batchVars, retryVars, mailVars
<1>1. CASE UNCHANGED rfVars
  BY <1>1 DEF rfVars
<1>2. CASE \E e \in Emails : Join(e) \/ Leave(e)
  BY <1>2 DEF Join, Leave
<1>3. CASE Release \/ ScanList \/ Seed \/ Unchanged \/ ScanNothing
  BY <1>3 DEF Release, ScanList, Seed, Unchanged, ScanNothing
<1>4. CASE ScannerConfirmed \/ ScannerRemoved \/ NotifierConfirmed \/ NotifierRemoved
  BY <1>4 DEF ScannerConfirmed, ScannerRemoved, NotifierConfirmed, NotifierRemoved
<1>5. CASE \E d \in Durables : Dropped(d)
  BY <1>5 DEF Dropped
<1>6. QED
  BY <1>1, <1>2, <1>3, <1>4, <1>5 DEF RFNext, Deliveries, Scan

(* Count adds one to the pairs of a set.                                   *)
LEMMA CountFacts ==
    ASSUME NEW f \in [Pairs -> Nat], NEW ps
    PROVE  /\ Count(f, ps) \in [Pairs -> Nat]
           /\ \A p \in Pairs : Count(f, ps)[p] = IF p \in ps THEN f[p] + 1 ELSE f[p]
BY DEF Count

(* What a batch or a retry does to the counters of one address.            *)
Sends(t, to, bad) ==
    \A u \in Tags, e \in Emails :
        /\ <<u, e>> \in Pairs /\ mails[<<u, e>>] \in Nat /\ mails'[<<u, e>>] \in Nat
        /\ excuses'[<<u, e>>] = IF u = t /\ e \in bad THEN excuses[<<u, e>>] + 1 ELSE excuses[<<u, e>>]
        /\ mails'[<<u, e>>] <= mails[<<u, e>>] + 1
        /\ u = t /\ e \in to \ bad => mails'[<<u, e>>] = mails[<<u, e>>] + 1
        /\ u # t \/ e \notin to => mails'[<<u, e>>] = mails[<<u, e>>]

(* The code's sends are such.                                              *)
LEMMA SendFacts ==
    ASSUME mails \in [Pairs -> Nat], excuses \in [Pairs -> Nat],
           NEW t \in Tags, NEW to \in SUBSET Emails, NEW bad \in SUBSET to,
           SendReleaseNotifications(t, to, bad)
    PROVE  /\ mails' \in [Pairs -> Nat] /\ excuses' \in [Pairs -> Nat] /\ MailsGrow
           /\ Sends(t, to, bad)
<1>1. \A u \in Tags, e \in Emails, es \in SUBSET Emails : <<u, e>> \in Of(t, es) <=> u = t /\ e \in es
  BY DEF Of
<1>2. \A u \in Tags, e \in Emails : <<u, e>> \in Pairs
  BY DEF Pairs
<1>3. PICK es \in SUBSET Emails : /\ to \ bad \subseteq es /\ es \subseteq to
                                  /\ mails' = Count(mails, Of(t, es))
                                  /\ excuses' = Count(excuses, Of(t, bad))
  <2>1. excuses' = Count(excuses, Of(t, bad))
    BY DEF SendReleaseNotifications
  <2>2. CASE mails' = Count(mails, Of(t, to \ bad))
    BY <2>1, <2>2
  <2>3. ASSUME NEW e \in bad, mails' = Count(mails, Of(t, (to \ bad) \cup {e}))
        PROVE  \E es \in SUBSET Emails : /\ to \ bad \subseteq es /\ es \subseteq to
                                         /\ mails' = Count(mails, Of(t, es))
                                         /\ excuses' = Count(excuses, Of(t, bad))
    <3>1. (to \ bad) \cup {e} \in SUBSET Emails /\ (to \ bad) \cup {e} \subseteq to
      OBVIOUS
    <3>2. QED
      BY <2>1, <2>3, <3>1
  <2>4. QED
    BY <2>2, <2>3, Zenon DEF SendReleaseNotifications
<1>4. /\ mails' \in [Pairs -> Nat]
      /\ \A p \in Pairs : mails'[p] = IF p \in Of(t, es) THEN mails[p] + 1 ELSE mails[p]
  BY <1>3, CountFacts
<1>5. /\ excuses' \in [Pairs -> Nat]
      /\ \A p \in Pairs : excuses'[p] = IF p \in Of(t, bad) THEN excuses[p] + 1 ELSE excuses[p]
  BY <1>3, CountFacts
<1>6. MailsGrow
  BY <1>4 DEF MailsGrow
<1>7. ASSUME NEW u \in Tags, NEW e \in Emails
      PROVE  /\ <<u, e>> \in Pairs /\ mails[<<u, e>>] \in Nat /\ mails'[<<u, e>>] \in Nat
             /\ excuses'[<<u, e>>] = IF u = t /\ e \in bad THEN excuses[<<u, e>>] + 1 ELSE excuses[<<u, e>>]
             /\ mails'[<<u, e>>] = IF u = t /\ e \in es THEN mails[<<u, e>>] + 1 ELSE mails[<<u, e>>]
  <2>1. /\ <<u, e>> \in Pairs /\ mails[<<u, e>>] \in Nat /\ mails'[<<u, e>>] \in Nat
    BY <1>2, <1>4
  <2>2. (<<u, e>> \in Of(t, bad) <=> u = t /\ e \in bad) /\ (<<u, e>> \in Of(t, es) <=> u = t /\ e \in es)
    BY <1>1
  <2>3. QED
    BY <1>4, <1>5, <2>1, <2>2
<1>8. ASSUME NEW u \in Tags, NEW e \in Emails
      PROVE  /\ mails'[<<u, e>>] <= mails[<<u, e>>] + 1
             /\ u = t /\ e \in to \ bad => mails'[<<u, e>>] = mails[<<u, e>>] + 1
             /\ u # t \/ e \notin to => mails'[<<u, e>>] = mails[<<u, e>>]
  BY <1>3, <1>7
<1>9. QED
  BY <1>4, <1>5, <1>6, <1>7, <1>8 DEF Sends

(* The pair of the retry in hand.                                          *)
LEMMA RetryPair ==
    ASSUME NotifierTypeOK, retry # <<>>
    PROVE  /\ retry[1].row \in failed /\ retry[1].row \in Rows
           /\ retry[1].row.tag \in Tags /\ retry[1].row.email \in Emails
           /\ <<retry[1].row.tag, retry[1].row.email>> \in Pairs
<1>1. retry[1].row \in failed /\ retry[1].row \in Rows
  BY DEF NotifierTypeOK
<1>2. QED
  BY <1>1 DEF Rows, Pairs

(* Who was reached stays reached.                                          *)
LEMMA StillReached ==
    ASSUME NotifierTypeOK, TagInd, MailsGrow, mails' \in [Pairs -> Nat]
    PROVE  /\ retry # <<>> /\ retry[1].ok => mails'[<<retry[1].row.tag, retry[1].row.email>>] > 0
           /\ \A n \in DOMAIN notified :
                 notified[n].delivered => \E e \in Emails : mails'[<<notified[n].tag, e>>] > 0
<1>1. \A p \in Pairs : mails[p] > 0 => mails'[p] > 0
  BY DEF MailsGrow, NotifierTypeOK
<1>2. ASSUME retry # <<>>, retry[1].ok PROVE mails'[<<retry[1].row.tag, retry[1].row.email>>] > 0
  BY <1>1, <1>2, RetryPair DEF TagInd
<1>3. ASSUME NEW n \in DOMAIN notified, notified[n].delivered
      PROVE  \E e \in Emails : mails'[<<notified[n].tag, e>>] > 0
  <2>1. PICK e \in Emails : mails[<<notified[n].tag, e>>] > 0
    BY <1>3 DEF TagInd
  <2>2. notified[n] \in NotifiedRecord
    BY DEF NotifierTypeOK
  <2>3. <<notified[n].tag, e>> \in Pairs
    BY <2>2 DEF NotifiedRecord, Pairs
  <2>4. QED
    BY <1>1, <2>1, <2>3
<1>4. QED
  BY <1>2, <1>3, SMTT(20)

(* Nothing of the notifier's changes but the queues before and after it.   *)
LEMMA QueueInd ==
    ASSUME NotifierInd, UNCHANGED <<batch, processed, failed, retry, sent, dead, mails, excuses>>,
           \/ detected' \in Seq(Tags) /\ (detected' # <<>> \/ batch = <<>>) /\ UNCHANGED notified
           \/ notified # <<>> /\ notified' \in {notified, Tail(notified)} /\ UNCHANGED detected
    PROVE  NotifierInd' /\ MailsGrow
<1> USE DEF NotifierInd
<1>1. /\ notified' \in Seq(NotifiedRecord)
      /\ \A n \in DOMAIN notified' : \E m \in DOMAIN notified : notified'[n] = notified[m]
  <2>1. notified \in Seq(NotifiedRecord)
    BY DEF NotifierTypeOK
  <2>2. CASE notified' = notified
    BY <2>1, <2>2
  <2>3. CASE notified # <<>> /\ notified' = Tail(notified)
    <3>1. /\ Tail(notified) \in Seq(NotifiedRecord)
          /\ \A n \in DOMAIN Tail(notified) : n + 1 \in DOMAIN notified /\ Tail(notified)[n] = notified[n + 1]
      BY <2>1, <2>3
    <3>2. QED
      BY <2>3, <3>1
  <2>4. QED
    BY <2>2, <2>3
<1>2. NotifierTypeOK'
  BY <1>1 DEF NotifierTypeOK
<1>3. TagInd'
  BY <1>1, Zenon DEF TagInd, Reached
<1>4. MailInd'
  BY DEF MailInd, BatchMay, RetryMay, HasRow, Processed, Reached, One
<1>5. MailsGrow
  BY DEF MailsGrow, NotifierTypeOK
<1>6. QED
  BY <1>2, <1>3, <1>4, <1>5

(* A batch is sent.                                                        *)
LEMMA NotifySendInd ==
    ASSUME NotifierInd, readers \subseteq Emails, NotifySend
    PROVE  NotifierInd' /\ MailsGrow
<1> USE DEF NotifierInd
<1>1. PICK t \in Tags, bad \in SUBSET readers :
         /\ batch = <<>> /\ detected # <<>> /\ t = Head(detected) /\ ~Processed(t)
         /\ SendReleaseNotifications(t, readers, bad)
         /\ batch' = <<[tag |-> t, to |-> readers, bad |-> bad]>>
         /\ UNCHANGED <<detected, processed, sent, failed, retry, dead, notified>>
  <2>1. Head(detected) \in Tags
    BY DEF NotifySend, NotifierTypeOK
  <2>2. QED
    BY <2>1 DEF NotifySend, RecipientsByRepo, retryVars
<1> DEFINE b == [tag |-> t, to |-> readers, bad |-> bad]
<1>2. b \in BatchRecord /\ b.tag = t /\ b.to = readers /\ b.bad = bad /\ Reached(b) = readers \ bad
  BY DEF BatchRecord, Reached
<1>3. batch' # <<>> /\ batch'[1] = b
  BY <1>1
<1> HIDE DEF b
<1>4. /\ mails' \in [Pairs -> Nat] /\ excuses' \in [Pairs -> Nat] /\ MailsGrow
      /\ Sends(t, readers, bad)
  <2>1. mails \in [Pairs -> Nat] /\ excuses \in [Pairs -> Nat] /\ readers \in SUBSET Emails
    BY DEF NotifierTypeOK
  <2>2. QED
    BY <1>1, <2>1, SendFacts
<1>5. NotifierTypeOK'
  BY <1>1, <1>2, <1>3, <1>4, Zenon DEF NotifierTypeOK
<1>6. TagInd'
  <2>1. \A e \in Reached(b) : mails'[<<t, e>>] > 0
    BY <1>2, <1>4 DEF Sends
  <2>2. QED
    BY <1>1, <1>2, <1>3, <1>4, <2>1, StillReached, Zenon DEF TagInd
<1>7. MailInd'
  <2> SUFFICES ASSUME NEW u \in Tags, NEW e \in Emails
               PROVE  mails'[<<u, e>>] + One(BatchMay(u, e)') + One(RetryMay(u, e)') <= 1 + excuses'[<<u, e>>]
    BY <1>1, <1>2, <1>3, Zenon DEF MailInd, Processed, One
  <2>1. mails[<<u, e>>] + One(BatchMay(u, e)) + One(RetryMay(u, e)) <= 1 + excuses[<<u, e>>]
    BY Zenon DEF MailInd
  <2>2. RetryMay(u, e)' <=> RetryMay(u, e)
    BY <1>1, Zenon DEF RetryMay, HasRow
  <2>3. /\ BatchMay(u, e)' => BatchMay(u, e)
        /\ u = t => BatchMay(u, e)
        /\ u = t /\ e \in readers \ bad => ~BatchMay(u, e)'
    BY <1>1, <1>2, <1>3, Zenon DEF BatchMay, Processed
  <2>4. excuses[<<u, e>>] \in Nat
    BY DEF NotifierTypeOK, Pairs
  <2>5. /\ mails[<<u, e>>] \in Nat /\ mails'[<<u, e>>] \in Nat /\ mails'[<<u, e>>] <= mails[<<u, e>>] + 1
        /\ excuses'[<<u, e>>] = IF u = t /\ e \in bad THEN excuses[<<u, e>>] + 1 ELSE excuses[<<u, e>>]
        /\ u # t \/ e \notin readers => mails'[<<u, e>>] = mails[<<u, e>>]
    BY <1>4, Zenon DEF Sends
  <2>6. One(RetryMay(u, e)') = One(RetryMay(u, e)) /\ One(RetryMay(u, e)) \in 0..1
    BY <2>2 DEF One
  <2>7. CASE u = t /\ e \in readers \ bad
    <3>1. One(BatchMay(u, e)') = 0 /\ One(BatchMay(u, e)) = 1
      BY <2>3, <2>7 DEF One
    <3>2. QED
      BY <2>1, <2>4, <2>5, <2>6, <2>7, <3>1
  <2>8. CASE ~(u = t /\ e \in readers \ bad)
    <3>1. /\ One(BatchMay(u, e)') <= One(BatchMay(u, e))
          /\ One(BatchMay(u, e)') \in 0..1 /\ One(BatchMay(u, e)) \in 0..1
      BY <2>3 DEF One
    <3>2. CASE u = t /\ e \in bad
      BY <2>1, <2>4, <2>5, <2>6, <3>1, <3>2
    <3>3. CASE u # t \/ e \notin readers
      <4>1. ~(u = t /\ e \in bad)
        BY <3>3
      <4>2. QED
        BY <2>1, <2>4, <2>5, <2>6, <3>1, <3>3, <4>1
    <3>4. QED
      BY <2>8, <3>2, <3>3
  <2>9. QED
    BY <2>7, <2>8
<1>8. QED
  BY <1>4, <1>5, <1>6, <1>7

(* The marks after a batch.                                                *)
LEMMA MarkFacts ==
    ASSUME NotifierTypeOK, NEW t \in Tags, processed' = Mark(t)
    PROVE  /\ processed' \in Seq(Tags)
           /\ \A u \in Tags : Processed(u)' <=> (Processed(u) \/ u = t)
<1>1. processed \in Seq(Tags)
  BY DEF NotifierTypeOK
<1>2. CASE Processed(t)
  BY <1>1, <1>2 DEF Mark, Processed
<1>3. CASE ~Processed(t)
  <2>1. processed' = Append(processed, t)
    BY <1>3 DEF Mark
  <2>2. /\ processed' \in Seq(Tags) /\ Len(processed') = Len(processed) + 1
        /\ processed'[Len(processed) + 1] = t
        /\ \A i \in 1..Len(processed) : processed'[i] = processed[i]
    BY <1>1, <2>1
  <2>3. DOMAIN processed = 1..Len(processed) /\ DOMAIN processed' = 1..Len(processed) + 1
    BY <1>1, <2>2
  <2>4. QED
    BY <1>1, <2>2, <2>3 DEF Processed
<1>4. QED
  BY <1>2, <1>3

(* The rows after a batch.                                                 *)
LEMMA AddedFacts ==
    ASSUME NotifierTypeOK, NEW t \in Tags, NEW es \in SUBSET Emails,
           failed' = failed \cup AddedRows(t, es)
    PROVE  /\ failed \subseteq failed' /\ failed' \subseteq Rows
           /\ \A r, s \in failed' : r.tag = s.tag /\ r.email = s.email => r = s
           /\ \A u \in Tags, e \in Emails : HasRow(u, e)' => HasRow(u, e) \/ (u = t /\ e \in es)
<1>1. /\ failed \subseteq Rows
      /\ \A r, s \in failed : r.tag = s.tag /\ r.email = s.email => r = s
  BY DEF NotifierTypeOK
<1>2. \A r \in AddedRows(t, es) : /\ r \in Rows /\ r.tag = t /\ r.email \in es
                                  /\ r = [tag |-> t, email |-> r.email, retries |-> 0]
                                  /\ ~HasRow(t, r.email)
  BY MaxRetriesIsPositive DEF AddedRows, Rows
<1>3. \A r \in failed, s \in AddedRows(t, es) : ~(r.tag = s.tag /\ r.email = s.email)
  BY <1>2 DEF HasRow
<1>4. \A r, s \in AddedRows(t, es) : r.email = s.email => r = s
  BY <1>2
<1>5. \A r, s \in failed' : r.tag = s.tag /\ r.email = s.email => r = s
  BY <1>1, <1>3, <1>4
<1>6. QED
  BY <1>1, <1>2, <1>5 DEF HasRow

(* The outcome of a batch is recorded.                                     *)
LEMMA NotifyRecordInd ==
    ASSUME NotifierInd, NotifyRecord
    PROVE  NotifierInd' /\ MailsGrow
<1> USE DEF NotifierInd
<1> DEFINE b == batch[1]
<1>1. /\ batch # <<>> /\ batch' = <<>> /\ UNCHANGED <<retry, dead, mails, excuses>>
      /\ failed' = failed \cup AddedRows(b.tag, b.bad)
      /\ sent' = sent \cup Of(b.tag, Reached(b))
      /\ notified' = Append(notified, [tag |-> b.tag, delivered |-> Reached(b) # {}])
      /\ processed' = Mark(b.tag)
      /\ detected' = Tail(detected) \/ detected' = detected
  BY DEF NotifyRecord, mailVars
<1>2. /\ b \in BatchRecord /\ detected # <<>> /\ ~Processed(b.tag)
      /\ \A e \in Reached(b) : mails[<<b.tag, e>>] > 0
  BY <1>1, Zenon DEF NotifierTypeOK, TagInd, MailInd
<1>3. /\ b.tag \in Tags /\ b.to \subseteq Emails /\ b.bad \subseteq Emails
      /\ Reached(b) \subseteq Emails /\ Reached(b) \cap b.bad = {}
  BY <1>2 DEF BatchRecord, Reached
<1>4. /\ failed \subseteq failed' /\ failed' \subseteq Rows
      /\ \A r, s \in failed' : r.tag = s.tag /\ r.email = s.email => r = s
      /\ \A u \in Tags, e \in Emails : HasRow(u, e)' => HasRow(u, e) \/ (u = b.tag /\ e \in b.bad)
  BY <1>1, <1>3, AddedFacts, Zenon
<1>5. /\ processed' \in Seq(Tags)
      /\ \A u \in Tags : Processed(u)' <=> (Processed(u) \/ u = b.tag)
  BY <1>1, <1>3, MarkFacts
<1>6. MailsGrow
  BY <1>1 DEF MailsGrow, NotifierTypeOK
<1> DEFINE n == [tag |-> b.tag, delivered |-> Reached(b) # {}]
<1>7. n \in NotifiedRecord /\ n.tag = b.tag /\ (n.delivered <=> Reached(b) # {})
  BY <1>3, Zenon DEF NotifiedRecord
<1>8. notified' = Append(notified, n)
  BY <1>1
<1> HIDE DEF b, n
<1>9. /\ notified' \in Seq(NotifiedRecord)
      /\ \A i \in DOMAIN notified' : (i \in DOMAIN notified /\ notified'[i] = notified[i]) \/ notified'[i] = n
  <2>1. notified \in Seq(NotifiedRecord)
    BY DEF NotifierTypeOK
  <2>2. QED
    BY <1>7, <1>8, <2>1
<1>10. NotifierTypeOK'
  <2>1. detected \in Seq(Tags)
    BY DEF NotifierTypeOK
  <2>2. detected' \in Seq(Tags)
    BY <1>1, <1>2, <2>1
  <2>3. sent' \subseteq Pairs
    BY <1>1, <1>3 DEF NotifierTypeOK, Of, Pairs
  <2>4. QED
    BY <1>1, <1>4, <1>5, <1>9, <2>2, <2>3, Zenon DEF NotifierTypeOK
<1>11. TagInd'
  <2>1. \A i \in DOMAIN notified' :
            notified'[i].delivered => \E e \in Emails : mails[<<notified'[i].tag, e>>] > 0
    BY <1>2, <1>3, <1>7, <1>9, Zenon DEF TagInd
  <2>2. QED
    BY <1>1, <2>1 DEF TagInd
<1>12. MailInd'
  <2> SUFFICES ASSUME NEW u \in Tags, NEW e \in Emails
               PROVE  mails[<<u, e>>] + One(BatchMay(u, e)') + One(RetryMay(u, e)') <= 1 + excuses[<<u, e>>]
    BY <1>1, Zenon DEF MailInd, One
  <2>1. mails[<<u, e>>] + One(BatchMay(u, e)) + One(RetryMay(u, e)) <= 1 + excuses[<<u, e>>]
    BY Zenon DEF MailInd
  <2>2. BatchMay(u, e)' <=> ~Processed(u) /\ u # b.tag
    BY <1>1, <1>5 DEF BatchMay
  <2>3. BatchMay(u, e) <=> ~Processed(u) /\ ~(u = b.tag /\ e \in Reached(b))
    BY <1>1 DEF BatchMay, b
  <2>4. RetryMay(u, e)' => RetryMay(u, e) \/ (u = b.tag /\ e \in b.bad)
    BY <1>1, <1>4, Zenon DEF RetryMay
  <2>5. mails[<<u, e>>] \in Nat /\ excuses[<<u, e>>] \in Nat
    BY DEF NotifierTypeOK, Pairs
  <2>6. u = b.tag /\ e \in b.bad => BatchMay(u, e)
    BY <1>2, <1>3, <2>3
  <2>7. /\ One(BatchMay(u, e)') \in 0..1 /\ One(BatchMay(u, e)) \in 0..1
        /\ One(RetryMay(u, e)') \in 0..1 /\ One(RetryMay(u, e)) \in 0..1
    BY DEF One
  <2>8. CASE u = b.tag /\ e \in b.bad
    <3>1. One(BatchMay(u, e)') = 0 /\ One(BatchMay(u, e)) = 1
      BY <2>2, <2>6, <2>8 DEF One
    <3>2. QED
      BY <2>1, <2>5, <2>7, <3>1
  <2>9. CASE ~(u = b.tag /\ e \in b.bad)
    <3>1. One(BatchMay(u, e)') <= One(BatchMay(u, e)) /\ One(RetryMay(u, e)') <= One(RetryMay(u, e))
      BY <2>2, <2>3, <2>4, <2>9 DEF One
    <3>2. QED
      BY <2>1, <2>5, <2>7, <3>1
  <2>10. QED
    BY <2>8, <2>9
<1>13. QED
  BY <1>6, <1>10, <1>11, <1>12

(* The outcome of a batch is lost.                                         *)
LEMMA NotifyAbortedInd ==
    ASSUME NotifierInd, NotifyAborted
    PROVE  NotifierInd' /\ MailsGrow
<1> USE DEF NotifierInd
<1> DEFINE b == batch[1]
<1>1. /\ batch # <<>> /\ batch' = <<>>
      /\ excuses' = Count(excuses, Of(b.tag, b.to))
      /\ detected' = Tail(detected) \/ detected' = detected
      /\ UNCHANGED <<processed, sent, failed, retry, dead, notified, mails>>
  BY DEF NotifyAborted, retryVars
<1>2. b \in BatchRecord /\ detected # <<>>
  BY <1>1 DEF NotifierTypeOK
<1>3. b.tag \in Tags /\ b.to \subseteq Emails /\ Reached(b) \subseteq b.to
  BY <1>2 DEF BatchRecord, Reached
<1> HIDE DEF b
<1>4. /\ excuses' \in [Pairs -> Nat]
      /\ \A p \in Pairs : excuses'[p] = IF p \in Of(b.tag, b.to) THEN excuses[p] + 1 ELSE excuses[p]
  <2>1. excuses \in [Pairs -> Nat]
    BY DEF NotifierTypeOK
  <2>2. QED
    BY <1>1, <2>1, CountFacts
<1>5. detected' \in Seq(Tags)
  <2>1. detected \in Seq(Tags)
    BY DEF NotifierTypeOK
  <2>2. QED
    BY <1>1, <1>2, <2>1
<1>6. NotifierTypeOK'
  BY <1>1, <1>4, <1>5 DEF NotifierTypeOK
<1>7. TagInd'
  BY <1>1, Zenon DEF TagInd
<1>8. MailInd'
  <2> SUFFICES ASSUME NEW u \in Tags, NEW e \in Emails
               PROVE  mails[<<u, e>>] + One(BatchMay(u, e)') + One(RetryMay(u, e)') <= 1 + excuses'[<<u, e>>]
    BY <1>1 DEF MailInd, One
  <2>1. mails[<<u, e>>] + One(BatchMay(u, e)) + One(RetryMay(u, e)) <= 1 + excuses[<<u, e>>]
    BY DEF MailInd
  <2>2. /\ mails[<<u, e>>] \in Nat /\ excuses[<<u, e>>] \in Nat
        /\ excuses'[<<u, e>>] = IF u = b.tag /\ e \in b.to THEN excuses[<<u, e>>] + 1 ELSE excuses[<<u, e>>]
    <3>1. <<u, e>> \in Pairs /\ (<<u, e>> \in Of(b.tag, b.to) <=> u = b.tag /\ e \in b.to)
      BY DEF Pairs, Of
    <3>2. QED
      BY <1>4, <3>1 DEF NotifierTypeOK
  <2>3. BatchMay(u, e)' => BatchMay(u, e) \/ (u = b.tag /\ e \in b.to)
    BY <1>1, <1>3 DEF BatchMay, Processed, b
  <2>4. RetryMay(u, e)' <=> RetryMay(u, e)
    BY <1>1, Zenon DEF RetryMay, HasRow
  <2>5. /\ One(BatchMay(u, e)') \in 0..1 /\ One(BatchMay(u, e)) \in 0..1
        /\ One(RetryMay(u, e)') = One(RetryMay(u, e)) /\ One(RetryMay(u, e)) \in 0..1
        /\ ~(u = b.tag /\ e \in b.to) => One(BatchMay(u, e)') <= One(BatchMay(u, e))
    BY <2>3, <2>4 DEF One
  <2>6. CASE u = b.tag /\ e \in b.to
    BY <2>1, <2>2, <2>5, <2>6
  <2>7. CASE ~(u = b.tag /\ e \in b.to)
    BY <2>1, <2>2, <2>5, <2>7
  <2>8. QED
    BY <2>6, <2>7
<1>9. MailsGrow
  BY <1>1 DEF MailsGrow, NotifierTypeOK
<1>10. QED
  BY <1>6, <1>7, <1>8, <1>9

(* A row is deleted.                                                       *)
LEMMA DeleteFacts ==
    ASSUME NotifierTypeOK, NEW r \in failed, failed' = DeleteRow(r)
    PROVE  /\ failed' \subseteq Rows
           /\ \A q, s \in failed' : q.tag = s.tag /\ q.email = s.email => q = s
           /\ ~HasRow(r.tag, r.email)'
           /\ \A u, e : u # r.tag \/ e # r.email => (HasRow(u, e)' <=> HasRow(u, e))
BY DEF NotifierTypeOK, DeleteRow, HasRow

(* A row has one more attempt behind it.                                   *)
LEMMA IncrementFacts ==
    ASSUME NotifierTypeOK, NEW r \in failed, ~LastAttempt(r), failed' = IncrementRetry(r)
    PROVE  /\ failed' \subseteq Rows
           /\ \A q, s \in failed' : q.tag = s.tag /\ q.email = s.email => q = s
           /\ HasRow(r.tag, r.email)'
           /\ \A u, e : HasRow(u, e)' <=> HasRow(u, e)
<1> DEFINE n == [r EXCEPT !.retries = @ + 1]
<1>1. r \in Rows /\ failed \subseteq Rows
  BY DEF NotifierTypeOK
<1>2. r.retries + 1 \in 0..(MaxRetries - 1)
  BY <1>1, MaxRetriesIsPositive DEF LastAttempt, Rows
<1>3. n \in Rows /\ n.tag = r.tag /\ n.email = r.email
  BY <1>1, <1>2 DEF Rows
<1>4. failed' = (failed \ {r}) \cup {n}
  BY DEF IncrementRetry, DeleteRow
<1> HIDE DEF n
<1>5. \A s \in failed \ {r} : ~(s.tag = r.tag /\ s.email = r.email)
  BY DEF NotifierTypeOK
<1>6. \A q, s \in failed' : q.tag = s.tag /\ q.email = s.email => q = s
  BY <1>3, <1>4, <1>5 DEF NotifierTypeOK
<1>7. \A u, e : HasRow(u, e)' <=> HasRow(u, e)
  BY <1>3, <1>4 DEF HasRow
<1>8. QED
  BY <1>1, <1>3, <1>4, <1>6, <1>7 DEF HasRow

(* A row is deleted because its address is gone.                           *)
LEMMA RetryGoneInd ==
    ASSUME NotifierInd, NEW r \in failed, RetryGone(r)
    PROVE  NotifierInd' /\ MailsGrow
<1> USE DEF NotifierInd
<1>1. /\ retry = <<>> /\ failed' = DeleteRow(r)
      /\ UNCHANGED <<detected, batch, processed, retry, notified, sent, dead, mails, excuses>>
  BY DEF RetryGone, batchVars, mailVars
<1>2. /\ failed' \subseteq Rows
      /\ \A q, s \in failed' : q.tag = s.tag /\ q.email = s.email => q = s
      /\ ~HasRow(r.tag, r.email)'
      /\ \A u, e : u # r.tag \/ e # r.email => (HasRow(u, e)' <=> HasRow(u, e))
  BY <1>1, DeleteFacts
<1>3. NotifierTypeOK'
  BY <1>1, <1>2 DEF NotifierTypeOK
<1>4. TagInd'
  BY <1>1, Zenon DEF TagInd, Reached
<1>5. MailInd'
  <2> SUFFICES ASSUME NEW u \in Tags, NEW e \in Emails
               PROVE  mails[<<u, e>>] + One(BatchMay(u, e)') + One(RetryMay(u, e)') <= 1 + excuses[<<u, e>>]
    BY <1>1, Zenon DEF MailInd, One, Processed
  <2>1. mails[<<u, e>>] + One(BatchMay(u, e)) + One(RetryMay(u, e)) <= 1 + excuses[<<u, e>>]
    BY Zenon DEF MailInd
  <2>2. BatchMay(u, e)' <=> BatchMay(u, e)
    BY <1>1 DEF BatchMay, Processed, Reached
  <2>3. RetryMay(u, e)' => RetryMay(u, e)
    BY <1>1, <1>2, Zenon DEF RetryMay
  <2>4. mails[<<u, e>>] \in Nat /\ excuses[<<u, e>>] \in Nat
    BY DEF NotifierTypeOK, Pairs
  <2>5. /\ One(BatchMay(u, e)') = One(BatchMay(u, e)) /\ One(RetryMay(u, e)') <= One(RetryMay(u, e))
        /\ One(BatchMay(u, e)) \in 0..1 /\ One(RetryMay(u, e)') \in 0..1 /\ One(RetryMay(u, e)) \in 0..1
    BY <2>2, <2>3 DEF One
  <2>6. QED
    BY <2>1, <2>4, <2>5
<1>6. MailsGrow
  BY <1>1 DEF MailsGrow, NotifierTypeOK
<1>7. QED
  BY <1>3, <1>4, <1>5, <1>6

(* A row is sent again.                                                    *)
LEMMA RetrySendInd ==
    ASSUME NotifierInd, NEW r \in failed, RetrySend(r)
    PROVE  NotifierInd' /\ MailsGrow
<1> USE DEF NotifierInd
<1>1. PICK bad \in SUBSET {r.email} :
         /\ SendReleaseNotifications(r.tag, {r.email}, bad)
         /\ retry' = <<[row |-> r, ok |-> bad = {}]>>
         /\ retry = <<>>
         /\ UNCHANGED <<detected, batch, processed, failed, notified, sent, dead>>
  BY Zenon DEF RetrySend, batchVars
<1>2. r \in Rows
  BY Zenon DEF NotifierTypeOK
<1>3. r.tag \in Tags /\ r.email \in Emails
  BY <1>2 DEF Rows
<1>4. /\ mails' \in [Pairs -> Nat] /\ excuses' \in [Pairs -> Nat] /\ MailsGrow
      /\ Sends(r.tag, {r.email}, bad)
  <2>1. mails \in [Pairs -> Nat] /\ excuses \in [Pairs -> Nat] /\ {r.email} \in SUBSET Emails
    BY <1>3 DEF NotifierTypeOK
  <2>2. QED
    BY <1>1, <1>3, <2>1, SendFacts
<1> DEFINE y == [row |-> r, ok |-> bad = {}]
<1>5. y.row = r /\ (y.ok <=> bad = {}) /\ y.ok \in BOOLEAN
  BY Zenon
<1>6. retry' # <<>> /\ retry'[1] = y
  BY <1>1
<1> HIDE DEF y
<1>7. NotifierTypeOK'
  BY <1>1, <1>4, <1>5, <1>6, Zenon DEF NotifierTypeOK
<1>8. TagInd'
  <2>1. y.ok => mails'[<<r.tag, r.email>>] > 0
    BY <1>3, <1>4, <1>5 DEF Sends
  <2>2. batch # <<>> => \A e \in Reached(batch[1]) : mails'[<<batch[1].tag, e>>] > 0
    <3> SUFFICES ASSUME batch # <<>>, NEW e \in Reached(batch[1]) PROVE mails'[<<batch[1].tag, e>>] > 0
      OBVIOUS
    <3>1. batch[1].tag \in Tags /\ e \in Emails
      BY DEF NotifierTypeOK, BatchRecord, Reached
    <3>2. <<batch[1].tag, e>> \in Pairs /\ mails[<<batch[1].tag, e>>] > 0
      BY <3>1 DEF TagInd, Pairs
    <3>3. QED
      BY <1>4, <3>2 DEF MailsGrow, NotifierTypeOK
  <2>3. QED
    BY <1>1, <1>4, <1>5, <1>6, <2>1, <2>2, StillReached, Zenon DEF TagInd, Reached
<1>9. MailInd'
  <2> SUFFICES ASSUME NEW u \in Tags, NEW e \in Emails
               PROVE  mails'[<<u, e>>] + One(BatchMay(u, e)') + One(RetryMay(u, e)') <= 1 + excuses'[<<u, e>>]
    BY <1>1, Zenon DEF MailInd, One, Processed
  <2>1. mails[<<u, e>>] + One(BatchMay(u, e)) + One(RetryMay(u, e)) <= 1 + excuses[<<u, e>>]
    BY Zenon DEF MailInd
  <2>2. BatchMay(u, e)' <=> BatchMay(u, e)
    BY <1>1, Zenon DEF BatchMay, Processed, Reached
  <2>3. /\ RetryMay(u, e)' => RetryMay(u, e)
        /\ u = r.tag /\ e = r.email => RetryMay(u, e)
        /\ u = r.tag /\ e = r.email /\ bad = {} => ~RetryMay(u, e)'
    BY <1>1, <1>5, <1>6, Zenon DEF RetryMay, HasRow
  <2>4. mails[<<u, e>>] \in Nat /\ excuses[<<u, e>>] \in Nat
    BY DEF NotifierTypeOK, Pairs
  <2>5. bad = {} \/ bad = {r.email}
    OBVIOUS
  <2>6. /\ mails'[<<u, e>>] \in Nat /\ mails'[<<u, e>>] <= mails[<<u, e>>] + 1
        /\ excuses'[<<u, e>>] = IF u = r.tag /\ e \in bad THEN excuses[<<u, e>>] + 1 ELSE excuses[<<u, e>>]
        /\ u # r.tag \/ e \notin {r.email} => mails'[<<u, e>>] = mails[<<u, e>>]
    BY <1>4, Zenon DEF Sends
  <2> DEFINE m == mails[<<u, e>>]
             m2 == mails'[<<u, e>>]
             x == excuses[<<u, e>>]
             x2 == excuses'[<<u, e>>]
             b == One(BatchMay(u, e))
             b2 == One(BatchMay(u, e)')
             q == One(RetryMay(u, e))
             q2 == One(RetryMay(u, e)')
  <2>7. b2 = b /\ b \in 0..1 /\ q2 <= q /\ q \in 0..1 /\ q2 \in 0..1
    BY <2>2, <2>3 DEF One
  <2>8. u = r.tag /\ e = r.email /\ bad = {} => q = 1 /\ q2 = 0 /\ x2 = x
    BY <2>3, <2>6, Zenon DEF One
  <2>9. u = r.tag /\ e = r.email /\ bad = {r.email} => x2 = x + 1
    BY <2>6, Zenon
  <2>10. ~(u = r.tag /\ e = r.email) => m2 = m /\ x2 = x
    BY <2>5, <2>6, Zenon
  <2>11. m + b + q <= 1 + x /\ m \in Nat /\ x \in Nat /\ m2 \in Nat /\ m2 <= m + 1
    BY <2>1, <2>4, <2>6, Zenon
  <2> HIDE DEF m, m2, x, x2, b, b2, q, q2
  <2>12. CASE q = 1 /\ q2 = 0 /\ x2 = x
    <3>1. m2 + b2 + q2 <= 1 + x2
      BY <2>7, <2>11, <2>12
    <3>2. QED
      BY <3>1, Zenon DEF m2, b2, q2, x2
  <2>13. CASE x2 = x + 1
    <3>1. m2 + b2 + q2 <= 1 + x2
      BY <2>7, <2>11, <2>13
    <3>2. QED
      BY <3>1, Zenon DEF m2, b2, q2, x2
  <2>14. CASE m2 = m /\ x2 = x
    <3>1. m2 + b2 + q2 <= 1 + x2
      BY <2>7, <2>11, <2>14
    <3>2. QED
      BY <3>1, Zenon DEF m2, b2, q2, x2
  <2>15. QED
    BY <2>5, <2>8, <2>9, <2>10, <2>12, <2>13, <2>14, Zenon
<1>10. QED
  BY <1>4, <1>7, <1>8, <1>9

(* The outcome of a retry is recorded.                                     *)
LEMMA RetryRecordInd ==
    ASSUME NotifierInd, RetryRecord
    PROVE  NotifierInd' /\ MailsGrow
<1> USE DEF NotifierInd
<1>1. retry # <<>>
  BY DEF RetryRecord
<1>2. PICK r \in failed : /\ r = retry[1].row
                         /\ r.tag \in Tags /\ r.email \in Emails /\ <<r.tag, r.email>> \in Pairs
  BY <1>1, RetryPair, Zenon
<1>3. /\ retry # <<>> /\ retry' = <<>>
      /\ UNCHANGED <<detected, batch, processed, notified, mails, excuses>>
      /\ \/ failed' = DeleteRow(r)
         \/ ~retry[1].ok /\ ~LastAttempt(r) /\ failed' = IncrementRetry(r)
      /\ sent' \subseteq sent \cup {<<r.tag, r.email>>} /\ dead' \subseteq dead \cup {<<r.tag, r.email>>}
  BY <1>2 DEF RetryRecord, mailVars
<1>4. /\ failed' \subseteq Rows
      /\ \A q, s \in failed' : q.tag = s.tag /\ q.email = s.email => q = s
      /\ \A u, e : u # r.tag \/ e # r.email => (HasRow(u, e)' <=> HasRow(u, e))
      /\ ~HasRow(r.tag, r.email)' \/ ~retry[1].ok
  <2>1. CASE failed' = DeleteRow(r)
    BY <2>1, DeleteFacts
  <2>2. CASE ~retry[1].ok /\ ~LastAttempt(r) /\ failed' = IncrementRetry(r)
    BY <2>2, IncrementFacts
  <2>3. QED
    BY <1>3, <2>1, <2>2
<1>5. NotifierTypeOK'
  BY <1>3, <1>2, <1>4, Zenon DEF NotifierTypeOK
<1>6. TagInd'
  BY <1>3, Zenon DEF TagInd, Reached
<1>7. MailInd'
  <2> SUFFICES ASSUME NEW u \in Tags, NEW e \in Emails
               PROVE  mails[<<u, e>>] + One(BatchMay(u, e)') + One(RetryMay(u, e)') <= 1 + excuses[<<u, e>>]
    BY <1>3, Zenon DEF MailInd, One, Processed
  <2>1. mails[<<u, e>>] + One(BatchMay(u, e)) + One(RetryMay(u, e)) <= 1 + excuses[<<u, e>>]
    BY DEF MailInd
  <2>2. BatchMay(u, e)' <=> BatchMay(u, e)
    BY <1>3, Zenon DEF BatchMay, Processed, Reached
  <2>3. RetryMay(u, e)' => RetryMay(u, e)
    <3>1. HasRow(r.tag, r.email)
      BY DEF HasRow
    <3>2. HasRow(u, e)' => HasRow(u, e)
      BY <1>4, <3>1
    <3>3. u = r.tag /\ e = r.email /\ retry[1].ok => ~HasRow(u, e)'
      BY <1>4
    <3>4. QED
      BY <1>2, <3>2, <3>3 DEF RetryMay
  <2>4. mails[<<u, e>>] \in Nat /\ excuses[<<u, e>>] \in Nat
    BY DEF NotifierTypeOK, Pairs
  <2>5. /\ One(BatchMay(u, e)') = One(BatchMay(u, e)) /\ One(RetryMay(u, e)') <= One(RetryMay(u, e))
        /\ One(BatchMay(u, e)) \in 0..1 /\ One(RetryMay(u, e)') \in 0..1 /\ One(RetryMay(u, e)) \in 0..1
    BY <2>2, <2>3 DEF One
  <2>6. QED
    BY <2>1, <2>4, <2>5, SMTT(20)
<1>8. MailsGrow
  BY <1>3 DEF MailsGrow, NotifierTypeOK
<1>9. QED
  BY <1>5, <1>6, <1>7, <1>8

(* The outcome of a retry is lost.                                         *)
LEMMA RetryAbortedInd ==
    ASSUME NotifierInd, RetryAborted
    PROVE  NotifierInd' /\ MailsGrow
<1> USE DEF NotifierInd
<1> DEFINE r == retry[1].row
<1>1. /\ retry # <<>> /\ retry' = <<>>
      /\ excuses' = Count(excuses, {<<r.tag, r.email>>})
      /\ UNCHANGED <<detected, batch, processed, failed, notified, sent, dead, mails>>
  BY DEF RetryAborted, batchVars
<1>2. /\ excuses' \in [Pairs -> Nat]
      /\ \A p \in Pairs : excuses'[p] = IF p \in {<<r.tag, r.email>>} THEN excuses[p] + 1 ELSE excuses[p]
  <2>1. excuses \in [Pairs -> Nat]
    BY DEF NotifierTypeOK
  <2>2. QED
    BY <1>1, <2>1, CountFacts
<1>3. NotifierTypeOK'
  BY <1>1, <1>2, Zenon DEF NotifierTypeOK
<1>4. TagInd'
  BY <1>1 DEF TagInd, Reached
<1>5. MailInd'
  <2> SUFFICES ASSUME NEW u \in Tags, NEW e \in Emails
               PROVE  mails[<<u, e>>] + One(BatchMay(u, e)') + One(RetryMay(u, e)') <= 1 + excuses'[<<u, e>>]
    BY <1>1, Zenon DEF MailInd, One, Processed
  <2>1. mails[<<u, e>>] + One(BatchMay(u, e)) + One(RetryMay(u, e)) <= 1 + excuses[<<u, e>>]
    BY DEF MailInd
  <2>2. BatchMay(u, e)' <=> BatchMay(u, e)
    BY <1>1 DEF BatchMay, Processed, Reached
  <2>3. RetryMay(u, e)' => RetryMay(u, e) \/ (u = r.tag /\ e = r.email)
    BY <1>1 DEF RetryMay, HasRow
  <2>4. mails[<<u, e>>] \in Nat /\ excuses[<<u, e>>] \in Nat /\ <<u, e>> \in Pairs
    BY DEF NotifierTypeOK, Pairs
  <2>5. excuses'[<<u, e>>] = IF u = r.tag /\ e = r.email THEN excuses[<<u, e>>] + 1 ELSE excuses[<<u, e>>]
    BY <1>2, <2>4
  <2>6. /\ One(BatchMay(u, e)') = One(BatchMay(u, e)) /\ One(BatchMay(u, e)) \in 0..1
        /\ One(RetryMay(u, e)') \in 0..1 /\ One(RetryMay(u, e)) \in 0..1
        /\ ~(u = r.tag /\ e = r.email) => One(RetryMay(u, e)') <= One(RetryMay(u, e))
    BY <2>2, <2>3 DEF One
  <2> HIDE DEF r
  <2>7. CASE u = r.tag /\ e = r.email
    BY <2>1, <2>4, <2>5, <2>6, <2>7
  <2>8. CASE ~(u = r.tag /\ e = r.email)
    BY <2>1, <2>4, <2>5, <2>6, <2>8, SMTT(20)
  <2>9. QED
    BY <2>7, <2>8
<1>6. MailsGrow
  BY <1>1 DEF MailsGrow, NotifierTypeOK
<1>7. QED
  BY <1>3, <1>4, <1>5, <1>6

(* Old marks are pruned.                                                   *)
LEMMA PruneInd ==
    ASSUME NotifierInd, Prune
    PROVE  NotifierInd' /\ MailsGrow
<1> USE DEF NotifierInd
<1>1. PICK n \in DOMAIN processed :
         /\ processed' = SubSeq(processed, n + 1, Len(processed))
         /\ excuses' = Count(excuses, {processed[i] : i \in 1..n} \X Emails)
         /\ UNCHANGED <<detected, batch, failed, retry, notified, sent, dead, mails>>
  BY Zenon DEF Prune, retryVars
<1>2. processed \in Seq(Tags) /\ n \in 1..Len(processed)
  BY DEF NotifierTypeOK
<1> DEFINE old == {processed[i] : i \in 1..n}
<1>3. /\ processed' \in Seq(Tags)
      /\ \A u : (Processed(u) /\ ~Processed(u)' => u \in old) /\ (Processed(u)' => Processed(u))
  <2>1. /\ processed' \in Seq(Tags) /\ Len(processed') = Len(processed) - n
        /\ \A i \in 1..(Len(processed) - n) : processed'[i] = processed[n + i]
    BY <1>1, <1>2
  <2>2. DOMAIN processed = 1..Len(processed) /\ DOMAIN processed' = 1..(Len(processed) - n)
    BY <1>2, <2>1
  <2>3. ASSUME NEW u, Processed(u), ~Processed(u)' PROVE u \in old
    <3>1. PICK j \in 1..Len(processed) : processed[j] = u
      BY <1>2, <2>2, <2>3 DEF Processed
    <3>2. CASE j <= n
      BY <1>2, <3>1, <3>2
    <3>3. CASE j > n
      <4>1. j - n \in 1..(Len(processed) - n) /\ n + (j - n) = j
        BY <1>2, <3>1, <3>3
      <4>2. processed'[j - n] = u
        BY <2>1, <3>1, <4>1
      <4>3. QED
        BY <2>2, <2>3, <4>1, <4>2 DEF Processed
    <3>4. QED
      BY <1>2, <3>1, <3>2, <3>3
  <2>4. ASSUME NEW u, Processed(u)' PROVE Processed(u)
    <3>1. PICK j \in 1..(Len(processed) - n) : processed'[j] = u
      BY <2>2, <2>4 DEF Processed
    <3>2. n + j \in 1..Len(processed) /\ processed[n + j] = u
      BY <1>2, <2>1, <3>1
    <3>3. QED
      BY <2>2, <3>2 DEF Processed
  <2>5. QED
    BY <2>1, <2>3, <2>4
<1>4. /\ excuses' \in [Pairs -> Nat]
      /\ \A p \in Pairs : excuses'[p] = IF p \in old \X Emails THEN excuses[p] + 1 ELSE excuses[p]
  <2> DEFINE ps == old \X Emails
  <2>1. excuses \in [Pairs -> Nat]
    BY DEF NotifierTypeOK
  <2>2. excuses' = Count(excuses, ps)
    BY <1>1
  <2> HIDE DEF ps
  <2>3. /\ excuses' \in [Pairs -> Nat]
        /\ \A p \in Pairs : excuses'[p] = IF p \in ps THEN excuses[p] + 1 ELSE excuses[p]
    BY <2>1, <2>2, CountFacts
  <2>4. QED
    BY <2>3 DEF ps
<1> HIDE DEF old
<1>5. NotifierTypeOK'
  BY <1>1, <1>3, <1>4, Zenon DEF NotifierTypeOK
<1>6. TagInd'
  BY <1>1, Zenon DEF TagInd, Reached
<1>7. MailInd'
  <2> SUFFICES ASSUME NEW u \in Tags, NEW e \in Emails
               PROVE  mails[<<u, e>>] + One(BatchMay(u, e)') + One(RetryMay(u, e)') <= 1 + excuses'[<<u, e>>]
    BY <1>1, <1>3, Zenon DEF MailInd, One
  <2>1. mails[<<u, e>>] + One(BatchMay(u, e)) + One(RetryMay(u, e)) <= 1 + excuses[<<u, e>>]
    BY DEF MailInd
  <2>2. BatchMay(u, e)' => BatchMay(u, e) \/ u \in old
    BY <1>1, <1>3 DEF BatchMay, Reached
  <2>3. RetryMay(u, e)' <=> RetryMay(u, e)
    BY <1>1 DEF RetryMay, HasRow
  <2>4. mails[<<u, e>>] \in Nat /\ excuses[<<u, e>>] \in Nat /\ <<u, e>> \in Pairs
    BY DEF NotifierTypeOK, Pairs
  <2>5. excuses'[<<u, e>>] = IF u \in old THEN excuses[<<u, e>>] + 1 ELSE excuses[<<u, e>>]
    BY <1>4, <2>4
  <2> DEFINE m == mails[<<u, e>>]
             x == excuses[<<u, e>>]
             x2 == excuses'[<<u, e>>]
             b == One(BatchMay(u, e))
             b2 == One(BatchMay(u, e)')
             q == One(RetryMay(u, e))
             q2 == One(RetryMay(u, e)')
  <2>6. q2 = q /\ q \in 0..1 /\ b \in 0..1 /\ b2 \in 0..1 /\ (u \notin old => b2 <= b)
    BY <2>2, <2>3 DEF One
  <2>7. m + b + q <= 1 + x /\ m \in Nat /\ x \in Nat /\ x2 = IF u \in old THEN x + 1 ELSE x
    BY <2>1, <2>4, <2>5, Zenon
  <2> HIDE DEF m, x, x2, b, b2, q, q2
  <2>8. m + b2 + q2 <= 1 + x2
    <3>1. CASE u \in old
      BY <2>6, <2>7, <3>1
    <3>2. CASE u \notin old
      BY <2>6, <2>7, <3>2
    <3>3. QED
      BY <3>1, <3>2
  <2>9. QED
    BY <2>8, Zenon DEF m, b2, q2, x2
<1>8. MailsGrow
  BY <1>1 DEF MailsGrow, NotifierTypeOK
<1>9. QED
  BY <1>5, <1>6, <1>7, <1>8

(* Every step of the system.                                               *)
LEMMA NotifierStep ==
    ASSUME EventTypeOK, ScannerTypeOK, NotifierInd, [RFNext]_rfVars
    PROVE  NotifierInd' /\ MailsGrow
<1> DEFINE rest == <<batch, processed, failed, retry, sent, dead, mails, excuses>>
<1>1. detected \in Seq(Tags)
  BY DEF NotifierInd, NotifierTypeOK
<1>2. CASE UNCHANGED notifierVars
  <2>1. detected # <<>> \/ batch = <<>>
    BY DEF NotifierInd, NotifierTypeOK
  <2>2. QED
    BY <1>1, <1>2, <2>1, QueueInd DEF notifierVars
<1>3. CASE Detect
  <2>1. latest \in Tags /\ detected' = Append(detected, latest) /\ UNCHANGED <<rest, notified>>
    BY <1>3 DEF Detect, ReleaseDetected, ScannerTypeOK, batchVars, retryVars, mailVars
  <2>2. detected' \in Seq(Tags) /\ detected' # <<>>
    BY <1>1, <2>1
  <2>3. QED
    BY <2>1, <2>2, QueueInd
<1>4. CASE NotifySkip
  <2>1. batch = <<>> /\ detected # <<>> /\ detected' = Tail(detected) /\ UNCHANGED <<rest, notified>>
    BY <1>4 DEF NotifySkip, batchVars, retryVars, mailVars
  <2>2. detected' \in Seq(Tags)
    BY <1>1, <2>1
  <2>3. QED
    BY <2>1, <2>2, QueueInd
<1>5. CASE HandleNotified \/ NotifiedDropped
  <2>1. notified # <<>> /\ notified' \in {notified, Tail(notified)} /\ UNCHANGED <<rest, detected>>
    BY <1>5 DEF HandleNotified, NotifiedDropped, batchVars, retryVars, mailVars
  <2>2. QED
    BY <2>1, QueueInd
<1>6. CASE NotifySend
  BY <1>6, NotifySendInd DEF EventTypeOK
<1>7. CASE NotifyRecord \/ NotifyAborted
  BY <1>7, NotifyRecordInd, NotifyAbortedInd
<1>8. ASSUME NEW r \in failed, RetryRow(r) PROVE NotifierInd' /\ MailsGrow
  BY <1>8, RetryGoneInd, RetrySendInd DEF RetryRow
<1>9. CASE RetryRecord \/ RetryAborted \/ Prune
  BY <1>9, RetryRecordInd, RetryAbortedInd, PruneInd
<1>10. QED
  BY <1>2, <1>3, <1>4, <1>5, <1>6, <1>7, <1>8, <1>9, NotifierFrame DEF Notify

(* The scanner's tag stays one that was seeded or delivered.               *)
LEMMA SeenInd ==
    ASSUME ScannerTypeOK, NotifierInd, MailsGrow, mails' \in [Pairs -> Nat],
           SeenMeansDelivered, [RFNext]_rfVars
    PROVE  SeenMeansDelivered'
<1>1. ASSUME NEW t \in Tags, Delivered(t), seeded \subseteq seeded' PROVE Delivered(t)'
  <2>1. CASE t \in seeded
    BY <1>1, <2>1 DEF Delivered
  <2>2. CASE \E e \in Emails : mails[<<t, e>>] > 0
    <3>1. PICK e \in Emails : mails[<<t, e>>] > 0
      BY <2>2
    <3>2. <<t, e>> \in Pairs /\ mails[<<t, e>>] \in Nat /\ mails'[<<t, e>>] \in Nat
      BY DEF Pairs, NotifierInd, NotifierTypeOK
    <3>3. mails'[<<t, e>>] > 0
      BY <3>1, <3>2 DEF MailsGrow
    <3>4. QED
      BY <3>3 DEF Delivered
  <2>3. QED
    BY <1>1, <2>1, <2>2, SMTT(20) DEF Delivered
<1>2. CASE seen' = seen /\ seeded \subseteq seeded'
  BY <1>1, <1>2 DEF SeenMeansDelivered, ScannerTypeOK
<1>3. CASE seen' = NoTag
  BY <1>3 DEF SeenMeansDelivered
<1>4. CASE HandleNotified
  <2>1. /\ UNCHANGED seeded /\ notified # <<>>
        /\ seen' = seen \/ (Head(notified).delivered /\ seen' = Head(notified).tag)
    BY <1>4 DEF HandleNotified, AdvanceIfSent, AdvanceTag
  <2>2. CASE seen' = seen
    BY <1>2, <2>1, <2>2
  <2>3. CASE Head(notified).delivered /\ seen' = Head(notified).tag
    <3>1. Head(notified) = notified[1] /\ 1 \in DOMAIN notified /\ notified[1] \in NotifiedRecord
      BY <2>1 DEF NotifierInd, NotifierTypeOK
    <3>2. seen' \in Tags /\ \E e \in Emails : mails[<<seen', e>>] > 0
      BY <2>3, <3>1 DEF NotifierInd, TagInd, NotifiedRecord
    <3>3. PICK t \in Tags : t = seen' /\ Delivered(t)
      BY <3>2 DEF Delivered
    <3>4. Delivered(t)'
      BY <1>1, <2>1, <3>3
    <3>5. QED
      BY <3>3, <3>4 DEF SeenMeansDelivered
  <2>4. QED
    BY <2>1, <2>2, <2>3
<1>5. CASE Seed
  <2>1. seeded' = seeded \cup {latest} /\ (seen' = seen \/ seen' = latest)
    BY <1>5 DEF Seed, AdvanceTag
  <2>2. CASE seen' = latest
    BY <2>1, <2>2 DEF SeenMeansDelivered, Delivered
  <2>3. QED
    BY <1>2, <2>1, <2>2
<1>6. CASE ScannerRemoved
  <2>1. UNCHANGED seeded /\ (seen' = seen \/ seen' = NoTag)
    BY <1>6 DEF ScannerRemoved, DecrementSubscriber
  <2>2. QED
    BY <1>2, <1>3, <2>1
<1>7. CASE Release \/ ScannerConfirmed \/ UNCHANGED <<scannerVars, latest>>
  <2>1. UNCHANGED <<seen, seeded>>
    BY <1>7 DEF Release, ScannerConfirmed, IncrementSubscriber, scannerVars
  <2>2. QED
    BY <1>2, <2>1
<1>8. CASE ScanList \/ Unchanged \/ Detect \/ ScanNothing
  <2>1. UNCHANGED <<seen, seeded>>
    BY <1>8 DEF ScanList, Unchanged, Detect, ScanNothing
  <2>2. QED
    BY <1>2, <2>1
<1>9. QED
  BY <1>4, <1>5, <1>6, <1>7, <1>8, ScannerFrame DEF Scan
=============================================================================
