------------------------- MODULE OutboxRelayProofs -------------------------
(***************************************************************************)
(* Proofs about OutboxRelay, for every set of messages, every number of    *)
(* replicas, every batch size and any number of faults.                    *)
(*                                                                         *)
(* OutInv is not inductive: Finish deletes what it published, so the proof *)
(* needs that this is in the stream (DoneIsPublished) and that no other    *)
(* relay holds it (a batch consists of visible rows, BatchIsVisible).      *)
(* CausalOrder and NudgeSuffices each need a fact about what a batch       *)
(* leaves out (BatchIsClosed, WorkInHand).                                 *)
(***************************************************************************)
EXTENDS OutboxRelay, FiniteSetTheorems, TLAPS

(* Only committed messages have rows, and finitely many do.                *)
RowsAreCommitted ==
    /\ IsFiniteSet(rows)
    /\ \A m \in rows : tx[m] = "committed"

(* A locked row is visible: only the relay that locked it deletes it.      *)
BatchIsVisible == \A r \in Relays : batch[r] \subseteq rows

DoneIsPublished == \A r \in Relays : \A m \in done[r] : InStream(m)

(* A relay that is not deployed does nothing.                              *)
OnlyRunning == \A r \in Relays \ running : batch[r] = {}

(* Ids come from a sequence that only grows, so that whatever was          *)
(* committed when a message was inserted has a smaller id.                 *)
IdsGrow ==
    /\ \A m \in Msgs : IF tx[m] = "idle" THEN before[m] = {} ELSE id[m] < nextId
    /\ \A n \in Msgs : \A m \in before[n] : tx[m] = "committed" /\ id[m] < id[n]

(* With one relay, a batch leaves out nothing that must go first.          *)
BatchIsClosed ==
    Cardinality(running) = 1 => \A r \in running : \A n \in batch[r] :
        \A m \in before[n] : m \in batch[r] \/ InStream(m)

(* Until something fails, whoever will look at a row again.                *)
WorkInHand ==
    faults = 0 =>
        /\ \A r \in Relays : phase[r] # "failing"
        /\ \A m \in rows :
              \/ m \in owed
              \/ \E r \in Relays :
                    \/ nudge[r]
                    \/ phase[r] = "flushing"
                    \/ /\ phase[r] = "publishing"
                       /\ m \in batch[r] \/ Cardinality(batch[r]) = BatchSize

OutInd ==
    /\ OutInv
    /\ RowsAreCommitted
    /\ BatchIsVisible
    /\ DoneIsPublished
    /\ OnlyRunning
    /\ IdsGrow
    /\ BatchIsClosed
    /\ CausalOrder
    /\ WorkInHand

----------------------------------------------------------------------------
(* What appending does to the messages of a sequence.                      *)
LEMMA AppendElements ==
    ASSUME NEW s \in Seq(Msgs), NEW m \in Msgs
    PROVE  /\ Append(s, m) \in Seq(Msgs)
           /\ DOMAIN s = 1..Len(s) /\ Len(s) \in Nat
           /\ DOMAIN Append(s, m) = 1..(Len(s) + 1)
           /\ \A i \in 1..Len(s) : Append(s, m)[i] = s[i]
           /\ Append(s, m)[Len(s) + 1] = m
OBVIOUS

(* The minimum that LIMIT takes.                                           *)
LEMMA MinOfTwo ==
    ASSUME NEW a \in Nat, NEW b \in Nat
    PROVE  Min({a, b}) = IF a <= b THEN a ELSE b
BY DEF Min

(* LIMIT: either the batch is full, or it has every unlocked row.          *)
LEMMA FullOrAll ==
    ASSUME NEW S, NEW T, IsFiniteSet(T), IsFirst(S, T)
    PROVE  Cardinality(S) = BatchSize \/ S = T
<1>1. /\ IsFiniteSet(S)
      /\ Cardinality(S) \in Nat
      /\ Cardinality(T) \in Nat
  BY FS_Subset, FS_CardinalityType DEF IsFirst
<1>2. Cardinality(S) = BatchSize \/ Cardinality(S) = Cardinality(T)
  BY <1>1, MinOfTwo, BatchAssumption DEF IsFirst
<1>3. QED
  BY <1>1, <1>2, FS_Subset DEF IsFirst

(* Every relay that is deployed is a relay.                                *)
LEMMA RunningAreRelays == running \in Deployments => running \subseteq Relays
BY DEF Relays

(* What a relay's step means for the messages in the stream: none leaves,  *)
(* and one that enters was in a batch.                                     *)
LEMMA StreamStep ==
    ASSUME OutTypeOK, [OutNext]_outVars
    PROVE  \A m \in Msgs :
              /\ InStream(m) => InStream(m)'
              /\ InStream(m)' => InStream(m) \/ \E r \in Relays : m \in batch[r]
<1> running \subseteq Relays
  BY RunningAreRelays DEF OutTypeOK
<1>1. CASE UNCHANGED stream
  BY <1>1 DEF InStream
<1>2. ASSUME NEW r \in running, NEW n \in Msgs, n \in batch[r], stream' = Append(stream, n)
      PROVE  \A m \in Msgs :
                /\ InStream(m) => InStream(m)'
                /\ InStream(m)' => InStream(m) \/ \E q \in Relays : m \in batch[q]
  <2>1. stream \in Seq(Msgs)
    BY DEF OutTypeOK
  <2>2. /\ DOMAIN stream = 1..Len(stream) /\ Len(stream) \in Nat
        /\ DOMAIN stream' = 1..(Len(stream) + 1)
        /\ \A i \in 1..Len(stream) : stream'[i] = stream[i]
        /\ stream'[Len(stream) + 1] = n
    BY <1>2, <2>1, AppendElements
  <2>3. QED
    BY <1>2, <2>2 DEF InStream
<1>3. CASE \E r \in running, n \in Msgs : Publish(r, n) \/ PublishFails(r, n)
  BY <1>1, <1>2, <1>3 DEF Publish, PublishFails, IsNext
<1>4. CASE UNCHANGED outVars
  BY <1>1, <1>4 DEF outVars
<1>5. QED
  BY <1>1, <1>3, <1>4 DEF OutNext, RelayStep, Enqueue, Commit, Rollback, Notify, NotifyLost,
     Wake, Select, Finish, FlushFails, RelayRestart

(* Types are preserved.                                                    *)
LEMMA TypeStep ==
    ASSUME OutTypeOK, [OutNext]_outVars
    PROVE  OutTypeOK'
<1> running \subseteq Relays
  BY RunningAreRelays DEF OutTypeOK
<1>1. ASSUME NEW m \in Msgs, Enqueue(m)
      PROVE  OutTypeOK'
  <2>1. {n \in Msgs : tx[n] = "committed"} \in SUBSET Msgs
    OBVIOUS
  <2>2. QED
    BY <1>1, <2>1 DEF Enqueue, OutTypeOK
<1>2. ASSUME NEW m \in Msgs, Commit(m)
      PROVE  OutTypeOK'
  BY <1>2 DEF Commit, OutTypeOK
<1>3. ASSUME NEW m \in Msgs, Rollback(m)
      PROVE  OutTypeOK'
  BY <1>3 DEF Rollback, OutTypeOK
<1>4. ASSUME NEW m \in owed, Notify(m)
      PROVE  OutTypeOK'
  BY <1>4 DEF Notify, OutTypeOK
<1>5. ASSUME NEW m \in owed, NotifyLost(m)
      PROVE  OutTypeOK'
  BY <1>5, OutboxLimits DEF NotifyLost, Fault, OutTypeOK
<1>6. ASSUME NEW r \in running, Wake(r)
      PROVE  OutTypeOK'
  BY <1>6, Zenon DEF Wake, WakeByTick, WakeByNudge, OutTypeOK, producerVars
<1>7. ASSUME NEW r \in running, Select(r)
      PROVE  OutTypeOK'
  <2>1. PICK S \in SUBSET rows :
            /\ batch' = [batch EXCEPT ![r] = S]
            /\ phase' = [phase EXCEPT ![r] = IF S = {} THEN "waiting" ELSE "publishing"]
    BY <1>7, Zenon DEF Select
  <2>2. QED
    BY <1>7, <2>1 DEF Select, OutTypeOK, producerVars
<1>8. ASSUME NEW r \in running, NEW m \in Msgs, Publish(r, m)
      PROVE  OutTypeOK'
  <2>1. stream' \in Seq(Msgs)
    BY <1>8, AppendElements DEF Publish, OutTypeOK
  <2>2. QED
    BY <1>8, <2>1 DEF Publish, IsNext, OutTypeOK, producerVars
<1>9. ASSUME NEW r \in running, NEW m \in Msgs, PublishFails(r, m)
      PROVE  OutTypeOK'
  <2>1. stream' \in Seq(Msgs)
    <3>1. stream \in Seq(Msgs) /\ (stream' = stream \/ stream' = Append(stream, m))
      BY <1>9 DEF PublishFails, OutTypeOK
    <3>2. QED
      BY <3>1, AppendElements
  <2>2. QED
    BY <1>9, <2>1, OutboxLimits DEF PublishFails, Fault, OutTypeOK, producerVars
<1>10. ASSUME NEW r \in running, Finish(r)
       PROVE  OutTypeOK'
  BY <1>10 DEF Finish, OutTypeOK, producerVars
<1>11. ASSUME NEW r \in running, FlushFails(r)
       PROVE  OutTypeOK'
  BY <1>11, OutboxLimits DEF FlushFails, Fault, OutTypeOK, producerVars
<1>12. ASSUME NEW r \in running, RelayRestart(r)
       PROVE  OutTypeOK'
  BY <1>12, OutboxLimits DEF RelayRestart, Fault, OutTypeOK, producerVars
<1>13. CASE UNCHANGED outVars
  BY <1>13 DEF outVars, OutTypeOK
<1>14. QED
  BY <1>1, <1>2, <1>3, <1>4, <1>5, <1>6, <1>7, <1>8, <1>9, <1>10, <1>11, <1>12, <1>13
     DEF OutNext, RelayStep

----------------------------------------------------------------------------
(* The facts OutInv rests on, one lemma each.                              *)

(* Rows appear with the commit and are finitely many.                      *)
LEMMA RowsStep ==
    ASSUME OutInd, [OutNext]_outVars
    PROVE  RowsAreCommitted'
<1> USE DEF OutInd, OutInv, OutTypeOK, RowsAreCommitted
<1>1. ASSUME NEW m \in Msgs, Commit(m)
      PROVE  RowsAreCommitted'
  <2>1. IsFiniteSet(rows')
    BY <1>1, FS_AddElement DEF Commit
  <2>2. QED
    BY <1>1, <2>1 DEF Commit
<1>2. ASSUME NEW m \in Msgs, Enqueue(m) \/ Rollback(m)
      PROVE  RowsAreCommitted'
  BY <1>2 DEF Enqueue, Rollback
<1>3. ASSUME NEW r \in running, Finish(r)
      PROVE  RowsAreCommitted'
  <2>1. rows' \in SUBSET rows /\ UNCHANGED tx
    BY <1>3 DEF Finish, producerVars
  <2>2. QED
    BY <2>1, FS_Subset
<1>4. CASE UNCHANGED <<rows, tx>>
  BY <1>4
<1>5. QED
  BY <1>1, <1>2, <1>3, <1>4 DEF OutNext, RelayStep, Notify, NotifyLost, Wake, Select,
     Publish, PublishFails, FlushFails, RelayRestart, producerVars, outVars

(* A batch is taken from the unlocked rows, and a relay deletes no row of  *)
(* another relay's batch.                                                  *)
LEMMA LocksStep ==
    ASSUME OutInd, [OutNext]_outVars
    PROVE  LocksExclusive' /\ BatchIsVisible' /\ OnlyRunning'
<1> USE DEF OutInd, OutInv, LocksExclusive, BatchIsVisible, OnlyRunning
<1> running \subseteq Relays /\ batch \in [Relays -> SUBSET Msgs] /\ done \in [Relays -> SUBSET Msgs]
  BY RunningAreRelays DEF OutTypeOK
<1>1. ASSUME NEW r \in running, Select(r)
      PROVE  LocksExclusive' /\ BatchIsVisible' /\ OnlyRunning'
  <2>1. PICK S \in SUBSET rows : S \subseteq Unlocked /\ batch' = [batch EXCEPT ![r] = S]
    BY <1>1, Zenon DEF Select, IsFirst
  <2>2. \A q \in Relays : S \cap batch[q] = {}
    BY <2>1 DEF Unlocked
  <2>3. QED
    BY <1>1, <2>1, <2>2 DEF Select, producerVars
<1>2. ASSUME NEW r \in running, Finish(r)
      PROVE  LocksExclusive' /\ BatchIsVisible' /\ OnlyRunning'
  <2>1. done[r] \subseteq batch[r]
    BY DEF OutTypeOK
  <2>2. QED
    BY <1>2, <2>1 DEF Finish, DeleteDone, producerVars
<1>3. ASSUME NEW r \in running, FlushFails(r) \/ RelayRestart(r)
      PROVE  LocksExclusive' /\ BatchIsVisible' /\ OnlyRunning'
  BY <1>3 DEF FlushFails, RelayRestart, producerVars
<1>4. CASE rows \subseteq rows' /\ UNCHANGED <<batch, running>>
  BY <1>4
<1>5. QED
  BY <1>1, <1>2, <1>3, <1>4 DEF OutNext, RelayStep, Enqueue, Commit, Rollback, Notify,
     NotifyLost, Wake, Publish, PublishFails, producerVars, outVars

(* publishAll marks a message done only after it is in the stream.         *)
LEMMA DoneStep ==
    ASSUME OutInd, [OutNext]_outVars
    PROVE  DoneIsPublished'
<1> USE DEF OutInd, OutInv, DoneIsPublished
<1> /\ running \subseteq Relays /\ done \in [Relays -> SUBSET Msgs]
    /\ \A m \in Msgs : InStream(m) => InStream(m)'
  BY RunningAreRelays, StreamStep DEF OutTypeOK
<1>1. ASSUME NEW r \in running, NEW m \in Msgs, Publish(r, m)
      PROVE  DoneIsPublished'
  <2>1. InStream(m)'
    BY <1>1, AppendElements DEF Publish, InStream, OutTypeOK
  <2>2. QED
    BY <1>1, <2>1 DEF Publish
<1>2. ASSUME NEW r \in running, done' = [done EXCEPT ![r] = {}]
      PROVE  DoneIsPublished'
  BY <1>2
<1>3. CASE UNCHANGED done
  BY <1>3
<1>4. QED
  BY <1>1, <1>2, <1>3 DEF OutNext, RelayStep, Enqueue, Commit, Rollback, Notify, NotifyLost,
     Wake, Select, PublishFails, Finish, FlushFails, RelayRestart, outVars

(* Nothing is lost: a row goes when its message is in the stream.  Nothing *)
(* is invented: what enters the stream was in a batch, so has a row.       *)
LEMMA LossStep ==
    ASSUME OutInd, [OutNext]_outVars
    PROVE  NeverLostNorInvented'
<1> USE DEF OutInd, OutInv, NeverLostNorInvented
<1> SUFFICES ASSUME NEW m \in Msgs
             PROVE  /\ InStream(m)' => tx'[m] = "committed"
                    /\ tx'[m] = "committed" => m \in rows' \/ InStream(m)'
  OBVIOUS
<1>1. /\ InStream(m) => InStream(m)'
      /\ InStream(m)' => tx[m] = "committed"
  BY StreamStep DEF BatchIsVisible, RowsAreCommitted
<1>2. tx[m] = "committed" => tx'[m] = "committed"
  BY ZenonT(40) DEF OutTypeOK, OutNext, RelayStep, Enqueue, Commit, Rollback, Notify, NotifyLost, Wake,
     Select, Publish, PublishFails, Finish, FlushFails, RelayRestart, producerVars, outVars
<1>3. tx'[m] = "committed" => tx[m] = "committed" \/ m \in rows'
  BY ZenonT(40) DEF OutTypeOK, OutNext, RelayStep, Enqueue, Commit, Rollback, Notify, NotifyLost, Wake,
     Select, Publish, PublishFails, Finish, FlushFails, RelayRestart, producerVars, outVars
<1>4. m \in rows => m \in rows' \/ InStream(m)
  <2>1. ASSUME NEW r \in running, Finish(r)
        PROVE  m \in rows => m \in rows' \/ InStream(m)
    BY <2>1, RunningAreRelays DEF Finish, DeleteDone, DoneIsPublished, OutTypeOK
  <2>2. QED
    BY <2>1, Zenon DEF OutNext, RelayStep, Enqueue, Commit, Rollback, Notify, NotifyLost, Wake,
       Select, Publish, PublishFails, FlushFails, RelayRestart, producerVars, outVars
<1>5. QED
  BY <1>1, <1>2, <1>3, <1>4

(* Ids follow the inserts; a message knows what was committed before it.   *)
LEMMA IdsStep ==
    ASSUME OutInd, [OutNext]_outVars
    PROVE  IdsGrow'
<1> USE DEF OutInd, OutInv, OutTypeOK, IdsGrow
<1>1. ASSUME NEW m \in Msgs, Enqueue(m)
      PROVE  IdsGrow'
  <2>1. \A n \in before'[m] : tx'[n] = "committed" /\ id'[n] < id'[m]
    BY <1>1 DEF Enqueue
  <2>2. ASSUME NEW n \in Msgs, n # m
        PROVE  \A k \in before'[n] : tx'[k] = "committed" /\ id'[k] < id'[n]
    BY <1>1, <2>2 DEF Enqueue
  <2>3. ASSUME NEW n \in Msgs
        PROVE  IF tx'[n] = "idle" THEN before'[n] = {} ELSE id'[n] < nextId'
    BY <1>1, <2>3 DEF Enqueue
  <2>4. QED
    BY <2>1, <2>2, <2>3, Zenon
<1>2. ASSUME NEW m \in Msgs, Commit(m) \/ Rollback(m)
      PROVE  IdsGrow'
  BY <1>2 DEF Commit, Rollback
<1>3. CASE UNCHANGED <<tx, id, nextId, before>>
  BY <1>3
<1>4. QED
  BY <1>1, <1>2, <1>3 DEF OutNext, RelayStep, Notify, NotifyLost, Wake, Select, Publish,
     PublishFails, Finish, FlushFails, RelayRestart, producerVars, outVars

(* With one relay: ORDER BY id, and no other relay to skip the rows of.    *)
LEMMA ClosedStep ==
    ASSUME OutInd, [OutNext]_outVars
    PROVE  BatchIsClosed'
<1> USE DEF OutInd, OutInv, BatchIsClosed
<1> /\ running \subseteq Relays /\ batch \in [Relays -> SUBSET Msgs]
    /\ \A n \in Msgs : before[n] \subseteq Msgs
    /\ \A m \in Msgs : InStream(m) => InStream(m)'
  BY RunningAreRelays, StreamStep DEF OutTypeOK
<1>1. UNCHANGED running
  BY Zenon DEF OutNext, RelayStep, Enqueue, Commit, Rollback, Notify, NotifyLost, Wake, Select,
     Publish, PublishFails, Finish, FlushFails, RelayRestart, producerVars, outVars
<1> SUFFICES ASSUME Cardinality(running) = 1
             PROVE  \A r \in running : \A n \in batch'[r] :
                       \A m \in before'[n] : m \in batch'[r] \/ InStream(m)'
  BY <1>1
<1>2. ASSUME NEW r \in running, Select(r)
      PROVE  \A n \in batch'[r] : \A m \in before'[n] : m \in batch'[r] \/ InStream(m)'
  <2>1. \A q \in Relays : batch[q] = {}
    <3>1. IsFiniteSet(running)
      BY DeploymentsAreFinite DEF OutTypeOK
    <3>2. running = {r}
      BY <3>1, FS_Singleton
    <3>3. QED
      BY <1>2, <3>2, Zenon DEF Select, OnlyRunning, OutTypeOK
  <2>2. PICK S \in SUBSET rows : IsFirst(S, Unlocked) /\ batch' = [batch EXCEPT ![r] = S]
    BY <1>2, Zenon DEF Select
  <2>3. ASSUME NEW n \in S, NEW m \in before[n]
        PROVE  m \in S \/ InStream(m)
    <3>1. n \in Msgs /\ m \in Msgs /\ tx[m] = "committed" /\ id[m] < id[n]
      BY DEF IdsGrow, OutTypeOK
    <3>2. m \in Unlocked \/ InStream(m)
      BY <2>1, <3>1 DEF Unlocked, NeverLostNorInvented
    <3>3. m \in Unlocked \ S => id[n] < id[m]
      BY <2>2 DEF IsFirst
    <3>4. QED
      BY <3>1, <3>2, <3>3 DEF OutTypeOK
  <2>4. batch'[r] = S /\ before' = before /\ S \subseteq Msgs
    BY <1>2, <2>2 DEF Select, producerVars, OutTypeOK
  <2>5. QED
    BY <2>3, <2>4
<1>3. ASSUME NEW r \in running, batch' = [batch EXCEPT ![r] = {}], UNCHANGED before
      PROVE  \A q \in running : \A n \in batch'[q] :
                \A m \in before'[n] : m \in batch'[q] \/ InStream(m)'
  BY <1>3
<1>4. ASSUME NEW m \in Msgs, Enqueue(m)
      PROVE  \A r \in running : \A n \in batch'[r] :
                \A k \in before'[n] : k \in batch'[r] \/ InStream(k)'
  BY <1>4 DEF Enqueue, BatchIsVisible, RowsAreCommitted, OutTypeOK
<1>5. CASE UNCHANGED <<batch, before>>
  BY <1>5
<1>6. ASSUME NEW r \in running, Select(r)
      PROVE  \A q \in running : \A n \in batch'[q] :
                \A m \in before'[n] : m \in batch'[q] \/ InStream(m)'
  BY <1>2, <1>6, Zenon DEF Select, producerVars
<1>7. QED
  BY <1>3, <1>4, <1>5, <1>6, Zenon DEF OutNext, RelayStep, Commit, Rollback, Notify, NotifyLost,
     Wake, Publish, PublishFails, Finish, FlushFails, RelayRestart, producerVars, outVars

(* The relay comes to a message only after everything that goes before it. *)
LEMMA CausalStep ==
    ASSUME OutInd, [OutNext]_outVars
    PROVE  CausalOrder'
<1> USE DEF OutInd, OutInv
<1>1. UNCHANGED running
  BY Zenon DEF OutNext, RelayStep, Enqueue, Commit, Rollback, Notify, NotifyLost, Wake, Select,
     Publish, PublishFails, Finish, FlushFails, RelayRestart, producerVars, outVars
<1> SUFFICES ASSUME Cardinality(running) = 1
             PROVE  \A i \in DOMAIN stream' : \A m \in before'[stream'[i]] :
                       \E j \in 1..(i - 1) : stream'[j] = m
  BY <1>1 DEF CausalOrder
<1>2. \A i \in DOMAIN stream : \A m \in before[stream[i]] : \E j \in 1..(i - 1) : stream[j] = m
  BY DEF CausalOrder
<1>3. /\ DOMAIN stream = 1..Len(stream) /\ Len(stream) \in Nat
      /\ \A i \in DOMAIN stream : stream[i] \in Msgs /\ tx[stream[i]] = "committed"
  BY DEF OutTypeOK, NeverLostNorInvented, InStream
<1>4. ASSUME NEW r \in running, NEW n \in Msgs, IsNext(r, n), stream' = Append(stream, n),
             UNCHANGED before
      PROVE  \A i \in DOMAIN stream' : \A m \in before'[stream'[i]] :
                \E j \in 1..(i - 1) : stream'[j] = m
  <2>1. ASSUME NEW m \in before[n]
        PROVE  InStream(m)
    <3>1. r \in Relays /\ m \in Msgs /\ id[m] < id[n]
      BY RunningAreRelays DEF IdsGrow, OutTypeOK
    <3>2. m \in batch[r] \/ InStream(m)
      BY <1>4, <2>1 DEF IsNext, BatchIsClosed
    <3>3. m \notin batch[r] \ done[r]
      BY <1>4, <3>1 DEF IsNext, OutTypeOK
    <3>4. QED
      BY <3>1, <3>2, <3>3 DEF DoneIsPublished
  <2>2. /\ DOMAIN stream' = 1..(Len(stream) + 1)
        /\ \A i \in 1..Len(stream) : stream'[i] = stream[i]
        /\ stream'[Len(stream) + 1] = n
    BY <1>4, AppendElements DEF OutTypeOK
  <2>3. ASSUME NEW i \in 1..Len(stream), NEW m \in before'[stream'[i]]
        PROVE  \E j \in 1..(i - 1) : stream'[j] = m
    BY <1>2, <1>3, <1>4, <2>2
  <2>4. ASSUME NEW m \in before'[stream'[Len(stream) + 1]]
        PROVE  \E j \in 1..Len(stream) : stream'[j] = m
    BY <1>3, <1>4, <2>1, <2>2 DEF InStream
  <2>5. ASSUME NEW i \in 1..(Len(stream) + 1), NEW m \in before'[stream'[i]]
        PROVE  \E j \in 1..(i - 1) : stream'[j] = m
    <3>1. CASE i \in 1..Len(stream)
      BY <2>3, <3>1
    <3>2. CASE i = Len(stream) + 1
      <4>1. i - 1 = Len(stream)
        BY <1>3, <3>2
      <4>2. QED
        BY <2>4, <3>2, <4>1
    <3>3. QED
      BY <1>3, <3>1, <3>2
  <2>6. QED
    BY <2>2, <2>5
<1>5. ASSUME NEW n \in Msgs, Enqueue(n)
      PROVE  \A i \in DOMAIN stream' : \A m \in before'[stream'[i]] :
                \E j \in 1..(i - 1) : stream'[j] = m
  BY <1>2, <1>3, <1>5 DEF Enqueue, OutTypeOK
<1>6. CASE UNCHANGED <<stream, before>>
  BY <1>2, <1>6
<1>7. QED
  BY <1>4, <1>5, <1>6, Zenon DEF OutNext, RelayStep, Commit, Rollback, Notify, NotifyLost, Wake,
     Select, Publish, PublishFails, Finish, FlushFails, RelayRestart, producerVars, outVars

(* A batch that is not full took every unlocked row, and the others are    *)
(* in the batches of relays that delete them or look again.                *)
LEMMA WorkStep ==
    ASSUME OutInd, [OutNext]_outVars
    PROVE  WorkInHand'
<1> USE DEF OutInd, OutInv
<1> /\ running \subseteq Relays /\ rows \subseteq Msgs
    /\ batch \in [Relays -> SUBSET Msgs] /\ nudge \in [Relays -> BOOLEAN]
    /\ phase \in [Relays -> {"waiting", "flushing", "publishing", "failing"}]
  BY RunningAreRelays DEF OutTypeOK
<1>1. CASE Fault
  BY <1>1 DEF Fault, WorkInHand, OutTypeOK
<1>2. ASSUME NEW r \in running, Select(r)
      PROVE  WorkInHand'
  <2> SUFFICES ASSUME faults = 0
               PROVE  WorkInHand'
    BY <1>2 DEF Select, WorkInHand
  <2>1. PICK S \in SUBSET rows :
            /\ IsFirst(S, Unlocked)
            /\ batch' = [batch EXCEPT ![r] = S]
            /\ phase' = [phase EXCEPT ![r] = IF S = {} THEN "waiting" ELSE "publishing"]
    BY <1>2, Zenon DEF Select
  <2>2. Cardinality(S) = BatchSize \/ S = Unlocked
    <3>1. IsFiniteSet(Unlocked)
      BY FS_Subset DEF Unlocked, RowsAreCommitted
    <3>2. QED
      BY <2>1, <3>1, FullOrAll
  <2>3. Cardinality(S) = BatchSize => S # {}
    BY FS_EmptySet, BatchAssumption
  <2>4. ASSUME NEW m \in rows
        PROVE  \/ m \in owed
               \/ \E q \in Relays :
                     \/ nudge[q]
                     \/ phase'[q] = "flushing"
                     \/ /\ phase'[q] = "publishing"
                        /\ m \in batch'[q] \/ Cardinality(batch'[q]) = BatchSize
    <3>1. CASE m \in S \/ Cardinality(S) = BatchSize
      BY <2>1, <2>3, <3>1
    <3>2. CASE m \notin Unlocked
      <4>1. PICK q \in Relays : m \in batch[q]
        BY <3>2 DEF Unlocked
      <4>2. phase[q] = "publishing" /\ q # r
        BY <1>2, <4>1 DEF Select, WorkInHand, OutTypeOK
      <4>3. QED
        BY <2>1, <4>1, <4>2
    <3>3. QED
      BY <2>2, <3>1, <3>2
  <2>5. \A q \in Relays : phase'[q] # "failing"
    BY <2>1 DEF WorkInHand
  <2>6. QED
    BY <1>2, <2>4, <2>5 DEF Select, WorkInHand, producerVars
<1>3. ASSUME NEW r \in running, Finish(r)
      PROVE  WorkInHand'
  BY <1>3 DEF Finish, More, DeleteDone, WorkInHand, producerVars
<1>4. ASSUME NEW r \in running, Wake(r)
      PROVE  WorkInHand'
  BY <1>4 DEF Wake, WakeByTick, WakeByNudge, WorkInHand, producerVars
<1>5. ASSUME NEW m \in owed, Notify(m)
      PROVE  WorkInHand'
  BY <1>5 DEF Notify, WorkInHand
<1>6. ASSUME NEW m \in Msgs, Commit(m)
      PROVE  WorkInHand'
  BY <1>6 DEF Commit, WorkInHand
<1>7. CASE UNCHANGED <<faults, rows, owed, nudge, phase, batch>>
  BY <1>7 DEF WorkInHand
<1>8. QED
  BY <1>1, <1>2, <1>3, <1>4, <1>5, <1>6, <1>7, Zenon DEF OutNext, RelayStep, Enqueue, Rollback,
     NotifyLost, Publish, PublishFails, FlushFails, RelayRestart, producerVars, outVars

----------------------------------------------------------------------------
(* The inductive invariant.                                                *)
LEMMA OutboxInduction == OutSpec => []OutInd
<1>1. OutInit => OutInd
  <2> SUFFICES ASSUME OutInit
               PROVE  OutInd
    OBVIOUS
  <2> USE DEF OutInit
  <2>1. OutTypeOK
    BY OutboxLimits DEF OutTypeOK
  <2>2. LocksExclusive /\ NeverLostNorInvented /\ CausalOrder
    BY DEF LocksExclusive, NeverLostNorInvented, InStream, CausalOrder
  <2>3. RowsAreCommitted
    BY FS_EmptySet DEF RowsAreCommitted
  <2>4. BatchIsVisible /\ DoneIsPublished /\ OnlyRunning /\ IdsGrow /\ WorkInHand
    BY DEF BatchIsVisible, DoneIsPublished, OnlyRunning, IdsGrow, WorkInHand
  <2>5. BatchIsClosed
    BY RunningAreRelays DEF BatchIsClosed
  <2>6. QED
    BY <2>1, <2>2, <2>3, <2>4, <2>5 DEF OutInd, OutInv
<1>2. OutInd /\ [OutNext]_outVars => OutInd'
  <2> SUFFICES ASSUME OutInd, [OutNext]_outVars
               PROVE  OutInd'
    OBVIOUS
  <2>1. OutTypeOK'
    BY TypeStep DEF OutInd, OutInv
  <2>2. QED
    BY <2>1, RowsStep, LocksStep, DoneStep, LossStep, IdsStep, ClosedStep, CausalStep,
       WorkStep DEF OutInd, OutInv
<1>3. QED
  BY <1>1, <1>2, PTL DEF OutSpec

(* relay.go: whatever replica fails or restarts, at whatever point between *)
(* its SELECT and its commit, the outbox loses no committed message and    *)
(* publishes no uncommitted one, and no two replicas hold the same row.    *)
THEOREM OutboxSafe == OutSpec => []OutInv
<1>1. OutInd => OutInv
  BY DEF OutInd
<1>2. QED
  BY <1>1, OutboxInduction, PTL

(* ORDER BY id in selectLocked: one relay publishes in causal order.       *)
THEOREM OrderIsCausal == OutSpec => []CausalOrder
<1>1. OutInd => CausalOrder
  BY DEF OutInd
<1>2. QED
  BY <1>1, OutboxInduction, PTL

(* Notify after the commit, and the full-batch test of flush: without      *)
(* faults no row waits for the ticker.                                     *)
THEOREM RowsNeverWaitForATick == OutSpec => []NudgeSuffices
<1>1. OutInd => NudgeSuffices
  <2> SUFFICES ASSUME OutInd, faults = 0, NEW m \in rows
               PROVE  m \in owed \/ \E r \in Relays : nudge[r] \/ phase[r] # "waiting"
    BY DEF NudgeSuffices
  <2>1. QED
    BY DEF OutInd, WorkInHand
<1>2. QED
  BY <1>1, OutboxInduction, PTL

(* The relay implements the at-least-once promise: the commit accepts a    *)
(* message, a publish delivers it, with or without an acknowledgement, and *)
(* the DELETE forgets only what was delivered.                             *)
THEOREM OutboxKeepsPromise == OutSpec => KeepsPromise
<1>1. OutInit => Promise!ObInit
  BY DEF OutInit, Promise!ObInit
<1>2. OutInd /\ [OutNext]_outVars => [Promise!ObNext]_(Promise!obVars)
  <2> SUFFICES ASSUME OutInd, [OutNext]_outVars
               PROVE  [Promise!ObNext]_(Promise!obVars)
    OBVIOUS
  <2> USE DEF OutInd, OutInv, Promise!ObNext, Promise!obVars
  <2> running \subseteq Relays
    BY RunningAreRelays DEF OutTypeOK
  <2>1. ASSUME NEW m \in Msgs, Commit(m)
        PROVE  Promise!Accept(m)
    BY <2>1, Zenon DEF Commit, Promise!Accept, Promise!IsDelivered, RowsAreCommitted,
       NeverLostNorInvented, InStream
  <2>2. ASSUME NEW r \in running, NEW m \in Msgs, Publish(r, m) \/ PublishFails(r, m)
        PROVE  Promise!Deliver(m) \/ UNCHANGED <<rows, stream>>
    BY <2>2, Zenon DEF Publish, PublishFails, IsNext, Promise!Deliver, BatchIsVisible
  <2>3. ASSUME NEW r \in running, Finish(r)
        PROVE  Promise!Forget(done[r]) /\ done[r] \in SUBSET Msgs
    BY <2>3 DEF Finish, DeleteDone, Promise!Forget, Promise!IsDelivered, DoneIsPublished,
       InStream, OutTypeOK
  <2>4. QED
    BY <2>1, <2>2, <2>3, Zenon DEF OutNext, RelayStep, Enqueue, Rollback, Notify, NotifyLost, Wake,
       Select, FlushFails, RelayRestart, outVars
<1>3. QED
  BY <1>1, <1>2, OutboxInduction, PTL DEF OutSpec, KeepsPromise, Promise!ObSpec
=============================================================================
