------------------------- MODULE TrackServiceProofs -------------------------
(***************************************************************************)
(* TLAPS proofs about TrackService, for any replicas, aircraft, partitions *)
(* and bounds: its types and locks, and what it delivers.  To the topic    *)
(* and the history: a partition that is given to a replica is listened to, *)
(* and a committed report has been published and is recorded, waiting to   *)
(* be, discarded or known to be lost.  To the shared live picture: nothing *)
(* of a partition that was given up, and of a live track nothing but the   *)
(* owner's newest.                                                         *)
(***************************************************************************)
EXTENDS TrackService, FiniteSetTheorems, TLAPS

-----------------------------------------------------------------------------
(* The lock's queue. *)

\* Asking for the lock: the new task is last.
LEMMA AppendTask ==
    ASSUME NEW s \in Seq(Task), NEW t \in Task
    PROVE  /\ Append(s, t) \in Seq(Task)
           /\ Range(Append(s, t)) = Range(s) \cup {t}
           /\ Append(s, t) # <<>>
           /\ s # <<>> => Head(Append(s, t)) = Head(s)
           /\ s = <<>> => Head(Append(s, t)) = t
BY DEF Range

\* Leaving the lock removes the holder, and nobody else.
LEMMA TailTask ==
    ASSUME NEW s \in Seq(Task), s # <<>>, WellQueued(s)
    PROVE  /\ Tail(s) \in Seq(Task)
           /\ Head(s) \in Range(s)
           /\ Range(Tail(s)) = Range(s) \ {Head(s)}
           /\ WellQueued(Tail(s))
<1>1. /\ Len(s) \in Nat /\ Len(s) > 0 /\ DOMAIN s = 1..Len(s)
      /\ Head(s) = s[1] /\ 1 \in DOMAIN s
  OBVIOUS
<1>2. /\ Tail(s) \in Seq(Task)
      /\ DOMAIN Tail(s) = 1..(Len(s) - 1)
      /\ \A i \in DOMAIN Tail(s) : i + 1 \in DOMAIN s /\ Tail(s)[i] = s[i + 1]
  BY <1>1
<1>3. \A j \in DOMAIN s : j # 1 => j - 1 \in DOMAIN Tail(s) /\ Tail(s)[j - 1] = s[j]
  BY <1>1, <1>2
<1>4. Range(Tail(s)) \subseteq Range(s) \ {Head(s)}
  <2>1. ASSUME NEW i \in DOMAIN Tail(s) PROVE Tail(s)[i] \in Range(s) \ {Head(s)}
    <3>1. i + 1 \in DOMAIN s /\ i + 1 # 1 /\ Tail(s)[i] = s[i + 1]
      BY <1>1, <1>2, <2>1
    <3>2. s[i + 1] # s[1]
      BY <1>1, <3>1 DEF WellQueued
    <3> QED
      BY <1>1, <3>1, <3>2 DEF Range
  <2> QED
    BY <2>1 DEF Range
<1>5. Range(s) \ {Head(s)} \subseteq Range(Tail(s))
  <2>1. ASSUME NEW j \in DOMAIN s, s[j] # Head(s) PROVE s[j] \in Range(Tail(s))
    BY <1>1, <1>3, <2>1 DEF Range
  <2> QED
    BY <2>1 DEF Range
<1>6. WellQueued(Tail(s))
  <2>1. ASSUME NEW i \in DOMAIN Tail(s), NEW j \in DOMAIN Tail(s), i # j
        PROVE  Tail(s)[i] # Tail(s)[j]
    BY <1>1, <1>2, <2>1 DEF WellQueued
  <2>2. ASSUME NEW i \in DOMAIN Tail(s), NEW j \in DOMAIN Tail(s),
               i < j, Tail(s)[i] = "claim"
        PROVE  Tail(s)[j] # "handle"
    BY <1>1, <1>2, <2>2 DEF WellQueued
  <2> QED
    BY <2>1, <2>2 DEF WellQueued
<1> QED
  BY <1>1, <1>2, <1>4, <1>5, <1>6 DEF Range

\* A task that is not queued yet may ask for the lock: the queue stays well formed,
\* unless it is a handler that would wait behind the assignment callback.
LEMMA AppendWellQueued ==
    ASSUME NEW s \in Seq(Task), WellQueued(s), NEW t \in Task,
           t \notin Range(s), t = "handle" => "claim" \notin Range(s)
    PROVE  WellQueued(Append(s, t))
BY DEF Range, WellQueued

\* Once the assignment callback holds the lock, no handler is in the queue.
LEMMA NoHandleBehindClaim ==
    ASSUME NEW s \in Seq(Task), WellQueued(s), s # <<>>, Head(s) = "claim"
    PROVE  "handle" \notin Range(s)
BY DEF Range, WellQueued

-----------------------------------------------------------------------------
(* What the lifecycle operators return. *)

\* One report keeps the records well typed and leaves one for its aircraft.
LEMMA OnReportType ==
    ASSUME NEW tr \in Tracks, NEW report \in Report
    PROVE  /\ OnReport(tr, report) \in Tracks
           /\ OnReport(tr, report)[report.ac] \in TrackRecord
           /\ \A a \in Aircraft : a # report.ac => OnReport(tr, report)[a] = tr[a]
<1>1. report.ac \in Aircraft /\ report.at \in Nat
  BY DEF Report
<1>2. Initiate(report.at) \in TrackRecord
  BY <1>1, LifecycleAssumption DEF Initiate, TrackRecord, TrackState
<1>3. ASSUME ~Starts(tr, report)
      PROVE  Update(tr[report.ac], report.at) \in TrackRecord
  <2>1. tr[report.ac] \in TrackRecord
    BY <1>1, <1>3 DEF Tracks, Starts
  <2> QED
    BY <1>1, <2>1, LifecycleAssumption DEF Update, Accepted, TrackRecord, TrackState
<1>4. Folded(tr, report) \in TrackRecord
  BY <1>2, <1>3 DEF Folded
<1> QED
  BY <1>1, <1>4 DEF OnReport, Tracks

\* The mark of an unknown aircraft is not a record.
LEMMA NoTrackIsNoRecord == NoTrack \notin TrackRecord
BY LifecycleAssumption DEF NoTrack, TrackRecord, TrackState

\* A sweep changes states, never which aircraft are known.
LEMMA SweptType ==
    ASSUME NEW tr \in Tracks, NEW t \in Nat
    PROVE  /\ Swept(tr, t) \in Tracks
           /\ \A a \in Aircraft : Swept(tr, t)[a] = NoTrack <=> tr[a] = NoTrack
           /\ \A a \in Changing(tr, t) : a \in Aircraft /\ Swept(tr, t)[a] \in TrackRecord
<1>1. ASSUME NEW a \in Changing(tr, t)
      PROVE  a \in Aircraft /\ tr[a] \in TrackRecord /\ Swept(tr, t)[a] \in TrackRecord
  <2>1. a \in Aircraft /\ tr[a] \in TrackRecord
    BY <1>1 DEF Changing, Live, Known, Tracks
  <2>2. StateAt(tr[a], t) \in TrackState
    BY <2>1 DEF StateAt, TrackRecord, TrackState
  <2> QED
    BY <2>1, <2>2 DEF Swept, TrackRecord
<1>2. \A a \in Aircraft : a \notin Changing(tr, t) => Swept(tr, t)[a] = tr[a]
  BY DEF Swept
<1>3. \A a \in Aircraft : Swept(tr, t)[a] = NoTrack <=> tr[a] = NoTrack
  BY <1>1, <1>2, NoTrackIsNoRecord
<1>4. Swept(tr, t) = [a \in Aircraft |-> Swept(tr, t)[a]]
  BY DEF Swept
<1>5. Swept(tr, t) \in Tracks
  BY <1>1, <1>2, <1>4 DEF Tracks
<1> QED
  BY <1>1, <1>3, <1>5

\* Pruning and releasing only remove records.
LEMMA ForgettingType ==
    ASSUME NEW tr \in Tracks, NEW t \in Nat, NEW addresses
    PROVE  /\ Pruned(tr, t) \in Tracks
           /\ Released(tr, addresses) \in Tracks
           /\ \A a \in Aircraft : Pruned(tr, t)[a] # NoTrack => tr[a] # NoTrack
           /\ \A a \in Aircraft : Released(tr, addresses)[a] # NoTrack
                                  <=> tr[a] # NoTrack /\ a \notin addresses
BY DEF Pruned, Released, Tracks

\* The keys of updates are the (aircraft, instant) pairs of reports.
LEMMA KeysType ==
    ASSUME NEW updates \in Seq(TrackUpdate)
    PROVE  Keys(updates) \subseteq Report
<1>1. \A i \in DOMAIN updates : updates[i] \in TrackUpdate
  OBVIOUS
<1> QED
  BY <1>1 DEF Keys, Key, Range, Report, TrackUpdate

\* What a batch leaves in the live picture is an update, or what was there.
LEMMA WrittenType ==
    ASSUME NEW old \in TrackUpdate \cup {NoUpdate}, NEW updates \in Seq(TrackUpdate), NEW a
    PROVE  Written(old, updates, a) \in TrackUpdate \cup {NoUpdate}
<1> DEFINE mine == {i \in DOMAIN updates : updates[i].ac = a}
           i == CHOOSE i \in mine : \A j \in mine : j <= i
<1>1. CASE \E k \in mine : \A j \in mine : j <= k
  <2>1. i \in mine
    BY <1>1
  <2>2. updates[i] \in TrackUpdate
    BY <2>1
  <2> QED
    BY <1>1, <2>2 DEF Written
<1>2. CASE ~ \E k \in mine : \A j \in mine : j <= k
  BY <1>2 DEF Written
<1> QED
  BY <1>1, <1>2

\* A sweep's updates, in whichever order, are updates.
LEMMA SweepUpdatesType ==
    ASSUME NEW tr \in Tracks, NEW t \in Nat, NEW order \in SetToSeqs(Changing(tr, t))
    PROVE  [i \in DOMAIN order |-> ToUpdate(Swept(tr, t), order[i], t)] \in Seq(TrackUpdate)
<1>1. Changing(tr, t) \subseteq Aircraft
  BY SweptType
<1>2. Cardinality(Changing(tr, t)) \in Nat
  BY <1>1, ServiceAssumption, FS_Subset, FS_CardinalityType
<1>3. DOMAIN order = 1..Cardinality(Changing(tr, t))
  BY DEF SetToSeqs
<1>4. ASSUME NEW i \in DOMAIN order
      PROVE  ToUpdate(Swept(tr, t), order[i], t) \in TrackUpdate
  <2>1. order[i] \in Changing(tr, t)
    BY <1>4 DEF SetToSeqs
  <2>2. order[i] \in Aircraft /\ Swept(tr, t)[order[i]] \in TrackRecord
    BY <2>1, SweptType
  <2> QED
    BY <2>2 DEF ToUpdate, TrackUpdate, TrackRecord
<1> QED
  BY <1>2, <1>3, <1>4

-----------------------------------------------------------------------------
(* Type correctness.  What each building block of an action leaves behind. *)

\* What a step may assume: the types, and that a waiting handler has a report.
TypeInv ==
    /\ TypeOK
    /\ \A r \in Replica : Queued(r, "handle") => inflight[r] # NoReport

\* The types but for the end of run().
ServiceTypeOK ==
    /\ BrokerTypeOK /\ StateTypeOK /\ TaskTypeOK /\ FlushTypeOK /\ StoreTypeOK /\ EnvTypeOK

\* Asking for the lock and leaving it keep the queues and the stages well typed.
LEMMA LockType ==
    ASSUME TaskTypeOK, NEW r \in Replica
    PROVE  /\ queue[r] # <<>> /\ LeaveLock(r) => /\ queue' \in [Replica -> Seq(Task)]
                                                /\ stage' \in [Replica -> Stage]
           /\ \A t \in Task : Acquire(r, t) => /\ queue' \in [Replica -> Seq(Task)]
                                              /\ stage' \in [Replica -> Stage]
<1>1. ASSUME queue[r] # <<>>, LeaveLock(r)
      PROVE  queue' \in [Replica -> Seq(Task)] /\ stage' \in [Replica -> Stage]
  <2>1. Tail(queue[r]) \in Seq(Task)
    BY <1>1 DEF TaskTypeOK
  <2> QED
    BY <1>1, <2>1 DEF LeaveLock, TaskTypeOK, Stage
<1>2. ASSUME NEW t \in Task, Acquire(r, t)
      PROVE  queue' \in [Replica -> Seq(Task)] /\ stage' \in [Replica -> Stage]
  BY <1>2, AppendTask DEF Acquire, TaskTypeOK, Stage
<1> QED
  BY <1>1, <1>2

\* _forget_pruned keeps the replica's records well typed.
LEMMA ForgetPrunedType ==
    ASSUME StateTypeOK, TaskTypeOK, NEW r \in Replica, ForgetPruned(r)
    PROVE  /\ tracks' \in [Replica -> Tracks]
           /\ mapped' \in [Replica -> SUBSET Aircraft]
           /\ astray' \in [Replica -> SUBSET Aircraft] /\ strayed' \subseteq Aircraft
           /\ clock' \in [Replica -> Nat]
<1>1. tracks[r] \in Tracks /\ clock[r] \in Nat
  BY DEF StateTypeOK, TaskTypeOK
<1>2. Pruned(tracks[r], clock[r]) \in Tracks
  BY <1>1, ForgettingType
<1> QED
  BY <1>2 DEF ForgetPruned, Stray, StateTypeOK, TaskTypeOK

\* Dropping the released aircraft keeps the replica's records well typed.
LEMMA DropType ==
    ASSUME StateTypeOK, joined \subseteq Replica, NEW r \in Replica, NEW s, Drop(r, s)
    PROVE  /\ tracks' \in [Replica -> Tracks]
           /\ mapped' \in [Replica -> SUBSET Aircraft]
           /\ joined' \subseteq Replica
<1>1. tracks[r] \in Tracks
  BY DEF StateTypeOK
<1>2. Released(tracks[r], s) \in Tracks
  BY <1>1, ForgettingType
<1> QED
  BY <1>2 DEF Drop, StateTypeOK

\* The end of a flush, whoever asked for it.
LEMMA FinishFlushType ==
    ASSUME TypeOK, NEW r \in Replica, FinishFlush(r)
    PROVE  /\ queue' \in [Replica -> Seq(Task)]
           /\ stage' \in [Replica -> Stage]
           /\ tracks' \in [Replica -> Tracks]
           /\ mapped' \in [Replica -> SUBSET Aircraft]
           /\ astray' \in [Replica -> SUBSET Aircraft] /\ strayed' \subseteq Aircraft
           /\ clock' \in [Replica -> Nat]
           /\ leaving' \in [Replica -> SUBSET Aircraft]
           /\ batch' \in [Replica -> Seq(TrackUpdate)]
           /\ changed' \in [Replica -> Seq(TrackUpdate)]
           /\ joined' \subseteq Replica
<1>1. batch' \in [Replica -> Seq(TrackUpdate)]
  BY DEF FinishFlush, TypeOK, FlushTypeOK
<1>2. CASE FinishHandle(r)
  <2>1. /\ queue[r] # <<>> /\ LeaveLock(r)
        /\ changed' = [changed EXCEPT ![r] = <<>>]
        /\ UNCHANGED <<tracks, mapped, clock, astray, strayed, leaving, joined>>
    BY <1>2 DEF FinishHandle, Holds
  <2>2. queue' \in [Replica -> Seq(Task)] /\ stage' \in [Replica -> Stage]
    BY <2>1, LockType DEF TypeOK
  <2>3. changed' \in [Replica -> Seq(TrackUpdate)]
    BY <2>1 DEF TypeOK, FlushTypeOK
  <2> QED
    BY <1>1, <2>1, <2>2, <2>3 DEF TypeOK, StateTypeOK, BrokerTypeOK, TaskTypeOK
<1>3. CASE FinishSweep(r)
  <2>1. CASE Departed(changed[r]) # {}
    BY <1>1, <1>3, <2>1
    DEF FinishSweep, TypeOK, TaskTypeOK, StateTypeOK, FlushTypeOK, BrokerTypeOK, Stage
  <2>2. CASE ~(Departed(changed[r]) # {})
    <3>1. /\ queue[r] # <<>> /\ LeaveLock(r) /\ ForgetPruned(r)
          /\ changed' = [changed EXCEPT ![r] = <<>>]
          /\ UNCHANGED <<leaving, joined>>
      BY <1>3, <2>2 DEF FinishSweep, Holds
    <3>2. queue' \in [Replica -> Seq(Task)] /\ stage' \in [Replica -> Stage]
      BY <3>1, LockType DEF TypeOK
    <3>3. /\ tracks' \in [Replica -> Tracks]
          /\ mapped' \in [Replica -> SUBSET Aircraft]
          /\ astray' \in [Replica -> SUBSET Aircraft] /\ strayed' \subseteq Aircraft
          /\ clock' \in [Replica -> Nat]
      BY <3>1, ForgetPrunedType DEF TypeOK
    <3>4. changed' \in [Replica -> Seq(TrackUpdate)]
      BY <3>1 DEF TypeOK, FlushTypeOK
    <3> QED
      BY <1>1, <3>1, <3>2, <3>3, <3>4 DEF TypeOK, StateTypeOK, BrokerTypeOK
  <2> QED
    BY <2>1, <2>2
<1>4. CASE FinishRelease(r)
  <2>1. /\ queue[r] # <<>> /\ LeaveLock(r) /\ Drop(r, leaving[r])
        /\ leaving' = [leaving EXCEPT ![r] = {}]
        /\ UNCHANGED <<changed, clock, astray, strayed>>
    BY <1>4 DEF FinishRelease, Holds
  <2>2. queue' \in [Replica -> Seq(Task)] /\ stage' \in [Replica -> Stage]
    BY <2>1, LockType DEF TypeOK
  <2>3. /\ tracks' \in [Replica -> Tracks]
        /\ mapped' \in [Replica -> SUBSET Aircraft]
        /\ joined' \subseteq Replica
    BY <2>1, DropType DEF TypeOK, BrokerTypeOK
  <2> QED
    BY <1>1, <2>1, <2>2, <2>3 DEF TypeOK, StateTypeOK, FlushTypeOK, TaskTypeOK
<1> QED
  BY <1>2, <1>3, <1>4 DEF FinishFlush

\* The consumer task's steps keep the types.
LEMMA ConsumeType ==
    ASSUME TypeInv, NEW r \in Replica, Consume(r)
    PROVE  ServiceTypeOK'
<1> USE DEF TypeInv, TypeOK, ServiceTypeOK
<1>1. ASSUME NEW p \in Partition, Receive(r, p) PROVE ServiceTypeOK'
  <2>1. FlushTypeOK' /\ StoreTypeOK' /\ EnvTypeOK'
    BY <1>1 DEF Receive, FlushTypeOK, StoreTypeOK, EnvTypeOK,
       flushVars, storeVars, envVars, ghostVars
  <2>2. log[p][position[p] + 1] \in Report
    BY <1>1 DEF Receive, HandOut, BrokerTypeOK
  <2>3. BrokerTypeOK'
    BY <1>1 DEF Receive, HandOut, BrokerTypeOK
  <2>4. StateTypeOK'
    BY <1>1, <2>2 DEF Receive, Note, StateTypeOK, Report, flushVars, ghostVars
  <2>5. TaskTypeOK'
    BY <1>1, <2>2, LockType DEF Receive, TaskTypeOK, Task
  <2> QED
    BY <2>1, <2>3, <2>4, <2>5
<1>2. ASSUME DiscardReport(r) PROVE ServiceTypeOK'
  <2>1. BrokerTypeOK' /\ StateTypeOK' /\ FlushTypeOK' /\ EnvTypeOK'
    BY <1>2 DEF DiscardReport, BrokerTypeOK, StateTypeOK, FlushTypeOK, EnvTypeOK,
       brokerVars, stateVars, flushVars, envVars
  <2>2. inflight[r] \in Report
    BY <1>2 DEF DiscardReport, Enters, Holds, Queued, TaskTypeOK, Range
  <2>3. TaskTypeOK'
    BY <1>2, LockType DEF DiscardReport, Enters, Holds, TaskTypeOK
  <2>4. StoreTypeOK'
    BY <1>2, <2>2 DEF DiscardReport, StoreTypeOK, storeVars
  <2> QED
    BY <2>1, <2>3, <2>4
<1>3. ASSUME HandleReport(r) PROVE ServiceTypeOK'
  <2> DEFINE folded == OnReport(tracks[r], inflight[r])
             update == ToUpdate(folded, inflight[r].ac, inflight[r].at)
  <2>1. BrokerTypeOK' /\ StoreTypeOK' /\ EnvTypeOK'
    BY <1>3 DEF HandleReport, BrokerTypeOK, StoreTypeOK, EnvTypeOK,
       brokerVars, storeVars, envVars, ghostVars
  <2>2. inflight[r] \in Report
    BY <1>3 DEF HandleReport, Enters, Holds, Queued, TaskTypeOK, Range
  <2>3. folded \in Tracks /\ folded[inflight[r].ac] \in TrackRecord
    BY <2>2, OnReportType DEF StateTypeOK
  <2>4. update \in TrackUpdate
    BY <2>2, <2>3 DEF ToUpdate, TrackUpdate, TrackRecord, Report
  <2>5. StateTypeOK'
    BY <1>3, <2>3 DEF HandleReport, StateTypeOK, ghostVars
  <2>6. TaskTypeOK'
    BY <1>3 DEF HandleReport, TaskTypeOK, Stage
  <2>7. FlushTypeOK'
    BY <1>3, <2>4 DEF HandleReport, FlushTypeOK
  <2> QED
    BY <2>1, <2>5, <2>6, <2>7
<1>4. ASSUME Commit(r) PROVE ServiceTypeOK'
  <2>1. StateTypeOK' /\ FlushTypeOK' /\ StoreTypeOK' /\ EnvTypeOK'
    BY <1>4 DEF Commit, StateTypeOK, FlushTypeOK, StoreTypeOK, EnvTypeOK,
       stateVars, flushVars, storeVars, envVars, ghostVars
  <2>2. BrokerTypeOK' /\ TaskTypeOK'
    BY <1>4 DEF Commit, BrokerTypeOK, TaskTypeOK
  <2> QED
    BY <2>1, <2>2
<1> QED
  BY <1>1, <1>2, <1>3, <1>4 DEF Consume

\* Buffering updates, with or without a flush, keeps the types.
LEMMA BufferChangedType ==
    ASSUME TypeOK, NEW r \in Replica, BufferChanged(r)
    PROVE  /\ queue' \in [Replica -> Seq(Task)]
           /\ stage' \in [Replica -> Stage]
           /\ pending' \in [Replica -> Seq(TrackUpdate)]
           /\ changed' \in [Replica -> Seq(TrackUpdate)]
           /\ batch' \in [Replica -> Seq(TrackUpdate)]
<1> USE DEF TypeOK, TaskTypeOK, FlushTypeOK
<1> DEFINE buffered == pending[r] \o changed[r]
<1>1. buffered \in Seq(TrackUpdate)
  <2>1. pending[r] \in Seq(TrackUpdate) /\ changed[r] \in Seq(TrackUpdate)
    OBVIOUS
  <2> QED
    BY <2>1
<1>2. CASE StartFlush(r, buffered) /\ UNCHANGED <<queue, changed>>
  BY <1>1, <1>2 DEF StartFlush, Stage
<1>3. CASE /\ Holds(r, "handle")
           /\ pending' = [pending EXCEPT ![r] = buffered]
           /\ changed' = [changed EXCEPT ![r] = <<>>]
           /\ LeaveLock(r)
           /\ UNCHANGED batch
  <2>1. queue' \in [Replica -> Seq(Task)] /\ stage' \in [Replica -> Stage]
    BY <1>3, LockType DEF Holds
  <2>2. pending' \in [Replica -> Seq(TrackUpdate)] /\ batch' \in [Replica -> Seq(TrackUpdate)]
    BY <1>1, <1>3
  <2>3. changed' \in [Replica -> Seq(TrackUpdate)]
    BY <1>3
  <2> QED
    BY <2>1, <2>2, <2>3
<1> QED
  BY <1>2, <1>3 DEF BufferChanged

\* What the lock's holder does after an await keeps the types.
LEMMA ProceedType ==
    ASSUME TypeInv, NEW r \in Replica, Proceed(r)
    PROVE  ServiceTypeOK'
<1> USE DEF TypeInv, TypeOK, ServiceTypeOK
<1>1. ASSUME Publish(r) PROVE ServiceTypeOK'
  <2>1. outbox[r] \in Seq(TrackUpdate) /\ outbox[r] # <<>>
    BY <1>1 DEF Publish, FlushTypeOK
  <2>2. Head(outbox[r]) \in TrackUpdate /\ Tail(outbox[r]) \in Seq(TrackUpdate)
    BY <2>1
  <2>3. BrokerTypeOK' /\ StateTypeOK' /\ EnvTypeOK'
    BY <1>1 DEF Publish, BrokerTypeOK, StateTypeOK, EnvTypeOK,
       brokerVars, stateVars, envVars, ghostVars
  <2>4. StoreTypeOK'
    BY <1>1, <2>2 DEF Publish, StoreTypeOK, ghostVars
  <2>5. outbox' \in [Replica -> Seq(TrackUpdate)]
    BY <1>1, <2>2 DEF Publish, FlushTypeOK
  <2>6. /\ queue' \in [Replica -> Seq(Task)]
        /\ stage' \in [Replica -> Stage]
        /\ pending' \in [Replica -> Seq(TrackUpdate)]
        /\ changed' \in [Replica -> Seq(TrackUpdate)]
        /\ batch' \in [Replica -> Seq(TrackUpdate)]
    <3>1. CASE Len(outbox[r]) = 1
      <4>1. BufferChanged(r)
        BY <1>1, <3>1 DEF Publish
      <4> QED
        BY <4>1, BufferChangedType
    <3>2. CASE Len(outbox[r]) # 1
      BY <1>1, <3>2 DEF Publish, TaskTypeOK, FlushTypeOK
    <3> QED
      BY <3>1, <3>2
  <2>7. inflight' = inflight /\ clock' = clock
    BY <1>1 DEF Publish
  <2> QED
    BY <2>3, <2>4, <2>5, <2>6, <2>7 DEF TaskTypeOK, FlushTypeOK
<1>2. ASSUME Record(r) PROVE ServiceTypeOK'
  <2>1. batch[r] \in Seq(TrackUpdate)
    BY DEF FlushTypeOK
  <2>2. StoreTypeOK'
    BY <1>2, <2>1, KeysType DEF Record, StoreTypeOK
  <2>3. EnvTypeOK'
    BY <1>2 DEF Record, EnvTypeOK, envVars
  <2>4. CASE Showable(r) # {}
    <3>1. BrokerTypeOK' /\ StateTypeOK' /\ FlushTypeOK'
      BY <1>2, <2>4 DEF Record, BrokerTypeOK, StateTypeOK, FlushTypeOK
    <3>2. TaskTypeOK'
      BY <1>2, <2>4 DEF Record, TaskTypeOK, Stage
    <3> QED
      BY <2>2, <2>3, <3>1, <3>2
  <2>5. CASE ~(Showable(r) # {})
    <3>1. FinishFlush(r)
      BY <1>2, <2>5 DEF Record
    <3>2. UNCHANGED <<log, committed, position, owner, group, revoked, pending, outbox, inflight>>
      BY <1>2 DEF Record
    <3> QED
      BY <2>2, <2>3, <3>1, <3>2, FinishFlushType
      DEF BrokerTypeOK, StateTypeOK, TaskTypeOK, FlushTypeOK
  <2> QED
    BY <2>4, <2>5
<1>3. ASSUME Show(r) PROVE ServiceTypeOK'
  <2>1. batch[r] \in Seq(TrackUpdate)
    BY DEF FlushTypeOK
  <2>2. \A a \in Aircraft : Written(live[a], batch[r], a) \in TrackUpdate \cup {NoUpdate}
    BY <2>1, WrittenType DEF StoreTypeOK
  <2>3. StoreTypeOK'
    BY <1>3, <2>2 DEF Show, StoreTypeOK
  <2>4. EnvTypeOK'
    BY <1>3 DEF Show, EnvTypeOK, envVars
  <2>5. /\ FinishFlush(r)
        /\ UNCHANGED <<log, committed, position, owner, group, revoked, pending, outbox, inflight>>
    BY <1>3 DEF Show
  <2> QED
    BY <2>3, <2>4, <2>5, FinishFlushType
    DEF BrokerTypeOK, StateTypeOK, TaskTypeOK, FlushTypeOK
<1>4. ASSUME ForgetTerminated(r) PROVE ServiceTypeOK'
  <2>1. BrokerTypeOK' /\ EnvTypeOK'
    BY <1>4 DEF ForgetTerminated, BrokerTypeOK, EnvTypeOK, brokerVars, envVars
  <2>2. StateTypeOK'
    <3>1. ForgetPruned(r)
      BY <1>4 DEF ForgetTerminated
    <3>2. UNCHANGED <<revoked, leaving>>
      BY <1>4 DEF ForgetTerminated
    <3> QED
      BY <3>1, <3>2, ForgetPrunedType DEF StateTypeOK
  <2>3. TaskTypeOK'
    BY <1>4, LockType, ForgetPrunedType DEF ForgetTerminated, Holds, TaskTypeOK
  <2>4. FlushTypeOK'
    BY <1>4 DEF ForgetTerminated, FlushTypeOK
  <2>5. StoreTypeOK'
    BY <1>4 DEF ForgetTerminated, StoreTypeOK
  <2> QED
    BY <2>1, <2>2, <2>3, <2>4, <2>5
<1> QED
  BY <1>1, <1>2, <1>3, <1>4 DEF Proceed

\* The sweeper's steps keep the types.
LEMMA SweepType ==
    ASSUME TypeInv, NEW r \in Replica, SweepStep(r)
    PROVE  ServiceTypeOK'
<1> USE DEF TypeInv, TypeOK, ServiceTypeOK
<1>1. ASSUME SweepTimer(r) PROVE ServiceTypeOK'
  <2>1. BrokerTypeOK' /\ StateTypeOK' /\ FlushTypeOK' /\ StoreTypeOK' /\ EnvTypeOK'
    BY <1>1 DEF SweepTimer, BrokerTypeOK, StateTypeOK, FlushTypeOK, StoreTypeOK, EnvTypeOK,
       brokerVars, stateVars, flushVars, storeVars, envVars, ghostVars
  <2>2. TaskTypeOK'
    BY <1>1, LockType DEF SweepTimer, TaskTypeOK, Task, EnvTypeOK
  <2> QED
    BY <2>1, <2>2
<1>2. ASSUME SweepNothing(r) PROVE ServiceTypeOK'
  <2>1. BrokerTypeOK' /\ FlushTypeOK' /\ StoreTypeOK' /\ EnvTypeOK'
    BY <1>2 DEF SweepNothing, BrokerTypeOK, FlushTypeOK, StoreTypeOK, EnvTypeOK,
       brokerVars, flushVars, storeVars, envVars
  <2>2. StateTypeOK'
    <3>1. /\ ForgetPruned(r)
          /\ UNCHANGED <<revoked, leaving>>
      BY <1>2 DEF SweepNothing, flushVars
    <3> QED
      BY <3>1, ForgetPrunedType DEF StateTypeOK
  <2>3. TaskTypeOK'
    BY <1>2, LockType, ForgetPrunedType DEF SweepNothing, Enters, Holds, TaskTypeOK
  <2> QED
    BY <2>1, <2>2, <2>3
<1>3. ASSUME SweepChanged(r) PROVE ServiceTypeOK'
  <2>1. BrokerTypeOK' /\ StoreTypeOK' /\ EnvTypeOK'
    BY <1>3 DEF SweepChanged, BrokerTypeOK, StoreTypeOK, EnvTypeOK,
       brokerVars, storeVars, envVars, ghostVars
  <2>2. tracks[r] \in Tracks /\ clock[r] \in Nat
    BY DEF StateTypeOK, TaskTypeOK
  <2>3. Swept(tracks[r], clock[r]) \in Tracks
    BY <2>2, SweptType
  <2>4. StateTypeOK'
    BY <1>3, <2>3 DEF SweepChanged, StateTypeOK, ghostVars
  <2>5. TaskTypeOK'
    BY <1>3 DEF SweepChanged, TaskTypeOK, Stage
  <2>6. FlushTypeOK'
    <3>1. PICK order \in SetToSeqs(Changing(tracks[r], clock[r])) :
             LET updates == [i \in DOMAIN order |->
                                ToUpdate(Swept(tracks[r], clock[r]), order[i], clock[r])]
             IN  /\ outbox' = [outbox EXCEPT ![r] = updates]
                 /\ changed' = [changed EXCEPT ![r] = updates]
      BY <1>3 DEF SweepChanged
    <3>2. [i \in DOMAIN order |-> ToUpdate(Swept(tracks[r], clock[r]), order[i], clock[r])]
             \in Seq(TrackUpdate)
      BY <2>2, SweepUpdatesType
    <3>3. UNCHANGED <<pending, batch>>
      BY <1>3 DEF SweepChanged
    <3> HIDE DEF TypeInv, TypeOK
    <3>4. FlushTypeOK
      BY DEF TypeInv, TypeOK
    <3> QED
      BY <3>1, <3>2, <3>3, <3>4 DEF FlushTypeOK
  <2> QED
    BY <2>1, <2>4, <2>5, <2>6
<1> QED
  BY <1>1, <1>2, <1>3 DEF SweepStep

\* The rebalance callbacks keep the types.
LEMMA RebalanceType ==
    ASSUME TypeInv, NEW r \in Replica, RebalanceStep(r)
    PROVE  ServiceTypeOK'
<1> USE DEF TypeInv, TypeOK, ServiceTypeOK
<1>1. ASSUME Rejoin(r) PROVE ServiceTypeOK'
  <2>1. StateTypeOK' /\ FlushTypeOK' /\ StoreTypeOK' /\ EnvTypeOK'
    BY <1>1 DEF Rejoin, StateTypeOK, FlushTypeOK, StoreTypeOK, EnvTypeOK,
       stateVars, flushVars, storeVars, envVars, ghostVars
  <2>2. BrokerTypeOK'
    BY <1>1 DEF Rejoin, BrokerTypeOK
  <2>3. TaskTypeOK'
    BY <1>1, LockType DEF Rejoin, TaskTypeOK, Task
  <2> QED
    BY <2>1, <2>2, <2>3
<1>2. ASSUME ReleasePartitions(r) PROVE ServiceTypeOK'
  <2> DEFINE addresses == {a \in mapped[r] : PartitionFor[a] \in Owned(r)}
  <2>1. StoreTypeOK' /\ EnvTypeOK'
    BY <1>2 DEF ReleasePartitions, StoreTypeOK, EnvTypeOK, storeVars, envVars, ghostVars
  <2>2. addresses \subseteq Aircraft /\ Owned(r) \subseteq Partition
    BY DEF StateTypeOK, Owned
  <2>3. revoked' \in [Replica -> SUBSET Partition]
    BY <1>2, <2>2 DEF ReleasePartitions, Revoke, StateTypeOK
  <2>4. /\ queue[r] # <<>>
        /\ UNCHANGED <<log, committed, position, owner, group, outbox, changed, inflight, clock>>
        /\ UNCHANGED <<astray, strayed>>
    BY <1>2 DEF ReleasePartitions, Enters, Holds, ghostVars
  <2>5. CASE pending[r] = <<>>
    <3>1. LeaveLock(r) /\ Drop(r, addresses) /\ UNCHANGED <<pending, batch, leaving>>
      BY <1>2, <2>5 DEF ReleasePartitions
    <3>2. queue' \in [Replica -> Seq(Task)] /\ stage' \in [Replica -> Stage]
      BY <2>4, <3>1, LockType
    <3>3. /\ tracks' \in [Replica -> Tracks]
          /\ mapped' \in [Replica -> SUBSET Aircraft]
          /\ joined' \subseteq Replica
      BY <3>1, DropType DEF BrokerTypeOK
    <3> QED
      BY <2>1, <2>3, <2>4, <3>1, <3>2, <3>3
      DEF BrokerTypeOK, StateTypeOK, TaskTypeOK, FlushTypeOK
  <2>6. CASE pending[r] # <<>>
    <3>1. /\ StartFlush(r, pending[r])
          /\ leaving' = [leaving EXCEPT ![r] = addresses]
          /\ UNCHANGED <<queue, tracks, mapped, joined>>
      BY <1>2, <2>6 DEF ReleasePartitions
    <3>2. TaskTypeOK'
      BY <2>4, <3>1 DEF StartFlush, TaskTypeOK, Stage
    <3>3. FlushTypeOK'
      BY <2>4, <3>1 DEF StartFlush, FlushTypeOK
    <3>4. StateTypeOK'
      BY <2>2, <2>3, <2>4, <3>1 DEF StateTypeOK
    <3>5. BrokerTypeOK'
      BY <2>4, <3>1 DEF BrokerTypeOK
    <3> QED
      BY <2>1, <3>2, <3>3, <3>4, <3>5
  <2> QED
    BY <2>5, <2>6
<1>3. ASSUME Learn(r) PROVE ServiceTypeOK'
  <2>1. StateTypeOK' /\ FlushTypeOK' /\ StoreTypeOK' /\ EnvTypeOK'
    BY <1>3 DEF Learn, StateTypeOK, FlushTypeOK, StoreTypeOK, EnvTypeOK,
       stateVars, flushVars, storeVars, envVars, ghostVars
  <2>2. BrokerTypeOK'
    BY <1>3 DEF Learn, BrokerTypeOK
  <2>3. TaskTypeOK'
    BY <1>3, LockType DEF Learn, TaskTypeOK, Task
  <2> QED
    BY <2>1, <2>2, <2>3
<1>4. ASSUME ClaimPartitions(r) PROVE ServiceTypeOK'
  <2>1. BrokerTypeOK' /\ FlushTypeOK' /\ StoreTypeOK' /\ EnvTypeOK'
    BY <1>4 DEF ClaimPartitions, BrokerTypeOK, FlushTypeOK, StoreTypeOK, EnvTypeOK,
       brokerVars, flushVars, storeVars, envVars, ghostVars
  <2>2. StateTypeOK'
    BY <1>4 DEF ClaimPartitions, Reclaim, StateTypeOK, flushVars, ghostVars
  <2>3. TaskTypeOK'
    BY <1>4, LockType DEF ClaimPartitions, Enters, Holds, TaskTypeOK
  <2> QED
    BY <2>1, <2>2, <2>3
<1> QED
  BY <1>1, <1>2, <1>3, <1>4 DEF RebalanceStep

\* The broker and the clock.
LEMMA EnvironmentType ==
    ASSUME TypeInv,
           Tick \/ StartRebalance \/ AssignAny \/ \E a \in Aircraft : Produce(a)
    PROVE  ServiceTypeOK'
<1> USE DEF TypeInv, TypeOK, ServiceTypeOK
<1>1. ASSUME Tick PROVE ServiceTypeOK'
  BY <1>1 DEF Tick, BrokerTypeOK, StateTypeOK, TaskTypeOK, FlushTypeOK, StoreTypeOK, EnvTypeOK,
     brokerVars, stateVars, taskVars, flushVars, storeVars, ghostVars
<1>2. ASSUME StartRebalance PROVE ServiceTypeOK'
  BY <1>2 DEF StartRebalance, BrokerTypeOK, StateTypeOK, TaskTypeOK, FlushTypeOK, StoreTypeOK,
     EnvTypeOK, stateVars, taskVars, flushVars, storeVars, ghostVars
<1>3. ASSUME NEW newOwner \in [Partition -> Members], Assign(newOwner) PROVE ServiceTypeOK'
  <2>1. newOwner \in [Partition -> Replica \cup {NoReplica}]
    BY DEF Members
  <2>2. BrokerTypeOK'
    BY <1>3, <2>1 DEF Assign, BrokerTypeOK
  <2>3. /\ StateTypeOK' /\ TaskTypeOK' /\ FlushTypeOK' /\ StoreTypeOK' /\ EnvTypeOK'
    BY <1>3 DEF Assign, StateTypeOK, TaskTypeOK, FlushTypeOK, StoreTypeOK, EnvTypeOK,
       stateVars, taskVars, flushVars, storeVars, envVars, ghostVars
  <2> QED
    BY <2>2, <2>3
<1>4. ASSUME NEW a \in Aircraft, Produce(a) PROVE ServiceTypeOK'
  <2> DEFINE report == [ac |-> a, at |-> now]
             p == PartitionFor[a]
  <2>1. report \in Report /\ p \in Partition
    BY ServiceAssumption DEF Report, EnvTypeOK
  <2>2. Append(log[p], report) \in Seq(Report)
    BY <2>1 DEF BrokerTypeOK
  <2>3. BrokerTypeOK'
    BY <1>4, <2>1, <2>2 DEF Produce, BrokerTypeOK
  <2>4. /\ StateTypeOK' /\ TaskTypeOK' /\ FlushTypeOK' /\ StoreTypeOK' /\ EnvTypeOK'
    BY <1>4 DEF Produce, StateTypeOK, TaskTypeOK, FlushTypeOK, StoreTypeOK, EnvTypeOK,
       stateVars, taskVars, flushVars, storeVars, envVars, ghostVars
  <2> QED
    BY <2>3, <2>4
<1> QED
  BY <1>1, <1>2, <1>3, <1>4 DEF AssignAny

\* A replica that forgets everything and leaves the group keeps the types.
LEMMA DepartType ==
    ASSUME TypeOK, NEW r \in Replica, Depart(r)
    PROVE  BrokerTypeOK' /\ StateTypeOK' /\ TaskTypeOK' /\ FlushTypeOK' /\ CloseTypeOK'
<1> USE DEF TypeOK
<1>1. Wipe(r)
  BY DEF Depart
<1>2. BrokerTypeOK'
  BY DEF Depart, BrokerTypeOK
<1>3. StateTypeOK'
  BY <1>1 DEF Wipe, StateTypeOK, Tracks
<1>4. TaskTypeOK'
  <2>1. stage' \in [Replica -> Stage]
    BY DEF Depart, TaskTypeOK, Stage
  <2>2. queue' \in [Replica -> Seq(Task)]
    BY <1>1 DEF Wipe, TaskTypeOK
  <2>3. inflight' \in [Replica -> Report \cup {NoReport}]
    BY <1>1 DEF Wipe, TaskTypeOK
  <2>4. clock' \in [Replica -> Nat]
    BY <1>1 DEF Wipe, TaskTypeOK
  <2> QED
    BY <2>1, <2>2, <2>3, <2>4 DEF TaskTypeOK
<1>5. FlushTypeOK'
  <2>1. pending' \in [Replica -> Seq(TrackUpdate)] /\ outbox' \in [Replica -> Seq(TrackUpdate)]
    BY <1>1 DEF Wipe, FlushTypeOK
  <2>2. changed' \in [Replica -> Seq(TrackUpdate)] /\ batch' \in [Replica -> Seq(TrackUpdate)]
    BY <1>1 DEF Wipe, FlushTypeOK
  <2> QED
    BY <2>1, <2>2 DEF FlushTypeOK
<1>6. CloseTypeOK'
  <2>1. closing' \in [Replica -> Closing]
    BY DEF Depart, CloseTypeOK, Closing
  <2>2. rest' \in [Replica -> Seq(TrackUpdate)] /\ overwritten' \subseteq Aircraft
    BY <1>1 DEF Wipe, CloseTypeOK
  <2> QED
    BY <2>1, <2>2 DEF CloseTypeOK
<1> QED
  BY <1>2, <1>3, <1>4, <1>5, <1>6

\* What has not been recorded is a set of reports.
LEMMA UnrecordedType ==
    ASSUME TypeOK, NEW r \in Replica
    PROVE  /\ Unrecorded(r) \subseteq Report /\ Unsaved(r) \subseteq Report
           /\ Keys(pending[r]) \subseteq Report /\ Keys(rest[r]) \subseteq Report
<1>1. /\ batch[r] \in Seq(TrackUpdate) /\ changed[r] \in Seq(TrackUpdate)
      /\ pending[r] \in Seq(TrackUpdate) /\ rest[r] \in Seq(TrackUpdate)
  BY DEF TypeOK, FlushTypeOK, CloseTypeOK
<1> QED
  BY <1>1, KeysType DEF Unrecorded, Unsaved

\* Leaving run() keeps the types.
LEMMA ExitType ==
    ASSUME TypeOK, NEW r \in Replica, Exit(r)
    PROVE  /\ BrokerTypeOK' /\ StateTypeOK' /\ TaskTypeOK' /\ FlushTypeOK' /\ StoreTypeOK'
           /\ CloseTypeOK'
<1> USE DEF TypeOK
<1>1. BrokerTypeOK'
  BY DEF Exit, brokerVars, BrokerTypeOK
<1>2. StateTypeOK'
  BY DEF Exit, stateVars, StateTypeOK
<1>3. TaskTypeOK'
  <2>1. Callbacks(r) \in Seq(Task)
    <3>1. Callbacks(r) \in {<<"release">>, <<"claim">>, <<>>}
      BY DEF Callbacks
    <3>2. "release" \in Task /\ "claim" \in Task
      BY DEF Task
    <3>3. <<"release">> \in Seq(Task) /\ <<"claim">> \in Seq(Task) /\ <<>> \in Seq(Task)
      BY <3>2
    <3> QED
      BY <3>1, <3>3
  <2>2. stage' \in [Replica -> Stage]
    BY DEF Exit, TaskTypeOK, Stage
  <2>3. inflight' \in [Replica -> Report \cup {NoReport}]
    BY DEF Exit, TaskTypeOK
  <2> QED
    BY <2>1, <2>2, <2>3 DEF Exit, TaskTypeOK
<1>4. FlushTypeOK'
  <2>1. pending' \in [Replica -> Seq(TrackUpdate)] /\ outbox' \in [Replica -> Seq(TrackUpdate)]
    BY DEF Exit, FlushTypeOK
  <2>2. changed' \in [Replica -> Seq(TrackUpdate)] /\ batch' \in [Replica -> Seq(TrackUpdate)]
    BY DEF Exit, FlushTypeOK
  <2> QED
    BY <2>1, <2>2 DEF FlushTypeOK
<1>5. StoreTypeOK'
  BY UnrecordedType DEF Exit, StoreTypeOK, storeVars
<1>6. CloseTypeOK'
  <2>1. pending[r] \in Seq(TrackUpdate)
    BY DEF FlushTypeOK
  <2>2. rest' \in [Replica -> Seq(TrackUpdate)]
    BY <2>1 DEF Exit, CloseTypeOK
  <2>3. closing' \in [Replica -> Closing]
    BY DEF Exit, CloseTypeOK, Closing
  <2> QED
    BY <2>2, <2>3 DEF Exit, CloseTypeOK
<1> QED
  BY <1>1, <1>2, <1>3, <1>4, <1>5, <1>6

\* The last flush keeps the types.
LEMMA CloseType ==
    ASSUME TypeInv, NEW r \in Replica, Close(r) \/ Start(r)
    PROVE  TypeOK'
<1> USE DEF TypeInv, TypeOK
<1>1. ASSUME LastRecord(r) PROVE TypeOK'
  <2>1. /\ BrokerTypeOK' /\ StateTypeOK' /\ TaskTypeOK' /\ FlushTypeOK' /\ EnvTypeOK'
    BY <1>1 DEF LastRecord, BrokerTypeOK, StateTypeOK, TaskTypeOK, FlushTypeOK, EnvTypeOK,
       brokerVars, stateVars, taskVars, flushVars, envVars, ghostVars
  <2>2. CloseTypeOK'
    BY <1>1 DEF LastRecord, CloseTypeOK, Closing
  <2>3. StoreTypeOK'
    BY <1>1, UnrecordedType DEF LastRecord, StoreTypeOK, ghostVars
  <2> QED
    BY <2>1, <2>2, <2>3
<1>2. ASSUME LastShow(r) PROVE TypeOK'
  <2>1. rest[r] \in Seq(TrackUpdate)
    BY DEF CloseTypeOK
  <2>2. \A a \in Aircraft : Written(live[a], rest[r], a) \in TrackUpdate \cup {NoUpdate}
    BY <2>1, WrittenType DEF StoreTypeOK
  <2>3. StoreTypeOK'
    BY <1>2, <2>2 DEF LastShow, StoreTypeOK, ghostVars
  <2>4. BrokerTypeOK' /\ StateTypeOK' /\ TaskTypeOK' /\ FlushTypeOK' /\ EnvTypeOK'
    BY <1>2 DEF LastShow, BrokerTypeOK, StateTypeOK, TaskTypeOK, FlushTypeOK, EnvTypeOK,
       brokerVars, stateVars, taskVars, flushVars, envVars, ghostVars
  <2>5. CloseTypeOK'
    <3>1. Keys(rest[r]) \subseteq Report
      BY UnrecordedType
    <3>2. {key.ac : key \in Keys(rest[r])} \subseteq Aircraft
      BY <3>1 DEF Report
    <3>3. closing' \in [Replica -> Closing] /\ rest' \in [Replica -> Seq(TrackUpdate)]
      BY <1>2 DEF LastShow, CloseTypeOK, Closing
    <3> QED
      BY <1>2, <3>2, <3>3 DEF LastShow, CloseTypeOK
  <2> QED
    BY <2>3, <2>4, <2>5
<1>3. ASSUME Leave(r) PROVE TypeOK'
  <2>1. StoreTypeOK' /\ EnvTypeOK'
    BY <1>3 DEF Leave, Depart, StoreTypeOK, EnvTypeOK, storeVars, envVars
  <2> QED
    BY <1>3, <2>1, DepartType DEF Leave
<1>4. ASSUME Start(r) PROVE TypeOK'
  <2>1. BrokerTypeOK' /\ StateTypeOK' /\ FlushTypeOK' /\ StoreTypeOK' /\ EnvTypeOK'
    BY <1>4 DEF Start, BrokerTypeOK, StateTypeOK, FlushTypeOK, StoreTypeOK, EnvTypeOK,
       brokerVars, stateVars, flushVars, storeVars, envVars, ghostVars
  <2>2. TaskTypeOK' /\ CloseTypeOK'
    BY <1>4 DEF Start, TaskTypeOK, Stage, CloseTypeOK, closeVars
  <2> QED
    BY <2>1, <2>2
<1> QED
  BY <1>1, <1>2, <1>3, <1>4 DEF Close

\* A failed operation keeps the types.
LEMMA FailType ==
    ASSUME TypeInv, NEW r \in Replica, Stop(r) \/ Crash(r) \/ Fail(r)
    PROVE  TypeOK'
<1> USE DEF TypeInv, TypeOK
<1>1. ASSUME Fault PROVE EnvTypeOK'
  BY <1>1 DEF Fault, EnvTypeOK
<1>2. ASSUME Stop(r) PROVE TypeOK'
  <2>1. Exit(r) /\ EnvTypeOK'
    BY <1>2 DEF Stop, EnvTypeOK
  <2> QED
    BY <2>1, ExitType
<1>3. ASSUME Crash(r) PROVE TypeOK'
  <2>1. /\ Depart(r)
        /\ lost' = lost \cup Unrecorded(r) \cup Unsaved(r) \cup Keys(pending[r])
    BY <1>3 DEF Crash
  <2>2. EnvTypeOK'
    BY <1>3 DEF Crash, EnvTypeOK
  <2>3. StoreTypeOK'
    BY <2>1, UnrecordedType DEF Depart, StoreTypeOK, storeVars
  <2> QED
    BY <2>1, <2>2, <2>3, DepartType
<1>4. ASSUME HandlerFails(r) \/ CommitFails(r) PROVE TypeOK'
  <2>1. Exit(r) /\ EnvTypeOK'
    BY <1>1, <1>4 DEF HandlerFails, CommitFails
  <2> QED
    BY <2>1, ExitType
<1>5. ASSUME SweepFails(r) PROVE TypeOK'
  <2>1. BrokerTypeOK' /\ StateTypeOK' /\ EnvTypeOK' /\ CloseTypeOK'
    BY <1>1, <1>5 DEF SweepFails, BrokerTypeOK, StateTypeOK, CloseTypeOK, brokerVars, stateVars,
       closeVars
  <2>2. TaskTypeOK'
    BY <1>5, LockType DEF SweepFails, Holds, TaskTypeOK
  <2>3. outbox' \in [Replica -> Seq(TrackUpdate)]
    BY <1>5 DEF SweepFails, FlushTypeOK
  <2>4. changed' \in [Replica -> Seq(TrackUpdate)]
    BY <1>5 DEF SweepFails, FlushTypeOK
  <2>5. batch' \in [Replica -> Seq(TrackUpdate)]
    BY <1>5 DEF SweepFails, FlushTypeOK
  <2>6. FlushTypeOK'
    BY <1>5, <2>3, <2>4, <2>5 DEF SweepFails, FlushTypeOK
  <2>7. StoreTypeOK'
    BY <1>5, UnrecordedType DEF SweepFails, StoreTypeOK, storeVars
  <2> QED
    BY <2>1, <2>2, <2>6, <2>7
<1>6. ASSUME ReleaseFails(r) PROVE TypeOK'
  <2>1. EnvTypeOK' /\ CloseTypeOK'
    BY <1>1, <1>6 DEF ReleaseFails, CloseTypeOK, closeVars
  <2>2. BrokerTypeOK'
    BY <1>6 DEF ReleaseFails, BrokerTypeOK
  <2>3. StateTypeOK'
    BY <1>6 DEF ReleaseFails, Stray, StateTypeOK, stateVars
  <2>4. TaskTypeOK'
    BY <1>6, LockType DEF ReleaseFails, Holds, TaskTypeOK
  <2>5. FlushTypeOK'
    BY <1>6 DEF ReleaseFails, FlushTypeOK
  <2>6. StoreTypeOK'
    BY <1>6, UnrecordedType DEF ReleaseFails, StoreTypeOK, storeVars
  <2> QED
    BY <2>1, <2>2, <2>3, <2>4, <2>5, <2>6
<1>7. ASSUME LastFlushFails(r) PROVE TypeOK'
  <2>1. BrokerTypeOK' /\ StateTypeOK' /\ TaskTypeOK' /\ FlushTypeOK'
    BY <1>7 DEF LastFlushFails, BrokerTypeOK, StateTypeOK, TaskTypeOK, FlushTypeOK,
       brokerVars, stateVars, taskVars, flushVars
  <2>2. CloseTypeOK'
    BY <1>7 DEF LastFlushFails, CloseTypeOK, Closing
  <2>3. StoreTypeOK'
    BY <1>7, UnrecordedType DEF LastFlushFails, StoreTypeOK, storeVars
  <2>4. EnvTypeOK'
    BY <1>1, <1>7 DEF LastFlushFails
  <2> QED
    BY <2>1, <2>2, <2>3, <2>4
<1> QED
  BY <1>2, <1>3, <1>4, <1>5, <1>6, <1>7 DEF Fail

\* Only the end of run() touches what belongs to it.
LEMMA ServiceKeepsClose ==
    ASSUME NEW r \in Replica,
           \/ Tick \/ StartRebalance \/ AssignAny \/ \E a \in Aircraft : Produce(a)
           \/ Consume(r) \/ Proceed(r) \/ SweepStep(r) \/ RebalanceStep(r) \/ Start(r)
           \/ SweepFails(r) \/ ReleaseFails(r)
    PROVE  UNCHANGED closeVars
<1>1. CASE Tick \/ StartRebalance \/ AssignAny \/ \E a \in Aircraft : Produce(a)
  BY <1>1 DEF Tick, StartRebalance, AssignAny, Assign, Produce
<1>2. CASE Consume(r)
  BY <1>2 DEF Consume, Receive, DiscardReport, HandleReport, Commit
<1>3. CASE Proceed(r)
  BY <1>3 DEF Proceed, Publish, Record, Show, ForgetTerminated
<1>4. CASE SweepStep(r) \/ RebalanceStep(r)
  BY <1>4 DEF SweepStep, SweepTimer, SweepNothing, SweepChanged, RebalanceStep, Rejoin,
     ReleasePartitions, Learn, ClaimPartitions
<1>5. CASE Start(r) \/ SweepFails(r) \/ ReleaseFails(r)
  BY <1>5 DEF Start, SweepFails, ReleaseFails
<1> QED
  BY <1>1, <1>2, <1>3, <1>4, <1>5

\* Every step keeps the types.
LEMMA TypeStep ==
    ASSUME TypeInv, [Next]_vars
    PROVE  TypeOK'
<1>1. CASE UNCHANGED vars
  BY <1>1 DEF TypeInv, TypeOK, BrokerTypeOK, StateTypeOK, TaskTypeOK, FlushTypeOK, StoreTypeOK,
     CloseTypeOK, EnvTypeOK, vars, brokerVars, stateVars, taskVars, flushVars, closeVars, storeVars,
     envVars, ghostVars
<1>2. CASE Tick \/ StartRebalance \/ AssignAny \/ \E a \in Aircraft : Produce(a)
  <2>1. UNCHANGED closeVars
    BY <1>2 DEF Tick, StartRebalance, AssignAny, Assign, Produce
  <2>2. ServiceTypeOK'
    BY <1>2, EnvironmentType
  <2> QED
    BY <2>1, <2>2 DEF TypeInv, TypeOK, ServiceTypeOK, CloseTypeOK, closeVars
<1>3. ASSUME NEW r \in Replica, Consume(r) \/ Proceed(r) \/ SweepStep(r) \/ RebalanceStep(r)
      PROVE  TypeOK'
  <2>1. UNCHANGED closeVars
    BY <1>3, ServiceKeepsClose
  <2>2. ServiceTypeOK'
    BY <1>3, ConsumeType, ProceedType, SweepType, RebalanceType
  <2> QED
    BY <2>1, <2>2 DEF TypeInv, TypeOK, ServiceTypeOK, CloseTypeOK, closeVars
<1>4. ASSUME NEW r \in Replica, Close(r) \/ Stop(r) \/ Crash(r) \/ Start(r) \/ Fail(r)
      PROVE  TypeOK'
  BY <1>4, CloseType, FailType
<1> QED
  BY <1>1, <1>2, <1>3, <1>4 DEF Next

\* The initial state is well typed.
LEMMA TypeInit ==
    ASSUME Init
    PROVE  TypeOK
<1> USE DEF Init, TypeOK
<1>1. BrokerTypeOK
  <2>1. stage \in [Replica -> {"down", "idle"}] /\ owner \in [Partition -> Replica]
    OBVIOUS
  <2> QED
    BY <2>1 DEF BrokerTypeOK
<1>2. StateTypeOK
  BY DEF StateTypeOK, Tracks
<1>3. TaskTypeOK
  BY DEF TaskTypeOK, Stage
<1>4. FlushTypeOK
  BY DEF FlushTypeOK
<1>5. StoreTypeOK /\ EnvTypeOK /\ CloseTypeOK
  BY DEF StoreTypeOK, EnvTypeOK, CloseTypeOK, Closing
<1> QED
  BY <1>1, <1>2, <1>3, <1>4, <1>5

-----------------------------------------------------------------------------
(* Ownership.  OwnershipInv is inductive, together with the types and with  *)
(* the placement of reports: OwnershipOf is preserved for the replica that  *)
(* acts, and the others see nothing of it.                                  *)

\* The broker keeps an aircraft's reports in one partition.
WellPlaced == \A p \in Partition : \A i \in DOMAIN log[p] : PartitionFor[log[p][i].ac] = p

Inv == TypeOK /\ WellPlaced /\ OwnershipInv

\* The inductive invariant gives the typing the lemmas above are stated for.
LEMMA InvTypeInv ==
    ASSUME Inv
    PROVE  TypeInv
BY DEF Inv, OwnershipInv, OwnershipOf, WaitingIsOwned, TypeInv

\* Reports stay in the partition the broker placed them in.
LEMMA WellPlacedStep ==
    ASSUME Inv, [Next]_vars
    PROVE  WellPlaced'
<1>1. CASE UNCHANGED log
  BY <1>1 DEF Inv, WellPlaced
<1>2. ASSUME NEW a \in Aircraft, Produce(a) PROVE WellPlaced'
  <2> DEFINE report == [ac |-> a, at |-> now]
             q == PartitionFor[a]
  <2>1. /\ log \in [Partition -> Seq(Report)] /\ q \in Partition /\ report \in Report
        /\ log' = [log EXCEPT ![q] = Append(@, report)]
    BY <1>2, ServiceAssumption DEF Produce, Inv, TypeOK, BrokerTypeOK, EnvTypeOK, Report
  <2>2. ASSUME NEW p \in Partition, NEW i \in DOMAIN log'[p]
        PROVE  PartitionFor[log'[p][i].ac] = p
    <3>1. CASE p # q
      BY <2>1, <2>2, <3>1 DEF Inv, WellPlaced
    <3>2. CASE p = q
      <4>1. log[q] \in Seq(Report) /\ log'[q] = Append(log[q], report)
        BY <2>1
      <4>2. CASE i \in DOMAIN log[q]
        <5>1. log'[q][i] = log[q][i]
          BY <4>1, <4>2
        <5> QED
          BY <2>1, <3>2, <4>2, <5>1 DEF Inv, WellPlaced
      <4>3. CASE i \notin DOMAIN log[q]
        <5>1. log'[q][i] = report
          BY <2>1, <2>2, <3>2, <4>1, <4>3
        <5> QED
          BY <3>2, <5>1
      <4> QED
        BY <4>2, <4>3
    <3> QED
      BY <3>1, <3>2
  <2> QED
    BY <2>2 DEF WellPlaced
<1>3. ASSUME Next, ~ \E a \in Aircraft : Produce(a) PROVE UNCHANGED log
  <2> USE DEF brokerVars
  <2>1. ASSUME Tick \/ StartRebalance \/ AssignAny PROVE UNCHANGED log
    BY <2>1 DEF Tick, StartRebalance, AssignAny, Assign
  <2>2. ASSUME NEW r \in Replica, Consume(r) PROVE UNCHANGED log
    BY <2>2 DEF Consume, Receive, DiscardReport, HandleReport, Commit
  <2>3. ASSUME NEW r \in Replica, Proceed(r) PROVE UNCHANGED log
    BY <2>3 DEF Proceed, Publish, Record, Show, ForgetTerminated
  <2>4. ASSUME NEW r \in Replica, SweepStep(r) PROVE UNCHANGED log
    BY <2>4 DEF SweepStep, SweepTimer, SweepNothing, SweepChanged
  <2>5. ASSUME NEW r \in Replica, RebalanceStep(r) PROVE UNCHANGED log
    BY <2>5 DEF RebalanceStep, Rejoin, ReleasePartitions, Learn, ClaimPartitions
  <2>6. ASSUME NEW r \in Replica, Close(r) \/ Start(r) PROVE UNCHANGED log
    BY <2>6 DEF Close, LastRecord, LastShow, Leave, Depart, Start
  <2>7. ASSUME NEW r \in Replica, Stop(r) \/ Crash(r) \/ Fail(r) PROVE UNCHANGED log
    BY <2>7 DEF Stop, Crash, Depart, Fail, HandlerFails, SweepFails, ReleaseFails, CommitFails,
       LastFlushFails, Exit
  <2> QED
    BY <1>3, <2>1, <2>2, <2>3, <2>4, <2>5, <2>6, <2>7 DEF Next
<1> QED
  BY <1>1, <1>2, <1>3 DEF vars, brokerVars

\* Everything OwnershipOf(q) reads, except the broker's owner and joined.
Local(q) == <<queue[q], stage[q], leaving[q], tracks[q], mapped[q], astray[q], revoked[q],
              inflight[q]>>

Untouched(q) ==
    /\ Local(q)' = Local(q)
    /\ \A p \in Partition : owner'[p] = q <=> owner[p] = q
    /\ q \in joined' <=> q \in joined

\* A step that leaves a replica untouched leaves its part of the invariant true.
LEMMA UntouchedKeeps ==
    ASSUME TypeOK, NEW q \in Replica, OwnershipOf(q), Untouched(q)
    PROVE  OwnershipOf(q)'
<1>1. /\ queue'[q] = queue[q] /\ stage'[q] = stage[q] /\ leaving'[q] = leaving[q]
      /\ tracks'[q] = tracks[q] /\ mapped'[q] = mapped[q] /\ astray'[q] = astray[q]
      /\ revoked'[q] = revoked[q] /\ inflight'[q] = inflight[q]
  BY DEF Untouched, Local
<1>2. \A p \in Partition : owner'[p] = q <=> owner[p] = q
  BY DEF Untouched
<1>3. q \in joined' <=> q \in joined
  BY DEF Untouched
<1>4. Owned(q)' = Owned(q)
  BY <1>2 DEF Owned
<1>5. Held(q)' = Held(q)
  BY <1>1 DEF Held
<1>6. \A a \in Aircraft : PartitionFor[a] \in Partition
  BY ServiceAssumption
<1>7. WellQueued(queue[q])' /\ NothingOutside(q)'
  BY <1>1 DEF OwnershipOf, NothingOutside, Running
<1>8. HeldIsOwned(q)'
  BY <1>1, <1>2, <1>5, <1>6 DEF OwnershipOf, HeldIsOwned, Held
<1>9. RejoinedIsEmpty(q)'
  BY <1>1, <1>3, <1>5 DEF OwnershipOf, RejoinedIsEmpty, Queued
<1>10. WaitingIsOwned(q)'
  <2>1. inflight[q] # NoReport => inflight[q].ac \in Aircraft
    BY DEF TypeOK, TaskTypeOK, Report
  <2> QED
    BY <1>1, <1>2, <1>3, <1>6, <2>1 DEF OwnershipOf, WaitingIsOwned, Queued
<1>11. ReleaseIsWhole(q)'
  BY <1>1, <1>4 DEF OwnershipOf, ReleaseIsWhole, Queued, Holds, Awaiting
<1> QED
  BY <1>7, <1>8, <1>9, <1>10, <1>11 DEF OwnershipOf

\* The holder leaves: it is out of the queue, and the replica awaits nothing.
LEMMA LeaveKeeps ==
    ASSUME TypeOK, NEW r \in Replica, WellQueued(queue[r]), queue[r] # <<>>, LeaveLock(r)
    PROVE  /\ WellQueued(queue[r])'
           /\ \A t : Queued(r, t)' <=> Queued(r, t) /\ ~Holds(r, t)
           /\ Running(r)' /\ ~Awaiting(r)'
           /\ \A q \in Replica : q # r => queue'[q] = queue[q] /\ stage'[q] = stage[q]
<1>1. queue \in [Replica -> Seq(Task)] /\ stage \in [Replica -> Stage]
  BY DEF TypeOK, TaskTypeOK
<1>2. /\ queue' = [queue EXCEPT ![r] = Tail(@)]
      /\ stage'[r] \in {"entered", "idle"}
      /\ \A q \in Replica : q # r => stage'[q] = stage[q]
  BY <1>1 DEF LeaveLock
<1>3. queue'[r] = Tail(queue[r]) /\ \A q \in Replica : q # r => queue'[q] = queue[q]
  BY <1>1, <1>2
<1>4. WellQueued(Tail(queue[r])) /\ Range(Tail(queue[r])) = Range(queue[r]) \ {Head(queue[r])}
  BY <1>1, TailTask
<1>5. Running(r)' /\ ~Awaiting(r)'
  BY <1>2 DEF Running, Awaiting
<1>6. WellQueued(queue[r])'
  BY <1>3, <1>4 DEF WellQueued
<1>7. \A t : Queued(r, t)' <=> Queued(r, t) /\ ~Holds(r, t)
  BY <1>3, <1>4 DEF Queued, Holds
<1> QED
  BY <1>2, <1>3, <1>5, <1>6, <1>7

\* A task asks for the lock: it is in the queue, and who holds the lock and
\* what the holder awaits are as before, unless the lock was free.
LEMMA AcquireKeeps ==
    ASSUME TypeOK, NEW r \in Replica, WellQueued(queue[r]), Loops(r),
           NEW t \in Task, ~Queued(r, t), t = "handle" => ~Queued(r, "claim"),
           Acquire(r, t)
    PROVE  /\ WellQueued(queue[r])'
           /\ \A u : Queued(r, u)' <=> Queued(r, u) \/ u = t
           /\ Running(r)'
           /\ Awaiting(r)' => Awaiting(r) /\ queue[r] # <<>>
           /\ Awaiting(r) /\ queue[r] # <<>> => Awaiting(r)'
           /\ queue[r] # <<>> => \A u : Holds(r, u)' <=> Holds(r, u)
           /\ \A q \in Replica : q # r => queue'[q] = queue[q] /\ stage'[q] = stage[q]
<1>1. queue \in [Replica -> Seq(Task)] /\ stage \in [Replica -> Stage]
  BY DEF TypeOK, TaskTypeOK
<1>2. /\ queue' = [queue EXCEPT ![r] = Append(@, t)]
      /\ stage' = [stage EXCEPT ![r] = IF queue[r] = <<>> THEN "entered" ELSE @]
  BY DEF Acquire
<1>3. queue'[r] = Append(queue[r], t) /\ \A q \in Replica : q # r => queue'[q] = queue[q]
  BY <1>1, <1>2
<1>4. /\ stage'[r] = IF queue[r] = <<>> THEN "entered" ELSE stage[r]
      /\ \A q \in Replica : q # r => stage'[q] = stage[q]
  BY <1>1, <1>2
<1>5. /\ Range(queue'[r]) = Range(queue[r]) \cup {t}
      /\ queue'[r] # <<>>
      /\ queue[r] # <<>> => Head(queue'[r]) = Head(queue[r])
  BY <1>1, <1>3, AppendTask
<1>6. WellQueued(Append(queue[r], t))
  BY <1>1, AppendWellQueued DEF Queued
<1>7. WellQueued(queue[r])'
  BY <1>3, <1>6 DEF WellQueued
<1>8. \A u : Queued(r, u)' <=> Queued(r, u) \/ u = t
  BY <1>5 DEF Queued
<1>9. queue[r] # <<>> => \A u : Holds(r, u)' <=> Holds(r, u)
  BY <1>5 DEF Holds
<1>10. Running(r)' /\ (Awaiting(r)' <=> Awaiting(r) /\ queue[r] # <<>>)
  BY <1>4 DEF Loops, Running, Awaiting
<1> QED
  BY <1>3, <1>4, <1>7, <1>8, <1>9, <1>10

\* A rebalance callback that has a cause to be queued has a non-empty queue.
LEMMA HoldsIsQueued ==
    ASSUME TypeOK, NEW r \in Replica, NEW t, Holds(r, t)
    PROVE  Queued(r, t) /\ queue[r] # <<>> /\ \A u : Holds(r, u) => u = t
<1>1. queue[r] \in Seq(Task) /\ queue[r] # <<>> /\ Head(queue[r]) = t
  BY DEF TypeOK, TaskTypeOK, Holds
<1>2. 1 \in DOMAIN queue[r] /\ Head(queue[r]) = queue[r][1]
  BY <1>1
<1> QED
  BY <1>1, <1>2 DEF Queued, Holds, Range

\* The holder leaves, having at most forgotten tracks.
LEMMA LeaveOwnership ==
    ASSUME TypeOK, NEW r \in Replica, OwnershipOf(r), queue[r] # <<>>, LeaveLock(r),
           leaving[r] = {},
           UNCHANGED <<owner, joined, revoked, leaving, inflight>>,
           \A a \in Held(r)' : a \in Held(r) /\ a \in mapped'[r],
           Queued(r, "handle") /\ inflight[r].ac \in mapped[r] \cup astray[r]
              => inflight[r].ac \in mapped'[r] \cup astray'[r]
    PROVE  OwnershipOf(r)'
<1>1. /\ WellQueued(queue[r])'
      /\ \A t : Queued(r, t)' => Queued(r, t)
      /\ Running(r)' /\ ~Awaiting(r)'
  BY LeaveKeeps DEF OwnershipOf
<1>2. NothingOutside(r)'
  BY <1>1 DEF NothingOutside
<1>3. HeldIsOwned(r)'
  BY DEF OwnershipOf, HeldIsOwned
<1>4. RejoinedIsEmpty(r)'
  BY <1>1 DEF OwnershipOf, RejoinedIsEmpty
<1>5. WaitingIsOwned(r)'
  BY <1>1 DEF OwnershipOf, WaitingIsOwned
<1>6. ReleaseIsWhole(r)'
  BY <1>1 DEF OwnershipOf, ReleaseIsWhole
<1> QED
  BY <1>1, <1>2, <1>3, <1>4, <1>5, <1>6 DEF OwnershipOf

\* The holder goes on to await something, with nothing new to answer for.
LEMMA StayOwnership ==
    ASSUME TypeOK, NEW r \in Replica, OwnershipOf(r),
           Running(r), Running(r)', queue'[r] = queue[r],
           Awaiting(r) => Awaiting(r)',
           Awaiting(r)' /\ Holds(r, "release") => Awaiting(r),
           UNCHANGED <<owner, joined, revoked, leaving, inflight, mapped, astray>>,
           \A a \in Held(r)' : \/ a \in Held(r)
                               \/ /\ a \in mapped[r] /\ owner[PartitionFor[a]] = r
                                  /\ PartitionFor[a] \notin revoked[r] /\ r \notin joined
    PROVE  OwnershipOf(r)'
<1>1. /\ WellQueued(queue[r])'
      /\ \A t : Queued(r, t)' <=> Queued(r, t)
      /\ \A t : Holds(r, t)' <=> Holds(r, t)
  BY DEF OwnershipOf, WellQueued, Queued, Holds
<1>2. NothingOutside(r)'
  BY DEF NothingOutside
<1>3. HeldIsOwned(r)'
  BY DEF OwnershipOf, HeldIsOwned
<1>4. RejoinedIsEmpty(r)'
  <2>1. r \in joined => Held(r)' = {}
    BY DEF OwnershipOf, RejoinedIsEmpty
  <2> QED
    BY <1>1, <2>1 DEF OwnershipOf, RejoinedIsEmpty
<1>5. WaitingIsOwned(r)'
  BY <1>1 DEF OwnershipOf, WaitingIsOwned
<1>6. ReleaseIsWhole(r)'
  <2>1. Owned(r)' = Owned(r)
    BY DEF Owned
  <2> QED
    BY <1>1, <2>1 DEF OwnershipOf, ReleaseIsWhole
<1> QED
  BY <1>1, <1>2, <1>3, <1>4, <1>5, <1>6 DEF OwnershipOf

\* The rebalance callback is over and has revoked all it owned.
LEMMA ReleaseOwnership ==
    ASSUME TypeOK, NEW r \in Replica, OwnershipOf(r), Holds(r, "release"), LeaveLock(r),
           UNCHANGED <<owner, inflight>>, joined' = joined \cup {r}, leaving'[r] = {},
           revoked[r] \subseteq revoked'[r], Owned(r) \subseteq revoked'[r],
           Held(r)' = {}
    PROVE  OwnershipOf(r)'
<1>1. Queued(r, "release") /\ queue[r] # <<>>
  BY HoldsIsQueued
<1>2. /\ WellQueued(queue[r])'
      /\ \A t : Queued(r, t)' <=> Queued(r, t) /\ ~Holds(r, t)
      /\ Running(r)' /\ ~Awaiting(r)'
  BY <1>1, LeaveKeeps DEF OwnershipOf
<1>3. ~Queued(r, "claim")
  BY <1>1 DEF OwnershipOf, ReleaseIsWhole
<1>4. NothingOutside(r)' /\ HeldIsOwned(r)' /\ RejoinedIsEmpty(r)'
  BY <1>2, <1>3 DEF NothingOutside, HeldIsOwned, RejoinedIsEmpty
<1>5. WaitingIsOwned(r)'
  <2>1. ASSUME Queued(r, "handle")
        PROVE  inflight[r] # NoReport /\ PartitionFor[inflight[r].ac] \in revoked'[r]
    <3>1. inflight[r] # NoReport
      BY <2>1 DEF OwnershipOf, WaitingIsOwned
    <3>2. PartitionFor[inflight[r].ac] \in Partition
      BY <3>1, ServiceAssumption DEF TypeOK, TaskTypeOK, Report
    <3> QED
      BY <2>1, <3>1, <3>2 DEF OwnershipOf, WaitingIsOwned, Owned
  <2> QED
    BY <1>2, <2>1 DEF WaitingIsOwned
<1>6. ReleaseIsWhole(r)'
  BY <1>2, <1>3 DEF ReleaseIsWhole
<1> QED
  BY <1>2, <1>4, <1>5, <1>6 DEF OwnershipOf

\* The replica is out: nothing is remembered.
LEMMA OutsideOwnership ==
    ASSUME NEW r \in Replica, queue'[r] = <<>>, leaving'[r] = {},
           \A a \in Aircraft : tracks'[r][a] = NoTrack
    PROVE  OwnershipOf(r)'
<1>1. WellQueued(queue[r])' /\ \A t : ~Queued(r, t)' /\ ~Holds(r, t)'
  BY DEF WellQueued, Queued, Holds, Range
<1>2. Held(r)' = {}
  BY DEF Held
<1> QED
  BY <1>1, <1>2
  DEF OwnershipOf, NothingOutside, HeldIsOwned, RejoinedIsEmpty, WaitingIsOwned, ReleaseIsWhole

\* _forget_pruned: an aircraft whose map entry goes is no longer held, or it is astray.
LEMMA ForgetPrunedKeeps ==
    ASSUME TypeOK, NEW r \in Replica, HeldIsOwned(r), WaitingIsOwned(r), ForgetPruned(r)
    PROVE  /\ \A a \in Held(r)' : a \in Held(r) /\ a \in mapped'[r]
           /\ Queued(r, "handle") /\ inflight[r].ac \in mapped[r] \cup astray[r]
                 => inflight[r].ac \in mapped'[r] \cup astray'[r]
           /\ \A q \in Replica : q # r => /\ tracks'[q] = tracks[q]
                                          /\ mapped'[q] = mapped[q]
                                          /\ astray'[q] = astray[q]
<1> DEFINE kept == Pruned(tracks[r], clock[r])
           stray == {a \in Aircraft :
                        Queued(r, "handle") /\ a = inflight[r].ac /\ kept[a] = NoTrack}
<1>1. /\ tracks'[r] = kept
      /\ mapped'[r] = mapped[r] \cap Known(kept)
      /\ astray'[r] = astray[r] \cup stray
      /\ \A q \in Replica : q # r => /\ tracks'[q] = tracks[q]
                                     /\ mapped'[q] = mapped[q]
                                     /\ astray'[q] = astray[q]
  BY DEF ForgetPruned, Stray, TypeOK, StateTypeOK
<1>2. \A a \in Aircraft : kept[a] # NoTrack => tracks[r][a] # NoTrack
  <2>1. tracks[r] \in Tracks /\ clock[r] \in Nat
    BY DEF TypeOK, StateTypeOK, TaskTypeOK
  <2> QED
    BY <2>1, ForgettingType
<1> HIDE DEF kept
<1>3. ASSUME NEW a \in Held(r)' PROVE a \in Held(r) /\ a \in mapped'[r]
  <2>1. a \in Aircraft /\ kept[a] # NoTrack /\ a \notin astray[r]
    BY <1>1, <1>3 DEF Held
  <2>2. a \in Held(r)
    BY <1>2, <2>1 DEF Held
  <2> QED
    BY <1>1, <2>1, <2>2 DEF HeldIsOwned, Known
<1>4. ASSUME Queued(r, "handle"), inflight[r].ac \in mapped[r] \cup astray[r]
      PROVE  inflight[r].ac \in mapped'[r] \cup astray'[r]
  <2>1. inflight[r].ac \in Aircraft
    BY <1>4 DEF WaitingIsOwned, TypeOK, TaskTypeOK, Report
  <2> QED
    BY <1>1, <1>4, <2>1 DEF Known
<1> QED
  BY <1>1, <1>3, <1>4

\* The consumer task's steps keep the acting replica's part of the invariant.
LEMMA ConsumeOwnership ==
    ASSUME Inv, NEW r \in Replica, Consume(r)
    PROVE  OwnershipOf(r)' /\ \A q \in Replica : q # r => Untouched(q)
<1>1. TypeOK /\ WellPlaced /\ OwnershipOf(r) /\ TypeInv
  BY InvTypeInv DEF Inv, OwnershipInv
<1> USE DEF Untouched, Local
<1>2. ASSUME NEW p \in Partition, Receive(r, p)
      PROVE  OwnershipOf(r)' /\ \A q \in Replica : q # r => Untouched(q)
  <2> DEFINE report == log[p][position[p] + 1]
  <2>1. /\ Loops(r) /\ owner[p] = r /\ r \notin joined /\ ~Queued(r, "claim")
        /\ inflight[r] = NoReport /\ Acquire(r, "handle")
        /\ UNCHANGED <<owner, joined, tracks, revoked, leaving>>
    BY <1>2 DEF Receive, Works, flushVars
  <2>2. /\ inflight'[r] = report /\ mapped'[r] = mapped[r] \cup {report.ac}
        /\ \/ astray'[r] = astray[r]
           \/ astray'[r] = astray[r] \ {report.ac} /\ PartitionFor[report.ac] \notin revoked[r]
        /\ \A q \in Replica : q # r => /\ inflight'[q] = inflight[q] /\ mapped'[q] = mapped[q]
                                       /\ astray'[q] = astray[q]
    <3>1. /\ inflight'[r] = report
          /\ \A q \in Replica : q # r => inflight'[q] = inflight[q]
      BY <1>1, <1>2 DEF Receive, TypeOK, TaskTypeOK
    <3>2. /\ mapped'[r] = mapped[r] \cup {report.ac}
          /\ \A q \in Replica : q # r => mapped'[q] = mapped[q]
      BY <1>1, <1>2 DEF Receive, Note, TypeOK, StateTypeOK
    <3>3. /\ \/ astray'[r] = astray[r]
             \/ astray'[r] = astray[r] \ {report.ac} /\ PartitionFor[report.ac] \notin revoked[r]
          /\ \A q \in Replica : q # r => astray'[q] = astray[q]
      <4>1. Note(r, report) /\ astray \in [Replica -> SUBSET Aircraft]
        BY <1>1, <1>2 DEF Receive, TypeOK, StateTypeOK
      <4> HIDE DEF report
      <4> QED
        BY <4>1 DEF Note
    <3> QED
      BY <3>1, <3>2, <3>3
  <2>3. report \in Report /\ PartitionFor[report.ac] = p
    BY <1>1, <1>2 DEF Receive, TypeOK, BrokerTypeOK, WellPlaced
  <2>4. report # NoReport
    BY <2>3, ServiceAssumption DEF Report, NoReport
  <2>5. ~Queued(r, "handle")
    BY <1>1, <2>1 DEF OwnershipOf, WaitingIsOwned
  <2>6. /\ WellQueued(queue[r])'
        /\ \A u : Queued(r, u)' <=> Queued(r, u) \/ u = "handle"
        /\ Running(r)'
        /\ Awaiting(r)' => Awaiting(r) /\ queue[r] # <<>>
        /\ Awaiting(r) /\ queue[r] # <<>> => Awaiting(r)'
        /\ queue[r] # <<>> => \A u : Holds(r, u)' <=> Holds(r, u)
        /\ \A q \in Replica : q # r => queue'[q] = queue[q] /\ stage'[q] = stage[q]
    BY <1>1, <2>1, <2>5, AcquireKeeps DEF OwnershipOf, Task
  <2>7. NothingOutside(r)' /\ RejoinedIsEmpty(r)'
    BY <2>1, <2>6 DEF NothingOutside, RejoinedIsEmpty
  <2>8. HeldIsOwned(r)'
    <3>1. \A a \in Held(r)' : \/ a \in Held(r)
                              \/ a = report.ac /\ PartitionFor[a] \notin revoked[r]
      BY <2>1, <2>2 DEF Held
    <3> QED
      BY <1>1, <2>1, <2>2, <2>3, <3>1 DEF OwnershipOf, HeldIsOwned
  <2>9. WaitingIsOwned(r)'
    BY <2>1, <2>2, <2>3, <2>4 DEF WaitingIsOwned
  <2>10. ReleaseIsWhole(r)'
    <3>1. Owned(r)' = Owned(r)
      BY <2>1 DEF Owned
    <3> QED
      BY <1>1, <2>1, <2>6, <3>1, HoldsIsQueued DEF OwnershipOf, ReleaseIsWhole
  <2> QED
    BY <2>1, <2>2, <2>6, <2>7, <2>8, <2>9, <2>10 DEF OwnershipOf
<1>3. ASSUME DiscardReport(r)
      PROVE  OwnershipOf(r)' /\ \A q \in Replica : q # r => Untouched(q)
  <2>1. /\ Holds(r, "handle") /\ queue[r] # <<>> /\ ~Awaiting(r) /\ LeaveLock(r)
        /\ UNCHANGED <<owner, joined, tracks, mapped, astray, revoked, leaving, inflight>>
    BY <1>3 DEF DiscardReport, Enters, Holds, Awaiting,
       brokerVars, stateVars, flushVars
  <2>2. leaving[r] = {}
    BY <1>1, <2>1 DEF OwnershipOf, ReleaseIsWhole
  <2>3. \A a \in Held(r)' : a \in Held(r) /\ a \in mapped'[r]
    BY <1>1, <2>1 DEF OwnershipOf, HeldIsOwned, Held
  <2>4. OwnershipOf(r)'
    BY <1>1, <2>1, <2>2, <2>3, LeaveOwnership
  <2> QED
    BY <1>1, <2>1, <2>4, LeaveKeeps DEF OwnershipOf
<1>4. ASSUME HandleReport(r)
      PROVE  OwnershipOf(r)' /\ \A q \in Replica : q # r => Untouched(q)
  <2> DEFINE report == inflight[r]
             folded == OnReport(tracks[r], report)
  <2>1. /\ Holds(r, "handle") /\ stage[r] \in {"idle", "entered"}
        /\ PartitionFor[report.ac] \notin revoked[r]
        /\ UNCHANGED <<owner, joined, mapped, astray, revoked, leaving, inflight, queue>>
    BY <1>4 DEF HandleReport, Enters, brokerVars, ghostVars
  <2>2. /\ tracks'[r] = folded /\ stage'[r] = "publishing"
        /\ \A q \in Replica : q # r => tracks'[q] = tracks[q] /\ stage'[q] = stage[q]
    BY <1>1, <1>4 DEF HandleReport, TypeOK, StateTypeOK, TaskTypeOK
  <2>3. report \in Report /\ tracks[r] \in Tracks
    BY <1>1, <2>1, HoldsIsQueued DEF TypeInv, TypeOK, TaskTypeOK, StateTypeOK
  <2>4. \A a \in Aircraft : a # report.ac => folded[a] = tracks[r][a]
    BY <2>3, OnReportType
  <2>5. /\ report.ac \in mapped[r] \cup astray[r]
        /\ owner[PartitionFor[report.ac]] = r /\ r \notin joined
    BY <1>1, <2>1, HoldsIsQueued DEF OwnershipOf, WaitingIsOwned
  <2>6. /\ Running(r) /\ Running(r)' /\ ~Awaiting(r) /\ Awaiting(r)'
        /\ ~Holds(r, "release")
    BY <1>1, <2>1, <2>2, HoldsIsQueued DEF Running, Awaiting
  <2>7. ASSUME NEW a \in Held(r)'
        PROVE  \/ a \in Held(r)
               \/ /\ a \in mapped[r] /\ owner[PartitionFor[a]] = r
                  /\ PartitionFor[a] \notin revoked[r] /\ r \notin joined
    BY <2>1, <2>2, <2>4, <2>5, <2>7 DEF Held
  <2>8. OwnershipOf(r)'
    <3>1. /\ queue'[r] = queue[r]
          /\ UNCHANGED <<owner, joined, revoked, leaving, inflight, mapped, astray>>
      BY <2>1
    <3> QED
      BY <1>1, <2>6, <2>7, <3>1, StayOwnership
  <2> QED
    BY <2>1, <2>2, <2>8
<1>5. ASSUME Commit(r)
      PROVE  OwnershipOf(r)' /\ \A q \in Replica : q # r => Untouched(q)
  <2>1. /\ ~Queued(r, "handle")
        /\ UNCHANGED <<owner, joined, tracks, mapped, astray, revoked, leaving, queue, stage>>
        /\ \A q \in Replica : q # r => inflight'[q] = inflight[q]
    BY <1>1, <1>5 DEF Commit, stateVars, flushVars, ghostVars, TypeOK, TaskTypeOK
  <2>2. WaitingIsOwned(r)'
    BY <2>1 DEF WaitingIsOwned, Queued
  <2>3. WellQueued(queue[r])' /\ NothingOutside(r)' /\ HeldIsOwned(r)'
    BY <1>1, <2>1 DEF OwnershipOf, NothingOutside, HeldIsOwned, Held, Running
  <2>4. RejoinedIsEmpty(r)' /\ ReleaseIsWhole(r)'
    BY <1>1, <2>1 DEF OwnershipOf, RejoinedIsEmpty, ReleaseIsWhole, Held, Queued, Holds,
       Awaiting, Owned
  <2> QED
    BY <2>1, <2>2, <2>3, <2>4 DEF OwnershipOf
<1> QED
  BY <1>2, <1>3, <1>4, <1>5 DEF Consume

\* The end of a flush, whoever asked for it.
LEMMA FinishFlushOwnership ==
    ASSUME TypeOK, NEW r \in Replica, OwnershipOf(r), Awaiting(r), FinishFlush(r),
           UNCHANGED <<owner, revoked, inflight>>
    PROVE  OwnershipOf(r)' /\ \A q \in Replica : q # r => Untouched(q)
<1> USE DEF Untouched, Local
<1>1. CASE FinishHandle(r)
  <2>1. /\ Holds(r, "handle") /\ queue[r] # <<>> /\ LeaveLock(r)
        /\ UNCHANGED <<tracks, mapped, astray, strayed, leaving, joined>>
    BY <1>1 DEF FinishHandle, Holds
  <2>2. leaving[r] = {}
    BY <2>1, HoldsIsQueued DEF OwnershipOf, ReleaseIsWhole
  <2>3. \A a \in Held(r)' : a \in Held(r) /\ a \in mapped'[r]
    BY <2>1 DEF OwnershipOf, HeldIsOwned, Held
  <2>4. OwnershipOf(r)'
    BY <2>1, <2>2, <2>3, LeaveOwnership
  <2> QED
    BY <2>1, <2>4, LeaveKeeps DEF OwnershipOf
<1>2. CASE FinishSweep(r)
  <2>1. Holds(r, "sweep") /\ queue[r] # <<>> /\ UNCHANGED <<leaving, joined>>
    BY <1>2 DEF FinishSweep, Holds
  <2>2. leaving[r] = {} /\ ~Holds(r, "release")
    BY <2>1, HoldsIsQueued DEF OwnershipOf, ReleaseIsWhole
  <2>3. CASE Departed(changed[r]) # {}
    <3>1. /\ UNCHANGED <<queue, tracks, mapped, astray>>
          /\ stage' = [stage EXCEPT ![r] = "forgetting"]
      BY <1>2, <2>3 DEF FinishSweep
    <3>2. stage'[r] = "forgetting" /\ \A q \in Replica : q # r => stage'[q] = stage[q]
      BY <3>1 DEF TypeOK, TaskTypeOK
    <3>3. Running(r) /\ Running(r)' /\ Awaiting(r)'
      BY <3>2 DEF Running, Awaiting
    <3>4. Held(r)' = Held(r)
      BY <3>1 DEF Held
    <3>5. OwnershipOf(r)'
      <4>1. /\ queue'[r] = queue[r]
            /\ UNCHANGED <<owner, joined, revoked, leaving, inflight, mapped, astray>>
        BY <2>1, <3>1
      <4> QED
        BY <4>1, <3>3, <3>4, StayOwnership
    <3> QED
      BY <2>1, <3>1, <3>2, <3>5
  <2>4. CASE ~(Departed(changed[r]) # {})
    <3>1. LeaveLock(r) /\ ForgetPruned(r)
      BY <1>2, <2>4 DEF FinishSweep
    <3>2. /\ \A a \in Held(r)' : a \in Held(r) /\ a \in mapped'[r]
          /\ Queued(r, "handle") /\ inflight[r].ac \in mapped[r] \cup astray[r]
                => inflight[r].ac \in mapped'[r] \cup astray'[r]
          /\ \A q \in Replica : q # r => /\ tracks'[q] = tracks[q]
                                         /\ mapped'[q] = mapped[q]
                                         /\ astray'[q] = astray[q]
      BY <3>1, ForgetPrunedKeeps DEF OwnershipOf
    <3>3. OwnershipOf(r)'
      BY <2>1, <2>2, <3>1, <3>2, LeaveOwnership
    <3> QED
      BY <2>1, <3>1, <3>2, <3>3, LeaveKeeps DEF OwnershipOf
  <2> QED
    BY <2>3, <2>4
<1>3. CASE FinishRelease(r)
  <2>1. /\ Holds(r, "release") /\ queue[r] # <<>> /\ LeaveLock(r) /\ Drop(r, leaving[r])
        /\ leaving' = [leaving EXCEPT ![r] = {}] /\ UNCHANGED astray
    BY <1>3 DEF FinishRelease, Holds
  <2>2. /\ tracks'[r] = Released(tracks[r], leaving[r]) /\ joined' = joined \cup {r}
        /\ leaving'[r] = {}
        /\ \A q \in Replica : q # r => /\ tracks'[q] = tracks[q] /\ mapped'[q] = mapped[q]
                                       /\ leaving'[q] = leaving[q]
    BY <2>1 DEF Drop, TypeOK, StateTypeOK
  <2>3. Owned(r) \subseteq revoked[r]
    BY <2>1 DEF OwnershipOf, ReleaseIsWhole
  <2>4. Held(r)' = {}
    <3>1. ASSUME NEW a \in Held(r)' PROVE FALSE
      <4>1. tracks[r] \in Tracks
        BY DEF TypeOK, StateTypeOK
      <4>2. a \in Held(r) /\ a \notin leaving[r]
        BY <2>1, <2>2, <3>1, <4>1, ForgettingType DEF Held
      <4>3. PartitionFor[a] \in Owned(r)
        BY <4>2, ServiceAssumption DEF OwnershipOf, HeldIsOwned, Owned, Held
      <4> QED
        BY <2>3, <4>2, <4>3 DEF OwnershipOf, HeldIsOwned
    <3> QED
      BY <3>1
  <2>5. OwnershipOf(r)'
    BY <2>1, <2>2, <2>3, <2>4, ReleaseOwnership
  <2> QED
    BY <2>1, <2>2, <2>5, LeaveKeeps DEF OwnershipOf
<1> QED
  BY <1>1, <1>2, <1>3 DEF FinishFlush

\* What the lock's holder does after an await keeps the replica's part.
LEMMA ProceedOwnership ==
    ASSUME Inv, NEW r \in Replica, Proceed(r)
    PROVE  OwnershipOf(r)' /\ \A q \in Replica : q # r => Untouched(q)
<1>1. TypeOK /\ OwnershipOf(r)
  BY DEF Inv, OwnershipInv
<1>2. ASSUME Publish(r)
      PROVE  OwnershipOf(r)' /\ \A q \in Replica : q # r => Untouched(q)
  <2>1. /\ stage[r] = "publishing"
        /\ UNCHANGED <<owner, joined, tracks, mapped, revoked, astray, leaving, inflight>>
    BY <1>2 DEF Publish, brokerVars, stateVars, ghostVars
  <2>2. Running(r) /\ Awaiting(r)
    BY <2>1 DEF Running, Awaiting
  <2>3. Held(r)' = Held(r)
    BY <2>1 DEF Held
  <2>4. CASE /\ UNCHANGED queue
             /\ stage' = stage \/ stage' = [stage EXCEPT ![r] = "recording"]
    <3>1. /\ stage'[r] \in {"publishing", "recording"}
          /\ \A q \in Replica : q # r => stage'[q] = stage[q]
      BY <1>1, <2>1, <2>4 DEF TypeOK, TaskTypeOK
    <3>2. Running(r)' /\ Awaiting(r)'
      BY <3>1 DEF Running, Awaiting
    <3>3. OwnershipOf(r)'
      <4>1. /\ queue'[r] = queue[r]
            /\ UNCHANGED <<owner, joined, revoked, leaving, inflight, mapped, astray>>
        BY <2>1, <2>4
      <4> QED
        BY <1>1, <2>2, <2>3, <3>2, <4>1, StayOwnership
    <3> QED
      BY <2>1, <2>4, <3>1, <3>3 DEF Untouched, Local
  <2>5. CASE Holds(r, "handle") /\ LeaveLock(r)
    <3>1. queue[r] # <<>>
      BY <2>5 DEF Holds
    <3>2. leaving[r] = {}
      BY <1>1, <2>5, HoldsIsQueued DEF OwnershipOf, ReleaseIsWhole
    <3>3. \A a \in Held(r)' : a \in Held(r) /\ a \in mapped'[r]
      BY <1>1, <2>1, <2>3 DEF OwnershipOf, HeldIsOwned
    <3>4. OwnershipOf(r)'
      BY <1>1, <2>1, <2>5, <3>1, <3>2, <3>3, LeaveOwnership
    <3> QED
      BY <1>1, <2>1, <2>5, <3>1, <3>4, LeaveKeeps DEF OwnershipOf, Untouched, Local
  <2> QED
    BY <1>2, <2>4, <2>5 DEF Publish, BufferChanged, StartFlush
<1>3. ASSUME Record(r)
      PROVE  OwnershipOf(r)' /\ \A q \in Replica : q # r => Untouched(q)
  <2>1. stage[r] = "recording" /\ UNCHANGED <<owner, revoked, inflight>>
    BY <1>3 DEF Record
  <2>2. Running(r) /\ Awaiting(r)
    BY <2>1 DEF Running, Awaiting
  <2>3. CASE Showable(r) # {}
    <3>1. /\ UNCHANGED <<queue, tracks, mapped, astray, leaving, joined>>
          /\ stage' = [stage EXCEPT ![r] = "showing"]
      BY <1>3, <2>3 DEF Record
    <3>2. stage'[r] = "showing" /\ \A q \in Replica : q # r => stage'[q] = stage[q]
      BY <1>1, <3>1 DEF TypeOK, TaskTypeOK
    <3>3. Running(r)' /\ Awaiting(r)' /\ Held(r)' = Held(r)
      BY <3>1, <3>2 DEF Running, Awaiting, Held
    <3>4. OwnershipOf(r)'
      <4>1. /\ queue'[r] = queue[r]
            /\ UNCHANGED <<owner, joined, revoked, leaving, inflight, mapped, astray>>
        BY <2>1, <3>1
      <4> QED
        BY <1>1, <2>2, <3>3, <4>1, StayOwnership
    <3> QED
      BY <2>1, <3>1, <3>2, <3>4 DEF Untouched, Local
  <2>4. CASE ~(Showable(r) # {})
    <3>1. FinishFlush(r)
      BY <1>3, <2>4 DEF Record
    <3> QED
      BY <1>1, <2>1, <2>2, <3>1, FinishFlushOwnership
  <2> QED
    BY <2>3, <2>4
<1>4. ASSUME Show(r)
      PROVE  OwnershipOf(r)' /\ \A q \in Replica : q # r => Untouched(q)
  <2>1. FinishFlush(r) /\ Awaiting(r) /\ UNCHANGED <<owner, revoked, inflight>>
    BY <1>4 DEF Show, Awaiting
  <2> QED
    BY <1>1, <2>1, FinishFlushOwnership
<1>5. ASSUME ForgetTerminated(r)
      PROVE  OwnershipOf(r)' /\ \A q \in Replica : q # r => Untouched(q)
  <2>1. /\ Holds(r, "sweep") /\ queue[r] # <<>> /\ LeaveLock(r) /\ ForgetPruned(r)
        /\ UNCHANGED <<owner, joined, revoked, leaving, inflight>>
    BY <1>5 DEF ForgetTerminated, Holds, brokerVars
  <2>2. leaving[r] = {}
    BY <1>1, <2>1, HoldsIsQueued DEF OwnershipOf, ReleaseIsWhole
  <2>3. /\ \A a \in Held(r)' : a \in Held(r) /\ a \in mapped'[r]
        /\ Queued(r, "handle") /\ inflight[r].ac \in mapped[r] \cup astray[r]
              => inflight[r].ac \in mapped'[r] \cup astray'[r]
        /\ \A q \in Replica : q # r => /\ tracks'[q] = tracks[q]
                                       /\ mapped'[q] = mapped[q]
                                       /\ astray'[q] = astray[q]
    BY <1>1, <2>1, ForgetPrunedKeeps DEF OwnershipOf
  <2>4. OwnershipOf(r)'
    BY <1>1, <2>1, <2>2, <2>3, LeaveOwnership
  <2> QED
    BY <1>1, <2>1, <2>3, <2>4, LeaveKeeps DEF OwnershipOf, Untouched, Local
<1> QED
  BY <1>2, <1>3, <1>4, <1>5 DEF Proceed

\* The sweeper's steps keep the replica's part.
LEMMA SweepOwnership ==
    ASSUME Inv, NEW r \in Replica, SweepStep(r)
    PROVE  OwnershipOf(r)' /\ \A q \in Replica : q # r => Untouched(q)
<1>1. TypeOK /\ OwnershipOf(r)
  BY DEF Inv, OwnershipInv
<1>2. ASSUME SweepTimer(r)
      PROVE  OwnershipOf(r)' /\ \A q \in Replica : q # r => Untouched(q)
  <2>1. /\ Loops(r) /\ ~Queued(r, "sweep") /\ Acquire(r, "sweep")
        /\ UNCHANGED <<owner, joined, tracks, mapped, revoked, astray, leaving, inflight>>
    BY <1>2 DEF SweepTimer, Works, brokerVars, stateVars, flushVars, ghostVars
  <2>2. /\ WellQueued(queue[r])'
        /\ \A u : Queued(r, u)' <=> Queued(r, u) \/ u = "sweep"
        /\ Running(r)'
        /\ Awaiting(r)' => Awaiting(r) /\ queue[r] # <<>>
        /\ Awaiting(r) /\ queue[r] # <<>> => Awaiting(r)'
        /\ queue[r] # <<>> => \A u : Holds(r, u)' <=> Holds(r, u)
        /\ \A q \in Replica : q # r => queue'[q] = queue[q] /\ stage'[q] = stage[q]
    BY <1>1, <2>1, AcquireKeeps DEF OwnershipOf, Task
  <2>3. NothingOutside(r)' /\ HeldIsOwned(r)' /\ RejoinedIsEmpty(r)'
    BY <1>1, <2>1, <2>2 DEF OwnershipOf, NothingOutside, HeldIsOwned, RejoinedIsEmpty, Held
  <2>4. WaitingIsOwned(r)'
    BY <1>1, <2>1, <2>2 DEF OwnershipOf, WaitingIsOwned
  <2>5. ReleaseIsWhole(r)'
    <3>1. Owned(r)' = Owned(r)
      BY <2>1 DEF Owned
    <3> QED
      BY <1>1, <2>1, <2>2, <3>1, HoldsIsQueued DEF OwnershipOf, ReleaseIsWhole
  <2> QED
    BY <2>1, <2>2, <2>3, <2>4, <2>5 DEF OwnershipOf, Untouched, Local
<1>3. ASSUME SweepNothing(r)
      PROVE  OwnershipOf(r)' /\ \A q \in Replica : q # r => Untouched(q)
  <2>1. /\ Holds(r, "sweep") /\ queue[r] # <<>> /\ LeaveLock(r) /\ ForgetPruned(r)
        /\ UNCHANGED <<owner, joined, revoked, leaving, inflight>>
    BY <1>3 DEF SweepNothing, Enters, Holds, brokerVars, flushVars
  <2>2. leaving[r] = {}
    BY <1>1, <2>1, HoldsIsQueued DEF OwnershipOf, ReleaseIsWhole
  <2>3. /\ \A a \in Held(r)' : a \in Held(r) /\ a \in mapped'[r]
        /\ Queued(r, "handle") /\ inflight[r].ac \in mapped[r] \cup astray[r]
              => inflight[r].ac \in mapped'[r] \cup astray'[r]
        /\ \A q \in Replica : q # r => /\ tracks'[q] = tracks[q]
                                       /\ mapped'[q] = mapped[q]
                                       /\ astray'[q] = astray[q]
    BY <1>1, <2>1, ForgetPrunedKeeps DEF OwnershipOf
  <2>4. OwnershipOf(r)'
    BY <1>1, <2>1, <2>2, <2>3, LeaveOwnership
  <2> QED
    BY <1>1, <2>1, <2>3, <2>4, LeaveKeeps DEF OwnershipOf, Untouched, Local
<1>4. ASSUME SweepChanged(r)
      PROVE  OwnershipOf(r)' /\ \A q \in Replica : q # r => Untouched(q)
  <2>1. /\ Holds(r, "sweep") /\ stage[r] \in {"idle", "entered"}
        /\ UNCHANGED <<owner, joined, mapped, astray, revoked, leaving, inflight, queue>>
    BY <1>4 DEF SweepChanged, Enters, brokerVars, ghostVars
  <2>2. /\ tracks'[r] = Swept(tracks[r], clock[r]) /\ stage'[r] = "publishing"
        /\ \A q \in Replica : q # r => tracks'[q] = tracks[q] /\ stage'[q] = stage[q]
    BY <1>1, <1>4 DEF SweepChanged, TypeOK, StateTypeOK, TaskTypeOK
  <2>3. tracks[r] \in Tracks /\ clock[r] \in Nat
    BY <1>1 DEF TypeOK, StateTypeOK, TaskTypeOK
  <2>4. \A a \in Held(r)' : a \in Held(r)
    BY <2>1, <2>2, <2>3, SweptType DEF Held
  <2>5. /\ Running(r) /\ Running(r)' /\ ~Awaiting(r) /\ Awaiting(r)'
        /\ ~Holds(r, "release")
    BY <1>1, <2>1, <2>2, HoldsIsQueued DEF Running, Awaiting
  <2>6. OwnershipOf(r)'
    <3>1. /\ queue'[r] = queue[r]
          /\ UNCHANGED <<owner, joined, revoked, leaving, inflight, mapped, astray>>
      BY <2>1
    <3> QED
      BY <1>1, <2>4, <2>5, <3>1, StayOwnership
  <2> QED
    BY <2>1, <2>2, <2>6 DEF Untouched, Local
<1> QED
  BY <1>2, <1>3, <1>4 DEF SweepStep

\* The rebalance callbacks keep the replica's part: the release revokes under the
\* lock what is owned and drops what is held of it before the member rejoins.
LEMMA RebalanceOwnership ==
    ASSUME Inv, NEW r \in Replica, RebalanceStep(r)
    PROVE  OwnershipOf(r)' /\ \A q \in Replica : q # r => Untouched(q)
<1>1. TypeOK /\ OwnershipOf(r)
  BY DEF Inv, OwnershipInv
<1>2. ASSUME Rejoin(r)
      PROVE  OwnershipOf(r)' /\ \A q \in Replica : q # r => Untouched(q)
  <2>1. /\ Loops(r) /\ r \notin joined /\ ~Queued(r, "release") /\ ~Queued(r, "claim")
        /\ UNCHANGED <<owner, tracks, mapped, revoked, astray, leaving, inflight>>
    BY <1>2 DEF Rejoin, stateVars, flushVars, ghostVars
  <2>2. Held(r)' = Held(r) /\ Owned(r)' = Owned(r)
    BY <2>1 DEF Held, Owned
  <2>3. CASE Owned(r) = {}
    <3>1. joined' = joined \cup {r} /\ UNCHANGED <<queue, stage>>
      BY <1>2, <2>3 DEF Rejoin
    <3>2. Held(r)' = {}
      BY <1>1, <2>2, <2>3, ServiceAssumption DEF OwnershipOf, HeldIsOwned, Owned, Held
    <3>3. WellQueued(queue[r])' /\ NothingOutside(r)' /\ HeldIsOwned(r)' /\ RejoinedIsEmpty(r)'
      BY <1>1, <2>1, <3>1, <3>2
      DEF OwnershipOf, NothingOutside, HeldIsOwned, RejoinedIsEmpty, Running, Queued
    <3>4. WaitingIsOwned(r)'
      <4>1. ASSUME Queued(r, "handle") PROVE PartitionFor[inflight[r].ac] \in revoked[r]
        <5>1. inflight[r] # NoReport
          BY <1>1, <4>1 DEF OwnershipOf, WaitingIsOwned
        <5>2. PartitionFor[inflight[r].ac] \in Partition
          BY <1>1, <5>1, ServiceAssumption DEF TypeOK, TaskTypeOK, Report
        <5> QED
          BY <1>1, <2>3, <4>1, <5>2 DEF OwnershipOf, WaitingIsOwned, Owned
      <4> QED
        BY <1>1, <2>1, <3>1, <4>1 DEF OwnershipOf, WaitingIsOwned, Queued
    <3>5. ReleaseIsWhole(r)'
      BY <1>1, <2>1, <2>2, <3>1 DEF OwnershipOf, ReleaseIsWhole, Queued, Holds, Awaiting
    <3> QED
      BY <2>1, <3>1, <3>3, <3>4, <3>5 DEF OwnershipOf, Untouched, Local
  <2>4. CASE Owned(r) # {}
    <3>1. Acquire(r, "release") /\ UNCHANGED joined
      BY <1>2, <2>4 DEF Rejoin
    <3>2. /\ WellQueued(queue[r])'
          /\ \A u : Queued(r, u)' <=> Queued(r, u) \/ u = "release"
          /\ Running(r)'
          /\ Awaiting(r)' => Awaiting(r) /\ queue[r] # <<>>
          /\ Awaiting(r) /\ queue[r] # <<>> => Awaiting(r)'
          /\ queue[r] # <<>> => \A u : Holds(r, u)' <=> Holds(r, u)
          /\ \A q \in Replica : q # r => queue'[q] = queue[q] /\ stage'[q] = stage[q]
      BY <1>1, <2>1, <3>1, AcquireKeeps DEF OwnershipOf, Task
    <3>3. NothingOutside(r)' /\ HeldIsOwned(r)' /\ RejoinedIsEmpty(r)' /\ WaitingIsOwned(r)'
      BY <1>1, <2>1, <2>2, <3>1, <3>2
      DEF OwnershipOf, NothingOutside, HeldIsOwned, RejoinedIsEmpty, WaitingIsOwned
    <3>4. ReleaseIsWhole(r)'
      BY <1>1, <2>1, <2>2, <3>2, HoldsIsQueued DEF OwnershipOf, ReleaseIsWhole
    <3> QED
      BY <2>1, <3>1, <3>2, <3>3, <3>4 DEF OwnershipOf, Untouched, Local
  <2> QED
    BY <2>3, <2>4
<1>3. ASSUME ReleasePartitions(r)
      PROVE  OwnershipOf(r)' /\ \A q \in Replica : q # r => Untouched(q)
  <2> DEFINE addresses == {a \in mapped[r] : PartitionFor[a] \in Owned(r)}
  <2>1. /\ Holds(r, "release") /\ stage[r] \in {"idle", "entered"}
        /\ UNCHANGED <<owner, inflight, astray>>
    BY <1>3 DEF ReleasePartitions, Enters, ghostVars
  <2>2. /\ revoked'[r] = revoked[r] \cup Owned(r)
        /\ \A q \in Replica : q # r => revoked'[q] = revoked[q]
    BY <1>1, <1>3 DEF ReleasePartitions, Revoke, TypeOK, StateTypeOK
  <2>3. /\ Queued(r, "release") /\ queue[r] # <<>> /\ ~Queued(r, "claim") /\ r \notin joined
        /\ leaving[r] = {}
    BY <1>1, <2>1, HoldsIsQueued
    DEF OwnershipOf, ReleaseIsWhole, RejoinedIsEmpty, Awaiting
  <2>4. \A a \in Held(r) : a \in addresses
    BY <1>1, ServiceAssumption DEF OwnershipOf, HeldIsOwned, Owned, Held
  <2>5. CASE pending[r] = <<>>
    <3>1. LeaveLock(r) /\ Drop(r, addresses) /\ UNCHANGED leaving
      BY <1>3, <2>5 DEF ReleasePartitions
    <3>2. /\ tracks'[r] = Released(tracks[r], addresses) /\ joined' = joined \cup {r}
          /\ \A q \in Replica : q # r => tracks'[q] = tracks[q] /\ mapped'[q] = mapped[q]
      BY <1>1, <3>1 DEF Drop, TypeOK, StateTypeOK
    <3>3. Held(r)' = {}
      <4>1. tracks[r] \in Tracks
        BY <1>1 DEF TypeOK, StateTypeOK
      <4> QED
        BY <2>1, <2>4, <3>2, <4>1, ForgettingType DEF Held
    <3>4. OwnershipOf(r)'
      BY <1>1, <2>1, <2>2, <2>3, <3>1, <3>2, <3>3, ReleaseOwnership
    <3> QED
      BY <1>1, <2>1, <2>2, <2>3, <3>1, <3>2, <3>4, LeaveKeeps DEF OwnershipOf, Untouched, Local
  <2>6. CASE pending[r] # <<>>
    <3>1. /\ stage' = [stage EXCEPT ![r] = "recording"]
          /\ leaving' = [leaving EXCEPT ![r] = addresses]
          /\ UNCHANGED <<queue, tracks, mapped, joined>>
      BY <1>3, <2>6 DEF ReleasePartitions, StartFlush
    <3>2. /\ stage'[r] = "recording" /\ leaving'[r] = addresses
          /\ \A q \in Replica : q # r => stage'[q] = stage[q] /\ leaving'[q] = leaving[q]
      BY <1>1, <3>1 DEF TypeOK, TaskTypeOK, StateTypeOK
    <3>3. Running(r)' /\ Awaiting(r)'
      BY <3>2 DEF Running, Awaiting
    <3>4. Held(r)' = Held(r) /\ Owned(r)' = Owned(r)
      BY <2>1, <3>1 DEF Held, Owned
    <3>5. WellQueued(queue[r])' /\ NothingOutside(r)' /\ RejoinedIsEmpty(r)'
      BY <1>1, <2>3, <3>1, <3>3 DEF OwnershipOf, NothingOutside, RejoinedIsEmpty
    <3>6. HeldIsOwned(r)'
      BY <1>1, <2>1, <2>4, <3>1, <3>2, <3>4 DEF OwnershipOf, HeldIsOwned
    <3>7. WaitingIsOwned(r)'
      BY <1>1, <2>1, <2>2, <3>1 DEF OwnershipOf, WaitingIsOwned, Queued
    <3>8. ReleaseIsWhole(r)'
      BY <2>1, <2>2, <2>3, <3>1, <3>2, <3>3, <3>4 DEF ReleaseIsWhole, Queued, Holds
    <3> QED
      BY <2>1, <2>2, <3>1, <3>2, <3>5, <3>6, <3>7, <3>8 DEF OwnershipOf, Untouched, Local
  <2> QED
    BY <2>5, <2>6
<1>4. ASSUME Learn(r)
      PROVE  OwnershipOf(r)' /\ \A q \in Replica : q # r => Untouched(q)
  <2>1. /\ Loops(r) /\ r \in joined /\ joined' = joined \ {r}
        /\ UNCHANGED <<queue, stage>> \/ Acquire(r, "claim")
        /\ UNCHANGED <<owner, tracks, mapped, revoked, astray, leaving, inflight>>
    BY <1>4 DEF Learn, stateVars, flushVars, ghostVars
  <2>2. ~Queued(r, "claim") /\ ~Queued(r, "release") /\ leaving[r] = {}
    BY <1>1, <2>1, HoldsIsQueued DEF OwnershipOf, RejoinedIsEmpty, ReleaseIsWhole
  <2>3. /\ WellQueued(queue[r])'
        /\ \A u : Queued(r, u)' => Queued(r, u) \/ u = "claim"
        /\ Running(r)'
        /\ \A q \in Replica : q # r => queue'[q] = queue[q] /\ stage'[q] = stage[q]
    <3>1. CASE Acquire(r, "claim")
      BY <1>1, <2>1, <2>2, <3>1, AcquireKeeps DEF OwnershipOf, Task
    <3>2. CASE UNCHANGED <<queue, stage>>
      BY <1>1, <2>1, <3>2 DEF OwnershipOf, WellQueued, Queued, Loops, Running
    <3> QED
      BY <2>1, <3>1, <3>2
  <2>4. TaskTypeOK'
    BY <1>4, InvTypeInv, RebalanceType DEF RebalanceStep, ServiceTypeOK
  <2>5. NothingOutside(r)' /\ HeldIsOwned(r)' /\ RejoinedIsEmpty(r)'
    BY <1>1, <2>1, <2>3 DEF OwnershipOf, NothingOutside, HeldIsOwned, RejoinedIsEmpty, Held
  <2>6. WaitingIsOwned(r)'
    BY <1>1, <2>1, <2>3 DEF OwnershipOf, WaitingIsOwned
  <2>7. ReleaseIsWhole(r)'
    <3>1. ~Queued(r, "release")' /\ ~Holds(r, "release")'
      <4>1. ~Queued(r, "release")'
        BY <2>2, <2>3
      <4>2. queue'[r] \in Seq(Task)
        BY <2>4 DEF TaskTypeOK
      <4>3. queue'[r] # <<>> => Head(queue'[r]) \in Range(queue'[r])
        BY <4>2 DEF Range
      <4> QED
        BY <4>1, <4>3 DEF Queued, Holds
    <3> QED
      BY <2>1, <2>2, <3>1 DEF ReleaseIsWhole
  <2> QED
    BY <2>1, <2>3, <2>5, <2>6, <2>7 DEF OwnershipOf, Untouched, Local
<1>5. ASSUME ClaimPartitions(r)
      PROVE  OwnershipOf(r)' /\ \A q \in Replica : q # r => Untouched(q)
  <2>1. /\ Holds(r, "claim") /\ queue[r] # <<>> /\ ~Awaiting(r) /\ LeaveLock(r)
        /\ UNCHANGED <<owner, joined, tracks, mapped, astray, leaving, inflight>>
    BY <1>5 DEF ClaimPartitions, Enters, Holds, Awaiting, brokerVars, flushVars, ghostVars
  <2>2. /\ revoked'[r] = revoked[r] \ Owned(r)
        /\ \A q \in Replica : q # r => revoked'[q] = revoked[q]
    BY <1>1, <1>5 DEF ClaimPartitions, Reclaim, TypeOK, StateTypeOK
  <2>3. ~Queued(r, "handle") /\ leaving[r] = {}
    BY <1>1, <2>1, NoHandleBehindClaim
    DEF OwnershipOf, ReleaseIsWhole, TypeOK, TaskTypeOK, Queued, Holds
  <2>4. /\ WellQueued(queue[r])'
        /\ \A t : Queued(r, t)' => Queued(r, t)
        /\ Running(r)' /\ ~Awaiting(r)'
        /\ \A q \in Replica : q # r => queue'[q] = queue[q] /\ stage'[q] = stage[q]
    BY <1>1, <2>1, LeaveKeeps DEF OwnershipOf
  <2>5. NothingOutside(r)' /\ RejoinedIsEmpty(r)' /\ WaitingIsOwned(r)'
    BY <1>1, <2>1, <2>3, <2>4
    DEF OwnershipOf, NothingOutside, RejoinedIsEmpty, WaitingIsOwned, Held
  <2>6. HeldIsOwned(r)'
    BY <1>1, <2>1, <2>2 DEF OwnershipOf, HeldIsOwned, Held
  <2>7. ReleaseIsWhole(r)'
    BY <1>1, <2>1, <2>3, <2>4 DEF OwnershipOf, ReleaseIsWhole
  <2> QED
    BY <2>1, <2>2, <2>4, <2>5, <2>6, <2>7 DEF OwnershipOf, Untouched, Local
<1> QED
  BY <1>2, <1>3, <1>4, <1>5 DEF RebalanceStep

\* A departing replica takes nothing from the others.
LEMMA DepartKeeps ==
    ASSUME TypeOK, NEW r \in Replica, Depart(r)
    PROVE  \A q \in Replica : q # r =>
              /\ stage'[q] = stage[q]
              /\ \A p \in Partition : owner'[p] = q <=> owner[p] = q
              /\ q \in joined' <=> q \in joined
BY ServiceAssumption DEF Depart, TypeOK, TaskTypeOK, BrokerTypeOK

\* A replica that forgets everything leaves the others' memory alone.
LEMMA WipeKeeps ==
    ASSUME TypeOK, NEW r \in Replica, Wipe(r)
    PROVE  /\ queue'[r] = <<>> /\ leaving'[r] = {}
           /\ \A a \in Aircraft : tracks'[r][a] = NoTrack
           /\ \A q \in Replica : q # r =>
                 /\ tracks'[q] = tracks[q] /\ mapped'[q] = mapped[q]
                 /\ revoked'[q] = revoked[q] /\ astray'[q] = astray[q]
                 /\ leaving'[q] = leaving[q] /\ queue'[q] = queue[q]
                 /\ inflight'[q] = inflight[q]
<1>1. queue'[r] = <<>> /\ \A q \in Replica : q # r => queue'[q] = queue[q]
  BY DEF Wipe, TypeOK, TaskTypeOK
<1>2. \A q \in Replica : q # r => inflight'[q] = inflight[q]
  BY DEF Wipe, TypeOK, TaskTypeOK
<1>3. /\ leaving'[r] = {} /\ \A a \in Aircraft : tracks'[r][a] = NoTrack
      /\ \A q \in Replica : q # r =>
            /\ tracks'[q] = tracks[q] /\ mapped'[q] = mapped[q]
            /\ revoked'[q] = revoked[q] /\ astray'[q] = astray[q] /\ leaving'[q] = leaving[q]
  BY DEF Wipe, TypeOK, StateTypeOK
<1> QED
  BY <1>1, <1>2, <1>3

\* A replica that goes down forgets all and takes nothing from the others.
LEMMA DepartOwnership ==
    ASSUME TypeOK, NEW r \in Replica, Depart(r)
    PROVE  OwnershipOf(r)' /\ \A q \in Replica : q # r => Untouched(q)
<1>1. Wipe(r)
  BY DEF Depart
<1> QED
  BY <1>1, WipeKeeps, DepartKeeps, OutsideOwnership DEF Untouched, Local

\* Of the queue, the end of run() keeps the callbacks; a release under way goes on.
LEMMA ExitQueue ==
    ASSUME TypeOK, NEW r \in Replica, OwnershipOf(r), Exit(r)
    PROVE  /\ queue'[r] \in {<<"release">>, <<"claim">>, <<>>}
           /\ WellQueued(queue[r])'
           /\ \A t : Queued(r, t)' => Queued(r, t) /\ t \in {"release", "claim"}
           /\ Queued(r, "release") => Holds(r, "release")'
           /\ Queued(r, "claim") => Holds(r, "claim")'
           /\ Queued(r, "release")' => ~Queued(r, "claim")'
           /\ Awaiting(r)' => Awaiting(r) /\ Holds(r, "release") /\ stage'[r] = stage[r]
           /\ ~(Awaiting(r) /\ Holds(r, "release")) => stage'[r] = "idle"
           /\ Awaiting(r) /\ Holds(r, "release") => Awaiting(r)' /\ stage'[r] = stage[r]
           /\ Running(r)'
           /\ \A q \in Replica : q # r => /\ queue'[q] = queue[q] /\ stage'[q] = stage[q]
                                          /\ inflight'[q] = inflight[q]
<1>1. /\ queue'[r] = Callbacks(r)
      /\ \A q \in Replica : q # r => queue'[q] = queue[q]
  BY DEF Exit, TypeOK, TaskTypeOK
<1>2. /\ stage'[r] = IF Awaiting(r) /\ Holds(r, "release") THEN stage[r] ELSE "idle"
      /\ \A q \in Replica : q # r => stage'[q] = stage[q]
  BY DEF Exit, TypeOK, TaskTypeOK
<1>3. \A q \in Replica : q # r => inflight'[q] = inflight[q]
  BY DEF Exit, TypeOK, TaskTypeOK
<1>4. Queued(r, "release") => ~Queued(r, "claim")
  BY DEF OwnershipOf, ReleaseIsWhole
<1>5. /\ Range(<<"release">>) = {"release"} /\ Range(<<"claim">>) = {"claim"}
      /\ \A t : t \notin Range(<<>>)
      /\ Head(<<"release">>) = "release" /\ Head(<<"claim">>) = "claim"
      /\ <<"release">> # <<>> /\ <<"claim">> # <<>>
  BY DEF Range
<1>6. WellQueued(<<"release">>) /\ WellQueued(<<"claim">>) /\ WellQueued(<<>>)
  BY DEF WellQueued
<1>7. /\ Running(r)'
      /\ Awaiting(r)' => Awaiting(r) /\ Holds(r, "release") /\ stage'[r] = stage[r]
      /\ ~(Awaiting(r) /\ Holds(r, "release")) => stage'[r] = "idle"
      /\ Awaiting(r) /\ Holds(r, "release") => Awaiting(r)' /\ stage'[r] = stage[r]
  BY <1>2 DEF Running, Awaiting
<1>8. CASE Queued(r, "release")
  <2>1. queue'[r] = <<"release">>
    BY <1>1, <1>4, <1>8 DEF Callbacks
  <2>2. WellQueued(queue[r])'
    BY <1>6, <2>1 DEF WellQueued
  <2> QED
    BY <1>1, <1>2, <1>3, <1>4, <1>5, <1>7, <1>8, <2>1, <2>2 DEF Queued, Holds
<1>9. CASE ~Queued(r, "release") /\ Queued(r, "claim")
  <2>1. queue'[r] = <<"claim">>
    BY <1>1, <1>9 DEF Callbacks
  <2>2. WellQueued(queue[r])'
    BY <1>6, <2>1 DEF WellQueued
  <2> QED
    BY <1>1, <1>2, <1>3, <1>5, <1>7, <1>9, <2>1, <2>2 DEF Queued, Holds
<1>10. CASE ~Queued(r, "release") /\ ~Queued(r, "claim")
  <2>1. queue'[r] = <<>>
    BY <1>1, <1>10 DEF Callbacks
  <2>2. WellQueued(queue[r])'
    BY <1>6, <2>1 DEF WellQueued
  <2> QED
    BY <1>1, <1>2, <1>3, <1>5, <1>7, <1>10, <2>1, <2>2 DEF Queued, Holds
<1> QED
  BY <1>8, <1>9, <1>10

\* Leaving run() keeps every replica's part: the replica still is a member, and
\* a rebalance still is answered by the callback.
LEMMA ExitOwnership ==
    ASSUME TypeOK, NEW r \in Replica, OwnershipOf(r), Exit(r)
    PROVE  OwnershipOf(r)' /\ \A q \in Replica : q # r => Untouched(q)
<1>1. /\ WellQueued(queue[r])' /\ Running(r)'
      /\ \A t : Queued(r, t)' => Queued(r, t) /\ t \in {"release", "claim"}
      /\ Queued(r, "release") => Holds(r, "release")'
      /\ Queued(r, "release")' => ~Queued(r, "claim")'
      /\ Awaiting(r)' => Awaiting(r) /\ Holds(r, "release")
      /\ Awaiting(r) /\ Holds(r, "release") => Awaiting(r)'
      /\ \A q \in Replica : q # r => /\ queue'[q] = queue[q] /\ stage'[q] = stage[q]
                                     /\ inflight'[q] = inflight[q]
  BY ExitQueue
<1>2. UNCHANGED <<owner, joined, tracks, mapped, revoked, astray, leaving>>
  BY DEF Exit, brokerVars, stateVars
<1>3. Held(r)' = Held(r) /\ Owned(r)' = Owned(r)
  BY <1>2 DEF Held, Owned
<1>4. NothingOutside(r)' /\ WaitingIsOwned(r)'
  BY <1>1 DEF NothingOutside, WaitingIsOwned
<1>5. HeldIsOwned(r)' /\ RejoinedIsEmpty(r)'
  BY <1>1, <1>2, <1>3 DEF OwnershipOf, HeldIsOwned, RejoinedIsEmpty
<1>6. ReleaseIsWhole(r)'
  <2>1. Awaiting(r) /\ Holds(r, "release") => Holds(r, "release")'
    BY <1>1, HoldsIsQueued
  <2> QED
    BY <1>1, <1>2, <1>3, <2>1 DEF OwnershipOf, ReleaseIsWhole
<1> QED
  BY <1>1, <1>2, <1>4, <1>5, <1>6 DEF OwnershipOf, Untouched, Local

\* The last flush keeps every replica's part, and so does what ends it.
LEMMA CloseOwnership ==
    ASSUME Inv, NEW r \in Replica, Close(r) \/ Start(r)
    PROVE  OwnershipOf(r)' /\ \A q \in Replica : q # r => Untouched(q)
<1>1. TypeOK /\ \A q \in Replica : OwnershipOf(q)
  BY DEF Inv, OwnershipInv
<1>2. CASE LastRecord(r) \/ LastShow(r)
  <2>1. \A q \in Replica : Untouched(q)
    BY <1>2 DEF LastRecord, LastShow, brokerVars, stateVars, flushVars, taskVars, ghostVars,
       Untouched, Local
  <2> QED
    BY <1>1, <2>1, UntouchedKeeps
<1>3. CASE Leave(r)
  BY <1>1, <1>3, DepartOwnership DEF Leave
<1>4. CASE Start(r)
  <2>1. /\ stage[r] = "down"
        /\ UNCHANGED <<queue, leaving, tracks, mapped, astray, revoked, inflight, owner, joined>>
        /\ \A q \in Replica : q # r => stage'[q] = stage[q]
    BY <1>1, <1>4 DEF Start, stateVars, flushVars, ghostVars, brokerVars, TypeOK, TaskTypeOK
  <2>2. queue[r] = <<>> /\ leaving[r] = {} /\ \A a \in Aircraft : tracks[r][a] = NoTrack
    BY <1>1, <2>1 DEF OwnershipOf, NothingOutside, Running
  <2> QED
    BY <2>1, <2>2, OutsideOwnership DEF Untouched, Local
<1> QED
  BY <1>2, <1>3, <1>4 DEF Close

\* A failed operation keeps every replica's part.
LEMMA FailOwnership ==
    ASSUME Inv, NEW r \in Replica, Stop(r) \/ Crash(r) \/ Fail(r)
    PROVE  OwnershipOf(r)' /\ \A q \in Replica : q # r => Untouched(q)
<1>1. TypeOK /\ OwnershipOf(r)
  BY DEF Inv, OwnershipInv
<1>2. CASE Stop(r) \/ HandlerFails(r) \/ CommitFails(r)
  BY <1>1, <1>2, ExitOwnership DEF Stop, HandlerFails, CommitFails
<1>3. CASE Crash(r)
  BY <1>1, <1>3, DepartOwnership DEF Crash
<1>4. CASE SweepFails(r)
  <2>1. /\ Holds(r, "sweep") /\ queue[r] # <<>> /\ LeaveLock(r)
        /\ UNCHANGED <<owner, joined, tracks, mapped, astray, revoked, leaving, inflight>>
    BY <1>4 DEF SweepFails, Holds, brokerVars, stateVars
  <2>2. leaving[r] = {}
    BY <1>1, <2>1, HoldsIsQueued DEF OwnershipOf, ReleaseIsWhole
  <2>3. \A a \in Held(r)' : a \in Held(r) /\ a \in mapped'[r]
    BY <1>1, <2>1 DEF OwnershipOf, HeldIsOwned, Held
  <2>4. OwnershipOf(r)'
    BY <1>1, <2>1, <2>2, <2>3, LeaveOwnership
  <2> QED
    BY <1>1, <2>1, <2>4, LeaveKeeps DEF OwnershipOf, Untouched, Local
<1>5. CASE ReleaseFails(r)
  <2>1. /\ Holds(r, "release") /\ queue[r] # <<>> /\ Awaiting(r) /\ LeaveLock(r)
        /\ joined' = joined \cup {r}
        /\ UNCHANGED <<owner, tracks, mapped, revoked, inflight>>
    BY <1>5 DEF ReleaseFails, Holds, stateVars
  <2>2. /\ leaving'[r] = {} /\ astray'[r] = astray[r] \cup leaving[r]
        /\ \A q \in Replica : q # r => leaving'[q] = leaving[q] /\ astray'[q] = astray[q]
    BY <1>1, <1>5 DEF ReleaseFails, Stray, TypeOK, StateTypeOK
  <2>3. Owned(r) \subseteq revoked[r]
    BY <1>1, <2>1 DEF OwnershipOf, ReleaseIsWhole
  <2>4. Held(r)' = {}
    <3>1. ASSUME NEW a \in Held(r)' PROVE FALSE
      <4>1. a \in Held(r) /\ a \notin leaving[r]
        BY <2>1, <2>2, <3>1 DEF Held
      <4>2. PartitionFor[a] \in Owned(r)
        BY <1>1, <4>1, ServiceAssumption DEF OwnershipOf, HeldIsOwned, Owned, Held
      <4> QED
        BY <1>1, <2>3, <4>1, <4>2 DEF OwnershipOf, HeldIsOwned
    <3> QED
      BY <3>1
  <2>5. OwnershipOf(r)'
    BY <1>1, <2>1, <2>2, <2>3, <2>4, ReleaseOwnership
  <2> QED
    BY <1>1, <2>1, <2>2, <2>5, LeaveKeeps DEF OwnershipOf, Untouched, Local
<1>6. CASE LastFlushFails(r)
  <2>1. \A q \in Replica : Untouched(q)
    BY <1>6 DEF LastFlushFails, brokerVars, stateVars, flushVars, taskVars, Untouched, Local
  <2> QED
    BY <1>1, <2>1, UntouchedKeeps
<1> QED
  BY <1>2, <1>3, <1>4, <1>5, <1>6 DEF Fail

\* A new assignment: every member has rejoined, so no one holds anything.
LEMMA AssignOwnership ==
    ASSUME Inv, AssignAny, NEW r \in Replica
    PROVE  OwnershipOf(r)'
<1>1. TypeOK /\ OwnershipOf(r)
  BY DEF Inv, OwnershipInv
<1>2. /\ Members \subseteq joined
      /\ UNCHANGED <<joined, queue, stage, inflight, tracks, mapped, revoked, leaving, astray>>
  BY DEF AssignAny, Assign, stateVars, flushVars, taskVars, ghostVars
<1>3. CASE stage[r] = "down"
  BY <1>1, <1>2, <1>3, OutsideOwnership DEF OwnershipOf, NothingOutside, Running
<1>4. CASE stage[r] # "down"
  <2>1. r \in joined
    BY <1>2, <1>4 DEF Members, Running
  <2>2. Held(r)' = {} /\ ~Queued(r, "claim")' /\ ~Queued(r, "release")'
    BY <1>1, <1>2, <2>1 DEF OwnershipOf, RejoinedIsEmpty, Held, Queued
  <2>3. WellQueued(queue[r])' /\ NothingOutside(r)' /\ HeldIsOwned(r)' /\ RejoinedIsEmpty(r)'
    BY <1>1, <1>2, <2>2
    DEF OwnershipOf, WellQueued, NothingOutside, HeldIsOwned, RejoinedIsEmpty, Running
  <2>4. WaitingIsOwned(r)'
    BY <1>1, <1>2, <2>1 DEF OwnershipOf, WaitingIsOwned, Queued
  <2>5. ReleaseIsWhole(r)'
    <3>1. ~Holds(r, "release")
      BY <1>1, <2>1, HoldsIsQueued DEF OwnershipOf, RejoinedIsEmpty
    <3> QED
      BY <1>1, <1>2, <2>2, <3>1 DEF OwnershipOf, ReleaseIsWhole, Queued, Holds, Awaiting
  <2> QED
    BY <2>3, <2>4, <2>5 DEF OwnershipOf
<1> QED
  BY <1>3, <1>4

\* Every step keeps every replica's part of the invariant.
LEMMA OwnershipStep ==
    ASSUME Inv, [Next]_vars
    PROVE  OwnershipInv'
<1> SUFFICES ASSUME NEW q \in Replica
             PROVE  OwnershipOf(q)'
  BY DEF OwnershipInv
<1>1. TypeOK /\ OwnershipOf(q)
  BY DEF Inv, OwnershipInv
<1>2. CASE UNCHANGED vars \/ Tick \/ StartRebalance \/ \E a \in Aircraft : Produce(a)
  <2>1. Untouched(q)
    BY <1>2 DEF Tick, StartRebalance, Produce, Untouched, Local,
       vars, brokerVars, stateVars, flushVars, taskVars, ghostVars
  <2> QED
    BY <1>1, <2>1, UntouchedKeeps
<1>3. CASE AssignAny
  BY <1>3, AssignOwnership
<1>4. ASSUME NEW r \in Replica,
             \/ Consume(r) \/ Proceed(r) \/ SweepStep(r) \/ RebalanceStep(r)
             \/ Close(r) \/ Stop(r) \/ Crash(r) \/ Start(r) \/ Fail(r)
      PROVE  OwnershipOf(q)'
  <2>1. OwnershipOf(r)' /\ (q # r => Untouched(q))
    BY <1>4, ConsumeOwnership, ProceedOwnership, SweepOwnership, RebalanceOwnership,
       CloseOwnership, FailOwnership
  <2> QED
    BY <1>1, <2>1, UntouchedKeeps
<1> QED
  BY <1>2, <1>3, <1>4 DEF Next

\* The invariant holds initially.
LEMMA InvInit ==
    ASSUME Init
    PROVE  Inv
<1>1. TypeOK
  BY TypeInit
<1>2. WellPlaced
  BY DEF Init, WellPlaced
<1>3. ASSUME NEW r \in Replica PROVE OwnershipOf(r)
  <2>1. /\ queue[r] = <<>> /\ leaving[r] = {} /\ joined = {}
        /\ \A a \in Aircraft : tracks[r][a] = NoTrack
    BY DEF Init
  <2>2. WellQueued(queue[r]) /\ Held(r) = {} /\ \A t : ~Queued(r, t) /\ ~Holds(r, t)
    BY <2>1 DEF WellQueued, Held, Queued, Holds, Range
  <2> QED
    BY <2>1, <2>2 DEF OwnershipOf, NothingOutside, HeldIsOwned, RejoinedIsEmpty,
       WaitingIsOwned, ReleaseIsWhole
<1> QED
  BY <1>1, <1>2, <1>3 DEF Inv, OwnershipInv

\* The invariant is inductive.
LEMMA InvStep ==
    ASSUME Inv, [Next]_vars
    PROVE  Inv'
BY InvTypeInv, TypeStep, WellPlacedStep, OwnershipStep DEF Inv

-----------------------------------------------------------------------------
(* The theorems. *)

\* The inductive invariant -- types, placement of the reports and the five parts of
\* the ownership argument for each replica -- holds in every reachable state of the
\* sharded tracker, whatever the number of replicas, partitions, aircraft and failures.
THEOREM InvCorrect == Spec => []Inv
<1>1. Init => Inv
  BY InvInit
<1>2. Inv /\ [Next]_vars => Inv'
  BY InvStep
<1> QED
  BY <1>1, <1>2, PTL DEF Spec

\* The state of the broker, of every replica and of the stores keeps its shape:
\* in particular queues, buffers and batches hold only tasks and updates.
THEOREM TypeCorrect == Spec => []TypeOK
<1>1. Inv => TypeOK
  BY DEF Inv
<1> QED
  BY <1>1, InvCorrect, PTL

\* The invariant that the ownership argument rests on (runner.py: the lock, the
\* order of _partition_of, _revoked and the estimator's records).
THEOREM OwnershipCorrect == Spec => []OwnershipInv
<1>1. Inv => OwnershipInv
  BY DEF Inv
<1> QED
  BY <1>1, InvCorrect, PTL

\* ADR 0011: whatever the interleaving of reports, sweeps, rebalances, failures
\* and restarts, a track that is not astray is held by the owner of its
\* partition and by nobody else.
THEOREM SoleOwnerCorrect == Spec => []SoleOwner
<1>1. Inv => SoleOwner
  BY DEF Inv, OwnershipInv, OwnershipOf, HeldIsOwned, Held, SoleOwner
<1> QED
  BY <1>1, InvCorrect, PTL


-----------------------------------------------------------------------------
(* What is committed: the inductive invariant of the delivery.             *)

Published(x) == x \in discarded \/ \E u \in topic : Key(u) = x

BufferedAt(r) == Keys(pending[r]) \cup Keys(batch[r]) \cup Keys(changed[r])

Secured(x) ==
    \/ x \in history \cup discarded \cup lost
    \/ \E r \in Replica : x \in BufferedAt(r) \cup Keys(rest[r])

\* A report that may be committed.
Done(x) == Published(x) /\ Secured(x)

\* What the buffers hold where the holder of the lock is: outside a flush nothing
\* is under way, and a flush has all of the buffer and of the holder's updates.
BufferOf(r) ==
    /\ Awaiting(r) => queue[r] # <<>>
    /\ stage[r] # "publishing" => outbox[r] = <<>>
    /\ stage[r] \notin {"publishing", "recording", "showing", "forgetting"} => changed[r] = <<>>
    /\ stage[r] \notin {"recording", "showing"} => batch[r] = <<>>
    /\ stage[r] \notin {"idle", "entered", "publishing"} => pending[r] = <<>>
    /\ stage[r] = "recording" => Keys(changed[r]) \subseteq Keys(batch[r])
    /\ stage[r] \in {"showing", "forgetting"}
          => Keys(changed[r]) \cup Keys(batch[r]) \subseteq history
    /\ Awaiting(r) /\ Holds(r, "release") => changed[r] = <<>> /\ stage[r] \in {"recording", "showing"}

\* A replica whose run() is over has only its callback and its last flush left.
ClosingOf(r) ==
    /\ closing[r] # "no" =>
          /\ Running(r) /\ ~Queued(r, "handle") /\ ~Queued(r, "sweep")
          /\ pending[r] = <<>> /\ outbox[r] = <<>> /\ changed[r] = <<>> /\ inflight[r] = NoReport
    /\ closing[r] \notin {"recording", "showing"} => rest[r] = <<>>
    /\ closing[r] = "showing" => Keys(rest[r]) \subseteq history

\* How far the handler has brought its report.
HandlingOf(r) ==
    /\ Awaiting(r) /\ Holds(r, "handle") /\ stage[r] = "publishing" =>
          \E u \in TrackUpdate : outbox[r] = <<u>> /\ changed[r] = <<u>> /\ Key(u) = inflight[r]
    /\ Awaiting(r) /\ Holds(r, "handle") /\ stage[r] # "publishing" =>
          Published(inflight[r]) /\ inflight[r] \in Keys(batch[r]) \cup history

\* A replica has revoked what it owns only for the length of a rebalance.
ListenOf(r) ==
    /\ Queued(r, "release") => group = "revoking"
    /\ \A p \in revoked[r] : owner[p] = r => group = "revoking" \/ r \in joined \/ Queued(r, "claim")

OwnerIsUp == \A r \in Replica : stage[r] = "down" => \A p \in Partition : owner[p] # r

Working(r) == Running(r) /\ closing[r] = "no"

\* What was committed is done, and what the owner was handed is done or in its hands.
OffsetsOf(p) ==
    /\ committed[p] \in 0..Len(log[p]) /\ position[p] \in 0..Len(log[p])
    /\ \A i \in 1..committed[p] : Done(log[p][i])
    /\ \A r \in Replica : owner[p] = r /\ Working(r) =>
          \A i \in 1..position[p] :
             Done(log[p][i]) \/ (Queued(r, "handle") /\ log[p][i] = inflight[r])

DeliveryInv ==
    /\ Inv /\ OwnerIsUp
    /\ \A r \in Replica : BufferOf(r) /\ HandlingOf(r) /\ ClosingOf(r) /\ ListenOf(r)
    /\ \A p \in Partition : OffsetsOf(p)

-----------------------------------------------------------------------------
(* Sequences of updates.                                                   *)

\* The keys of no update, of one, and of a sequence of updates followed by another.
LEMMA KeysOf ==
    /\ Keys(<<>>) = {}
    /\ \A u : Keys(<<u>>) = {Key(u)}
    /\ \A s, t \in Seq(TrackUpdate) : Keys(s \o t) = Keys(s) \cup Keys(t)
<1>1. Range(<<>>) = {} /\ \A u : Range(<<u>>) = {u}
  BY DEF Range
<1>2. ASSUME NEW s \in Seq(TrackUpdate), NEW t \in Seq(TrackUpdate)
      PROVE  Range(s \o t) = Range(s) \cup Range(t)
  <2>1. /\ DOMAIN (s \o t) = 1..(Len(s) + Len(t)) /\ DOMAIN s = 1..Len(s) /\ DOMAIN t = 1..Len(t)
        /\ \A i \in DOMAIN s : (s \o t)[i] = s[i]
        /\ \A i \in DOMAIN (s \o t) : i > Len(s) => i - Len(s) \in DOMAIN t /\ (s \o t)[i] = t[i - Len(s)]
        /\ \A i \in DOMAIN t : i + Len(s) \in DOMAIN (s \o t) /\ (s \o t)[i + Len(s)] = t[i]
        /\ Len(s) \in Nat /\ Len(t) \in Nat
    OBVIOUS
  <2>2. Range(s \o t) \subseteq Range(s) \cup Range(t)
    <3>1. ASSUME NEW i \in DOMAIN (s \o t) PROVE (s \o t)[i] \in Range(s) \cup Range(t)
      <4>1. i \in DOMAIN s \/ i > Len(s)
        BY <2>1
      <4> QED
        BY <2>1, <4>1 DEF Range
    <3> QED
      BY <3>1 DEF Range
  <2>3. Range(s) \subseteq Range(s \o t)
    <3>1. ASSUME NEW i \in DOMAIN s PROVE s[i] \in Range(s \o t)
      <4>1. i \in DOMAIN (s \o t) /\ (s \o t)[i] = s[i]
        BY <2>1
      <4> QED
        BY <4>1 DEF Range
    <3> QED
      BY <3>1 DEF Range
  <2>4. Range(t) \subseteq Range(s \o t)
    <3>1. ASSUME NEW i \in DOMAIN t PROVE t[i] \in Range(s \o t)
      <4>1. i + Len(s) \in DOMAIN (s \o t) /\ (s \o t)[i + Len(s)] = t[i]
        BY <2>1
      <4> QED
        BY <4>1 DEF Range
    <3> QED
      BY <3>1 DEF Range
  <2> QED
    BY <2>2, <2>3, <2>4
<1> QED
  BY <1>1, <1>2 DEF Keys

-----------------------------------------------------------------------------
(* What a replica's step leaves alone.                                     *)

SameBuffers(q) ==
    /\ pending'[q] = pending[q] /\ outbox'[q] = outbox[q]
    /\ changed'[q] = changed[q] /\ batch'[q] = batch[q]

SameClose(q) == closing'[q] = closing[q] /\ rest'[q] = rest[q]

\* Nothing that was published, recorded or given up is taken back.
Grows ==
    /\ topic \subseteq topic' /\ history \subseteq history'
    /\ discarded \subseteq discarded' /\ lost \subseteq lost'

Apart(r) ==
    /\ \A q \in Replica : q # r => SameBuffers(q) /\ SameClose(q)
    /\ Grows /\ log' = log /\ group' = group

ReplicaStep(r) ==
    \/ Consume(r) \/ Proceed(r) \/ SweepStep(r) \/ RebalanceStep(r)
    \/ Close(r) \/ Stop(r) \/ Crash(r) \/ Start(r) \/ Fail(r)

\* A flush that ends touches no other replica's buffers.
LEMMA FinishFlushApart ==
    ASSUME FlushTypeOK, NEW r \in Replica, FinishFlush(r)
    PROVE  \A q \in Replica : q # r => changed'[q] = changed[q] /\ batch'[q] = batch[q]
BY DEF FinishFlush, FinishHandle, FinishSweep, FinishRelease, FlushTypeOK

\* A replica that ends or departs touches no other replica.
LEMMA ExitApart ==
    ASSUME FlushTypeOK, CloseTypeOK, NEW r \in Replica,
           \/ Exit(r)
           \/ Depart(r) /\ lost \subseteq lost'
    PROVE  Apart(r)
<1>1. ASSUME NEW q \in Replica, q # r
      PROVE  pending'[q] = pending[q] /\ outbox'[q] = outbox[q]
  BY <1>1 DEF Exit, Depart, Wipe, FlushTypeOK
<1>2. ASSUME NEW q \in Replica, q # r
      PROVE  changed'[q] = changed[q] /\ batch'[q] = batch[q]
  BY <1>2 DEF Exit, Depart, Wipe, FlushTypeOK
<1>3. ASSUME NEW q \in Replica, q # r PROVE SameClose(q)
  BY <1>3 DEF Exit, Depart, Wipe, CloseTypeOK, SameClose
<1>4. Grows /\ log' = log /\ group' = group
  BY DEF Exit, Depart, Grows, storeVars, brokerVars
<1> QED
  BY <1>1, <1>2, <1>3, <1>4 DEF Apart, SameBuffers

\* A step of one replica leaves the others' buffers, queues and reports alone.
LEMMA StepApart ==
    ASSUME TypeOK, NEW r \in Replica, ReplicaStep(r)
    PROVE  Apart(r)
<1>1. FlushTypeOK /\ CloseTypeOK
  BY DEF TypeOK
<1>11. ASSUME UNCHANGED closeVars PROVE \A q \in Replica : SameClose(q)
  BY <1>11 DEF closeVars, SameClose
<1>12. \/ Consume(r) \/ Proceed(r) \/ SweepStep(r) \/ RebalanceStep(r) \/ Start(r)
       \/ SweepFails(r) \/ ReleaseFails(r)
       => \A q \in Replica : SameClose(q)
  BY <1>11, ServiceKeepsClose
<1> USE <1>12 DEF Apart, SameBuffers, Grows, brokerVars, flushVars, storeVars, ghostVars
<1>2. CASE Consume(r)
  BY <1>1, <1>2 DEF Consume, Receive, DiscardReport, HandleReport, Commit, FlushTypeOK
<1>3. CASE Proceed(r)
  <2>0. \A q \in Replica : SameClose(q)
    BY <1>3, <1>12
  <2>1. CASE Publish(r)
    BY <1>1, <2>0, <2>1 DEF Publish, BufferChanged, StartFlush, FlushTypeOK
  <2>2. CASE Record(r)
    <3>1. /\ UNCHANGED <<log, group, pending, outbox, topic, live, discarded, lost>>
          /\ history' = history \cup Keys(batch[r])
      BY <2>2 DEF Record
    <3>2. \A q \in Replica : q # r => changed'[q] = changed[q] /\ batch'[q] = batch[q]
      BY <1>1, <2>2, FinishFlushApart DEF Record
    <3> QED
      BY <2>0, <3>1, <3>2
  <2>3. CASE Show(r)
    <3>1. UNCHANGED <<log, group, pending, outbox, topic, history, discarded, lost>>
      BY <2>3 DEF Show
    <3>2. \A q \in Replica : q # r => changed'[q] = changed[q] /\ batch'[q] = batch[q]
      BY <1>1, <2>3, FinishFlushApart DEF Show
    <3> QED
      BY <2>0, <3>1, <3>2
  <2>4. CASE ForgetTerminated(r)
    BY <1>1, <2>0, <2>4 DEF ForgetTerminated, FlushTypeOK
  <2> QED
    BY <1>3, <2>1, <2>2, <2>3, <2>4 DEF Proceed
<1>4. CASE SweepStep(r)
  BY <1>1, <1>4 DEF SweepStep, SweepTimer, SweepNothing, SweepChanged, FlushTypeOK
<1>5. CASE RebalanceStep(r)
  BY <1>1, <1>5 DEF RebalanceStep, Rejoin, ReleasePartitions, StartFlush, Learn, ClaimPartitions,
     FlushTypeOK
<1>6. CASE LastRecord(r) \/ LastShow(r) \/ LastFlushFails(r)
  <2>1. \A q \in Replica : q # r => SameClose(q)
    BY <1>1, <1>6 DEF LastRecord, LastShow, LastFlushFails, CloseTypeOK, SameClose
  <2> QED
    BY <1>6, <2>1 DEF LastRecord, LastShow, LastFlushFails
<1>7. CASE Start(r)
  BY <1>7 DEF Start
<1>8. CASE Stop(r) \/ HandlerFails(r) \/ CommitFails(r) \/ Leave(r) \/ Crash(r)
  BY <1>1, <1>8, ExitApart DEF Stop, HandlerFails, CommitFails, Leave, Crash
<1>9. CASE SweepFails(r) \/ ReleaseFails(r)
  BY <1>1, <1>9 DEF SweepFails, ReleaseFails, FlushTypeOK
<1> QED
  BY <1>2, <1>3, <1>4, <1>5, <1>6, <1>7, <1>8, <1>9 DEF ReplicaStep, Close, Fail

-----------------------------------------------------------------------------
(* What a replica's own step does to its buffers and to its report.        *)

\* What was buffered is recorded, still buffered, or known to be lost.
Persist(r) ==
    \A x \in BufferedAt(r) : x \in BufferedAt(r)' \cup Keys(rest[r])' \cup history' \cup lost'

\* So is what run()'s last flush took.
RestPersists(r) == \A x \in Keys(rest[r]) : x \in Keys(rest[r])' \cup history' \cup lost'

\* A handler that leaves the lock has done with its report, or the replica stops.
Handled(r) == Published(inflight[r]) /\ inflight[r] \in BufferedAt(r) \cup history \cup discarded

Answered(r) ==
    Queued(r, "handle") /\ Working(r)' =>
        \/ Queued(r, "handle")' /\ inflight'[r] = inflight[r]
        \/ Handled(r)' /\ inflight'[r] = inflight[r]

Flow(r) == BufferOf(r)' /\ HandlingOf(r)' /\ Persist(r) /\ Answered(r)

\* The invariant of the replica that acts.
Before(r) == Inv /\ BufferOf(r) /\ HandlingOf(r) /\ ClosingOf(r)

\* What is known of a replica before it takes a step.
LEMMA BeforeTypes ==
    ASSUME NEW r \in Replica, Before(r)
    PROVE  /\ TypeOK /\ TaskTypeOK /\ FlushTypeOK /\ StoreTypeOK /\ WellQueued(queue[r])
           /\ Queued(r, "handle") => inflight[r] # NoReport
BY DEF Before, Inv, TypeOK, OwnershipInv, OwnershipOf, WaitingIsOwned

\* The holder leaves with empty hands.
LEMMA LeaveFlow ==
    ASSUME NEW r \in Replica, Before(r), queue[r] # <<>>, LeaveLock(r),
           outbox'[r] = <<>>, changed'[r] = <<>>, batch'[r] = <<>>,
           inflight'[r] = inflight[r], Persist(r),
           Holds(r, "handle") => Handled(r)'
    PROVE  Flow(r)
<1>1. TypeOK /\ WellQueued(queue[r])
  BY BeforeTypes
<1>2. stage'[r] \in {"idle", "entered"}
  BY <1>1 DEF LeaveLock, TypeOK, TaskTypeOK
<1>3. ~Awaiting(r)' /\ \A t : Queued(r, t)' <=> Queued(r, t) /\ ~Holds(r, t)
  BY <1>1, LeaveKeeps
<1>4. BufferOf(r)'
  BY <1>2, <1>3 DEF BufferOf
<1>5. HandlingOf(r)'
  BY <1>3 DEF HandlingOf
<1>6. Answered(r)
  BY <1>3 DEF Answered
<1> QED
  BY <1>4, <1>5, <1>6 DEF Flow

\* A task asks for the lock, and nothing else happens.
LEMMA AcquireFlow ==
    ASSUME NEW r \in Replica, Before(r), Loops(r),
           NEW t \in Task, ~Queued(r, t), t = "handle" => ~Queued(r, "claim"), Acquire(r, t),
           SameBuffers(r), UNCHANGED <<topic, history, discarded>>,
           inflight'[r] = inflight[r] \/ ~Queued(r, "handle")
    PROVE  Flow(r)
<1>1. TypeOK /\ WellQueued(queue[r])
  BY BeforeTypes
<1>2. /\ \A u : Queued(r, u)' <=> Queued(r, u) \/ u = t
      /\ Awaiting(r)' => Awaiting(r) /\ queue[r] # <<>>
      /\ queue[r] # <<>> => \A u : Holds(r, u)' <=> Holds(r, u)
  BY <1>1, AcquireKeeps
<1>3. queue'[r] # <<>>
  BY <1>1, AppendTask DEF Acquire, TypeOK, TaskTypeOK
<1>4. stage'[r] = stage[r] \/ (stage[r] = "idle" /\ stage'[r] = "entered")
  BY <1>1 DEF Before, BufferOf, Acquire, Loops, Running, Awaiting, TypeOK, TaskTypeOK, Stage
<1>5. BufferOf(r)'
  BY <1>1, <1>2, <1>3, <1>4, HoldsIsQueued DEF Before, BufferOf, SameBuffers, Keys
<1>6. ASSUME Awaiting(r)', Holds(r, "handle")'
      PROVE  Awaiting(r) /\ Holds(r, "handle") /\ inflight'[r] = inflight[r] /\ stage'[r] = stage[r]
  BY <1>1, <1>2, <1>4, <1>6, HoldsIsQueued DEF Awaiting
<1>7. HandlingOf(r)'
  BY <1>6 DEF Before, HandlingOf, SameBuffers, Published
<1>8. Persist(r)
  BY DEF Persist, BufferedAt, SameBuffers
<1>9. Answered(r)
  BY <1>2 DEF Answered
<1> QED
  BY <1>5, <1>7, <1>8, <1>9 DEF Flow

\* A replica that has departed has nothing.
LEMMA DepartFlow ==
    ASSUME NEW r \in Replica, TypeOK, Depart(r), Persist(r), RestPersists(r)
    PROVE  Flow(r) /\ ClosingOf(r)' /\ RestPersists(r)
<1>1. outbox'[r] = <<>> /\ changed'[r] = <<>>
  BY DEF Depart, Wipe, TypeOK, FlushTypeOK
<1>2. pending'[r] = <<>> /\ batch'[r] = <<>>
  BY DEF Depart, Wipe, TypeOK, FlushTypeOK
<1>3. closing'[r] = "no" /\ rest'[r] = <<>>
  BY DEF Depart, Wipe, TypeOK, CloseTypeOK
<1>4. stage'[r] = "down"
  BY DEF Depart, TypeOK, TaskTypeOK
<1>5. ~Awaiting(r)' /\ ~Running(r)'
  BY <1>4 DEF Awaiting, Running
<1>6. BufferOf(r)'
  BY <1>1, <1>2, <1>4, <1>5 DEF BufferOf
<1>7. ClosingOf(r)'
  BY <1>3 DEF ClosingOf
<1> QED
  BY <1>5, <1>6, <1>7 DEF Flow, HandlingOf, Answered, Working

\* Whoever has just been given the lock has empty hands.
LEMMA EntersEmpty ==
    ASSUME NEW r \in Replica, Before(r), NEW t, Enters(r, t)
    PROVE  /\ outbox[r] = <<>> /\ changed[r] = <<>> /\ batch[r] = <<>>
           /\ Holds(r, t) /\ queue[r] # <<>> /\ ~Awaiting(r) /\ Queued(r, t)
           /\ \A u : Holds(r, u) => u = t
BY BeforeTypes, HoldsIsQueued DEF Enters, Before, BufferOf, Awaiting

\* The consumer's steps.
LEMMA ConsumeFlow ==
    ASSUME NEW r \in Replica, Before(r), Consume(r)
    PROVE  Flow(r)
<1>1. /\ TypeOK /\ TaskTypeOK /\ FlushTypeOK /\ StoreTypeOK /\ WellQueued(queue[r])
      /\ Queued(r, "handle") => inflight[r] # NoReport
  BY BeforeTypes
<1>2. ASSUME NEW p \in Partition, Receive(r, p) PROVE Flow(r)
  <2>1. /\ Loops(r) /\ ~Queued(r, "handle") /\ ~Queued(r, "claim") /\ Acquire(r, "handle")
        /\ SameBuffers(r) /\ UNCHANGED <<topic, history, discarded>>
    BY <1>1, <1>2 DEF Receive, Works, SameBuffers, flushVars, storeVars
  <2> QED
    BY <2>1, AcquireFlow DEF Task
<1>3. CASE DiscardReport(r)
  <2>1. /\ Enters(r, "handle") /\ LeaveLock(r) /\ SameBuffers(r)
        /\ UNCHANGED <<inflight, topic, history, lost>>
        /\ discarded' = discarded \cup {inflight[r]}
    BY <1>3 DEF DiscardReport, SameBuffers, flushVars, storeVars
  <2>2. Handled(r)'
    BY <2>1 DEF Handled, Published
  <2>3. Persist(r)
    BY <2>1 DEF Persist, BufferedAt, SameBuffers
  <2> QED
    BY <2>1, <2>2, <2>3, EntersEmpty, LeaveFlow DEF SameBuffers
<1>4. CASE HandleReport(r)
  <2> DEFINE folded == OnReport(tracks[r], inflight[r])
             update == ToUpdate(folded, inflight[r].ac, inflight[r].at)
  <2>1. /\ Enters(r, "handle") /\ UNCHANGED <<pending, batch, queue, inflight, history>>
        /\ outbox'[r] = <<update>> /\ changed'[r] = <<update>> /\ stage'[r] = "publishing"
    BY <1>1, <1>4 DEF HandleReport, FlushTypeOK, TaskTypeOK, storeVars
  <2>2. outbox[r] = <<>> /\ changed[r] = <<>> /\ batch[r] = <<>> /\ queue[r] # <<>>
    BY <2>1, EntersEmpty
  <2>3. inflight[r] \in Report
    BY <1>1, <2>1, EntersEmpty DEF TaskTypeOK
  <2>4. Key(update) = inflight[r]
    BY <2>3 DEF Key, ToUpdate, Report
  <2>5. update \in TrackUpdate
    BY <1>1, <2>3, OnReportType
    DEF TypeOK, StateTypeOK, ToUpdate, TrackUpdate, TrackRecord, Report
  <2>6. BufferOf(r)'
    BY <2>1, <2>2, EntersEmpty DEF BufferOf, Holds
  <2>7. HandlingOf(r)'
    BY <2>1, <2>4, <2>5 DEF HandlingOf, Awaiting
  <2>8. Persist(r)
    BY <2>1, <2>2, KeysOf DEF Persist, BufferedAt
  <2>9. Answered(r)
    BY <2>1 DEF Answered, Queued
  <2> QED
    BY <2>6, <2>7, <2>8, <2>9 DEF Flow
<1>5. CASE Commit(r)
  <2>1. /\ UNCHANGED <<queue, stage, pending, outbox, changed, batch, history>>
        /\ ~Queued(r, "handle")
    BY <1>5 DEF Commit, flushVars, storeVars
  <2>2. ~Holds(r, "handle")
    BY <1>1, <2>1, HoldsIsQueued
  <2>3. BufferOf(r)'
    BY <2>1 DEF Before, BufferOf, Awaiting, Keys, Holds
  <2>4. HandlingOf(r)'
    BY <2>1, <2>2 DEF HandlingOf, Holds
  <2> QED
    BY <2>1, <2>3, <2>4 DEF Flow, Persist, BufferedAt, Answered
<1> QED
  BY <1>2, <1>3, <1>4, <1>5 DEF Consume

\* A flush begins with everything that is buffered and everything the holder has.
LEMMA StartFlushFlow ==
    ASSUME NEW r \in Replica, Before(r), NEW all \in Seq(TrackUpdate), StartFlush(r, all),
           BufferedAt(r) \subseteq Keys(all), Keys(changed[r]) \subseteq Keys(all),
           outbox'[r] = <<>>, queue[r] # <<>>, Awaiting(r) \/ changed[r] = <<>>,
           changed'[r] = changed[r], UNCHANGED <<queue, inflight>>,
           Holds(r, "handle") => Published(inflight[r])' /\ inflight[r] \in Keys(all)
    PROVE  Flow(r)
<1>1. TaskTypeOK /\ FlushTypeOK
  BY BeforeTypes
<1>2. stage'[r] = "recording" /\ batch'[r] = all /\ pending'[r] = <<>>
  BY <1>1 DEF StartFlush, TaskTypeOK, FlushTypeOK
<1>3. BufferOf(r)'
  BY <1>2 DEF Before, BufferOf, Keys, Holds
<1>4. HandlingOf(r)'
  BY <1>2 DEF HandlingOf, Holds
<1>5. Persist(r)
  BY <1>2 DEF Persist, BufferedAt, Keys
<1>6. Answered(r)
  BY DEF Answered, Queued
<1> QED
  BY <1>3, <1>4, <1>5, <1>6 DEF Flow

\* One more update of the holder's is on the topic.
LEMMA PublishFlow ==
    ASSUME NEW r \in Replica, Before(r), Publish(r)
    PROVE  Flow(r)
<1>1. TypeOK /\ TaskTypeOK /\ FlushTypeOK
  BY BeforeTypes
<1>2. /\ stage[r] = "publishing" /\ outbox[r] \in Seq(TrackUpdate) /\ outbox[r] # <<>>
      /\ topic' = topic \cup {Head(outbox[r])} /\ outbox'[r] = Tail(outbox[r])
      /\ UNCHANGED <<inflight, history, lost, discarded>>
  BY <1>1 DEF Publish, FlushTypeOK, ghostVars
<1>3. Awaiting(r) /\ queue[r] # <<>> /\ batch[r] = <<>>
  BY <1>2 DEF Before, BufferOf, Awaiting
<1>4. Holds(r, "handle") => /\ outbox[r] = <<Head(outbox[r])>> /\ changed[r] = outbox[r]
                            /\ Key(Head(outbox[r])) = inflight[r]
  BY <1>2, <1>3 DEF Before, HandlingOf
<1>5. Holds(r, "handle") => Published(inflight[r])' /\ inflight[r] \in Keys(changed[r])
  BY <1>2, <1>4, KeysOf DEF Published
<1>6. CASE Len(outbox[r]) = 1
  <2> DEFINE buffered == pending[r] \o changed[r]
  <2>1. outbox'[r] = <<>>
    <3>1. Tail(outbox[r]) \in Seq(TrackUpdate) /\ Len(Tail(outbox[r])) = 0
      BY <1>2, <1>6
    <3>2. \A t \in Seq(TrackUpdate) : Len(t) = 0 => t = <<>>
      OBVIOUS
    <3> QED
      BY <1>2, <3>1, <3>2
  <2>2. buffered \in Seq(TrackUpdate) /\ Keys(buffered) = Keys(pending[r]) \cup Keys(changed[r])
    BY <1>1, KeysOf DEF FlushTypeOK
  <2>3. BufferedAt(r) = Keys(buffered)
    BY <1>3, <2>2, KeysOf DEF BufferedAt
  <2>4. CASE StartFlush(r, buffered) /\ UNCHANGED <<queue, changed>>
    BY <1>2, <1>3, <1>5, <2>1, <2>2, <2>3, <2>4, StartFlushFlow
  <2>5. CASE /\ Holds(r, "handle") /\ LeaveLock(r)
             /\ pending' = [pending EXCEPT ![r] = buffered]
             /\ changed' = [changed EXCEPT ![r] = <<>>]
             /\ UNCHANGED batch
    <3>1. pending'[r] = buffered /\ changed'[r] = <<>> /\ batch'[r] = <<>>
      BY <1>1, <1>3, <2>5 DEF FlushTypeOK
    <3>2. Persist(r)
      BY <2>3, <3>1 DEF Persist, BufferedAt, Keys
    <3>3. Handled(r)'
      BY <1>2, <1>5, <2>2, <2>5, <3>1 DEF Handled, Published, BufferedAt, Keys
    <3> QED
      BY <1>2, <1>3, <2>1, <2>5, <3>1, <3>2, <3>3, LeaveFlow
  <2> QED
    BY <1>6, <2>4, <2>5 DEF Publish, BufferChanged
<1>7. CASE Len(outbox[r]) # 1
  <2>1. UNCHANGED <<stage, queue, changed, pending, batch>>
    BY <1>7 DEF Publish
  <2>2. ~Holds(r, "handle")
    BY <1>4, <1>7
  <2>3. BufferOf(r)'
    BY <1>2, <2>1 DEF Before, BufferOf, Awaiting, Keys, Holds
  <2>4. HandlingOf(r)'
    BY <2>1, <2>2 DEF HandlingOf, Holds
  <2> QED
    BY <1>2, <2>1, <2>3, <2>4 DEF Flow, Persist, BufferedAt, Answered, Queued
<1> QED
  BY <1>6, <1>7

\* A flush ends once all it had is recorded.
LEMMA FinishFlushFlow ==
    ASSUME NEW r \in Replica, Before(r), FinishFlush(r), stage[r] \in {"recording", "showing"},
           UNCHANGED <<outbox, pending, inflight, topic, discarded>>, history \subseteq history',
           Keys(batch[r]) \cup Keys(changed[r]) \subseteq history'
    PROVE  Flow(r)
<1>1. TypeOK /\ TaskTypeOK /\ FlushTypeOK
  BY BeforeTypes
<1>2. /\ Awaiting(r) /\ queue[r] # <<>> /\ pending[r] = <<>> /\ outbox'[r] = <<>> /\ batch'[r] = <<>>
  BY <1>1 DEF Before, BufferOf, Awaiting, FinishFlush, FlushTypeOK
<1>3. Persist(r)
  <2>1. BufferedAt(r) \subseteq history'
    BY <1>2, KeysOf DEF BufferedAt
  <2> QED
    BY <2>1 DEF Persist
<1>4. Holds(r, "handle") => Handled(r)'
  BY <1>2 DEF Before, HandlingOf, Handled, Published
<1>5. CASE FinishHandle(r)
  BY <1>1, <1>2, <1>3, <1>4, <1>5, LeaveFlow DEF FinishHandle, FlushTypeOK
<1>6. CASE FinishRelease(r)
  <2>1. changed'[r] = <<>>
    BY <1>2, <1>6 DEF FinishRelease, Before, BufferOf
  <2> QED
    BY <1>2, <1>3, <1>4, <1>6, <2>1, LeaveFlow DEF FinishRelease
<1>7. CASE FinishSweep(r) /\ Departed(changed[r]) # {}
  <2>1. /\ stage'[r] = "forgetting" /\ UNCHANGED <<queue, changed>> /\ Holds(r, "sweep")
    BY <1>1, <1>7 DEF FinishSweep, TaskTypeOK
  <2>2. BufferOf(r)'
    BY <1>2, <2>1, KeysOf DEF BufferOf, Keys, Holds
  <2>3. HandlingOf(r)'
    BY <2>1 DEF HandlingOf, Holds
  <2> QED
    BY <1>3, <2>1, <2>2, <2>3 DEF Flow, Answered, Queued
<1>8. CASE FinishSweep(r) /\ ~(Departed(changed[r]) # {})
  BY <1>1, <1>2, <1>3, <1>4, <1>8, LeaveFlow DEF FinishSweep, FlushTypeOK
<1> QED
  BY <1>5, <1>6, <1>7, <1>8 DEF FinishFlush

\* What the holder of the lock does once its await is over.
LEMMA ProceedFlow ==
    ASSUME NEW r \in Replica, Before(r), Proceed(r)
    PROVE  Flow(r)
<1>1. TypeOK /\ TaskTypeOK /\ FlushTypeOK
  BY BeforeTypes
<1>2. CASE Record(r)
  <2>1. /\ stage[r] = "recording" /\ history' = history \cup Keys(batch[r])
        /\ UNCHANGED <<outbox, pending, inflight, topic, discarded>>
    BY <1>2 DEF Record
  <2>2. Keys(batch[r]) \cup Keys(changed[r]) \subseteq history'
    BY <2>1 DEF Before, BufferOf
  <2>3. CASE FinishFlush(r)
    BY <2>1, <2>2, <2>3, FinishFlushFlow
  <2>4. CASE stage' = [stage EXCEPT ![r] = "showing"] /\ UNCHANGED <<batch, queue, changed>>
    <3>1. stage'[r] = "showing" /\ Awaiting(r)
      BY <1>1, <2>1, <2>4 DEF TaskTypeOK, Awaiting
    <3>2. BufferOf(r)'
      BY <2>1, <2>2, <2>4, <3>1 DEF Before, BufferOf, Keys, Holds
    <3>3. HandlingOf(r)'
      BY <2>1, <2>4, <3>1 DEF Before, HandlingOf, Holds, Published, Keys
    <3> QED
      BY <2>1, <2>4, <3>2, <3>3 DEF Flow, Persist, BufferedAt, Answered, Queued
  <2> QED
    BY <1>2, <2>3, <2>4 DEF Record
<1>3. CASE Show(r)
  <2>1. /\ stage[r] = "showing" /\ FinishFlush(r)
        /\ UNCHANGED <<outbox, pending, inflight, topic, discarded, history>>
    BY <1>3 DEF Show
  <2>2. Keys(batch[r]) \cup Keys(changed[r]) \subseteq history'
    BY <2>1 DEF Before, BufferOf
  <2> QED
    BY <2>1, <2>2, FinishFlushFlow
<1>4. CASE ForgetTerminated(r)
  <2>1. /\ stage[r] = "forgetting" /\ Holds(r, "sweep") /\ LeaveLock(r) /\ changed'[r] = <<>>
        /\ UNCHANGED <<pending, outbox, batch, inflight, history, lost>>
    BY <1>1, <1>4 DEF ForgetTerminated, FlushTypeOK
  <2>2. outbox[r] = <<>> /\ batch[r] = <<>> /\ Keys(changed[r]) \subseteq history /\ queue[r] # <<>>
    BY <1>1, <2>1, HoldsIsQueued DEF Before, BufferOf
  <2>3. Persist(r)
    BY <2>1, <2>2 DEF Persist, BufferedAt
  <2>4. ~Holds(r, "handle")
    BY <1>1, <2>1, HoldsIsQueued
  <2> QED
    BY <2>1, <2>2, <2>3, <2>4, LeaveFlow
<1> QED
  BY <1>2, <1>3, <1>4, PublishFlow DEF Proceed

\* The sweeper's steps.
LEMMA SweepFlow ==
    ASSUME NEW r \in Replica, Before(r), SweepStep(r)
    PROVE  Flow(r)
<1>1. TypeOK /\ TaskTypeOK /\ FlushTypeOK /\ WellQueued(queue[r])
  BY BeforeTypes
<1>2. CASE SweepTimer(r)
  <2>1. /\ Loops(r) /\ ~Queued(r, "sweep") /\ Acquire(r, "sweep") /\ inflight' = inflight
        /\ SameBuffers(r) /\ UNCHANGED <<topic, history, discarded>>
    BY <1>2 DEF SweepTimer, Works, SameBuffers, flushVars, storeVars, ghostVars
  <2> QED
    BY <2>1, AcquireFlow DEF Task
<1>3. CASE SweepNothing(r)
  <2>1. /\ Enters(r, "sweep") /\ LeaveLock(r) /\ SameBuffers(r) /\ inflight' = inflight
    BY <1>3 DEF SweepNothing, SameBuffers, flushVars
  <2>2. Persist(r)
    BY <2>1 DEF Persist, BufferedAt, SameBuffers
  <2> QED
    BY <2>1, <2>2, EntersEmpty, LeaveFlow DEF SameBuffers
<1>4. CASE SweepChanged(r)
  <2>1. /\ Enters(r, "sweep") /\ UNCHANGED <<pending, batch, queue, inflight, history>>
        /\ stage'[r] = "publishing"
    BY <1>1, <1>4 DEF SweepChanged, TaskTypeOK, storeVars
  <2>2. changed[r] = <<>> /\ batch[r] = <<>> /\ queue[r] # <<>> /\ Holds(r, "sweep")
    BY <2>1, EntersEmpty
  <2>3. BufferOf(r)'
    BY <2>1, <2>2 DEF BufferOf, Holds
  <2>4. HandlingOf(r)'
    BY <2>1, <2>2 DEF HandlingOf, Holds
  <2>5. Persist(r)
    BY <2>1, <2>2, KeysOf DEF Persist, BufferedAt
  <2> QED
    BY <2>1, <2>3, <2>4, <2>5 DEF Flow, Answered, Queued
<1> QED
  BY <1>2, <1>3, <1>4 DEF SweepStep

\* The rebalance, as one member sees it.
LEMMA RebalanceFlow ==
    ASSUME NEW r \in Replica, Before(r), RebalanceStep(r)
    PROVE  Flow(r)
<1>1. TypeOK /\ TaskTypeOK /\ FlushTypeOK /\ WellQueued(queue[r])
  BY BeforeTypes
<1>2. ASSUME UNCHANGED <<queue, stage, inflight, topic, history, discarded>>, SameBuffers(r)
      PROVE  Flow(r)
  <2>1. BufferOf(r)'
    BY <1>2 DEF Before, BufferOf, SameBuffers, Awaiting, Holds, Keys
  <2>2. HandlingOf(r)'
    BY <1>2 DEF Before, HandlingOf, SameBuffers, Awaiting, Holds, Keys, Published
  <2> QED
    BY <1>2, <2>1, <2>2 DEF Flow, Persist, BufferedAt, SameBuffers, Answered, Queued
<1>3. CASE Rejoin(r)
  <2>1. /\ Loops(r) /\ ~Queued(r, "release") /\ inflight' = inflight
        /\ UNCHANGED <<queue, stage>> \/ Acquire(r, "release")
        /\ SameBuffers(r) /\ UNCHANGED <<topic, history, discarded>>
    BY <1>3 DEF Rejoin, SameBuffers, flushVars, storeVars, ghostVars
  <2> QED
    BY <1>2, <2>1, AcquireFlow DEF Task
<1>4. CASE ReleasePartitions(r)
  <2>1. /\ Enters(r, "release") /\ UNCHANGED <<outbox, changed, inflight>>
        /\ \/ LeaveLock(r) /\ UNCHANGED <<pending, batch>>
           \/ StartFlush(r, pending[r]) /\ UNCHANGED queue
    BY <1>4 DEF ReleasePartitions
  <2>2. /\ outbox[r] = <<>> /\ changed[r] = <<>> /\ batch[r] = <<>> /\ queue[r] # <<>>
        /\ ~Holds(r, "handle")
    BY <2>1, EntersEmpty
  <2>3. BufferedAt(r) = Keys(pending[r]) /\ Keys(changed[r]) = {}
    BY <2>2, KeysOf DEF BufferedAt
  <2>4. CASE LeaveLock(r) /\ UNCHANGED <<pending, batch>>
    <3>1. Persist(r)
      BY <2>1, <2>4 DEF Persist, BufferedAt
    <3> QED
      BY <2>1, <2>2, <2>4, <3>1, LeaveFlow
  <2>5. CASE StartFlush(r, pending[r]) /\ UNCHANGED queue
    BY <1>1, <2>1, <2>2, <2>3, <2>5, StartFlushFlow DEF FlushTypeOK
  <2> QED
    BY <2>1, <2>4, <2>5
<1>5. CASE Learn(r)
  <2>1. /\ Loops(r) /\ r \in joined /\ inflight' = inflight
        /\ UNCHANGED <<queue, stage>> \/ Acquire(r, "claim")
        /\ SameBuffers(r) /\ UNCHANGED <<topic, history, discarded>>
    BY <1>5 DEF Learn, SameBuffers, flushVars, storeVars, ghostVars
  <2>2. ~Queued(r, "claim")
    BY <2>1 DEF Before, Inv, OwnershipInv, OwnershipOf, RejoinedIsEmpty
  <2> QED
    BY <1>2, <2>1, <2>2, AcquireFlow DEF Task
<1>6. CASE ClaimPartitions(r)
  <2>1. Enters(r, "claim") /\ LeaveLock(r) /\ SameBuffers(r) /\ inflight' = inflight
    BY <1>6 DEF ClaimPartitions, SameBuffers, flushVars
  <2>2. Persist(r)
    BY <2>1 DEF Persist, BufferedAt, SameBuffers
  <2> QED
    BY <2>1, <2>2, EntersEmpty, LeaveFlow DEF SameBuffers
<1> QED
  BY <1>3, <1>4, <1>5, <1>6 DEF RebalanceStep

\* Before run() is over, a replica does as it did; afterwards only its callback and
\* the end of its flush are left to do, and the last flush stays as it is.
LEMMA ServiceClosing ==
    ASSUME NEW r \in Replica, Before(r),
           \/ Consume(r) \/ Proceed(r) \/ SweepStep(r) \/ RebalanceStep(r)
    PROVE  ClosingOf(r)' /\ RestPersists(r)
<1>1. /\ TypeOK /\ TaskTypeOK /\ FlushTypeOK /\ WellQueued(queue[r]) /\ ClosingOf(r)
  BY BeforeTypes DEF Before
<1>2. closing' = closing /\ rest' = rest
  BY ServiceKeepsClose DEF closeVars
<1>3. history \subseteq history'
  BY <1>1, StepApart DEF ReplicaStep, Apart, Grows
<1>4. RestPersists(r)
  BY <1>2 DEF RestPersists, Keys
<1>5. CASE closing[r] = "no"
  BY <1>1, <1>2, <1>4, <1>5 DEF ClosingOf
<1>6. CASE closing[r] # "no"
  <2>1. /\ Running(r) /\ ~Queued(r, "handle") /\ ~Queued(r, "sweep")
        /\ pending[r] = <<>> /\ outbox[r] = <<>> /\ changed[r] = <<>> /\ inflight[r] = NoReport
        /\ ~Works(r)
    BY <1>1, <1>6 DEF ClosingOf, Works
  <2>2. ~Holds(r, "handle") /\ ~Holds(r, "sweep")
    BY <1>1, <2>1, HoldsIsQueued
  <2>3. ~Consume(r) /\ ~SweepStep(r)
    BY <2>1, <2>2 DEF Consume, Receive, DiscardReport, HandleReport, Commit,
       SweepStep, SweepTimer, SweepNothing, SweepChanged, Enters
  <2>4. /\ pending'[r] = <<>> /\ outbox'[r] = <<>> /\ changed'[r] = <<>> /\ inflight'[r] = NoReport
        /\ \/ UNCHANGED <<queue, stage>>
           \/ UNCHANGED queue /\ stage'[r] = "showing"
           \/ queue[r] # <<>> /\ LeaveLock(r)
           \/ Loops(r) /\ ~Queued(r, "release") /\ Acquire(r, "release")
           \/ Loops(r) /\ ~Queued(r, "claim") /\ Acquire(r, "claim")
    <3>1. CASE Proceed(r)
      <4>1. Record(r) \/ Show(r)
        BY <2>1, <2>2, <3>1 DEF Proceed, Publish, ForgetTerminated
      <4>2. UNCHANGED <<pending, outbox, inflight>>
        BY <4>1 DEF Record, Show
      <4>3. CASE FinishFlush(r)
        <5>1. FinishRelease(r)
          BY <2>2, <4>3 DEF FinishFlush, FinishHandle, FinishSweep
        <5> QED
          BY <2>1, <4>2, <5>1 DEF FinishRelease, Holds
      <4>4. CASE ~FinishFlush(r)
        <5>1. stage' = [stage EXCEPT ![r] = "showing"] /\ UNCHANGED <<queue, changed>>
          BY <4>1, <4>4 DEF Record, Show
        <5>2. stage'[r] = "showing"
          BY <1>1, <5>1 DEF TaskTypeOK
        <5> QED
          BY <2>1, <4>2, <5>1, <5>2
      <4> QED
        BY <4>3, <4>4
    <3>2. CASE Rejoin(r)
      BY <2>1, <3>2 DEF Rejoin, flushVars
    <3>3. CASE ReleasePartitions(r)
      <4>1. queue[r] # <<>>
        BY <3>3 DEF ReleasePartitions, Enters, Holds
      <4> QED
        BY <2>1, <3>3, <4>1 DEF ReleasePartitions
    <3>4. CASE Learn(r)
      <4>1. ~Queued(r, "claim")
        BY <3>4 DEF Learn, Before, Inv, OwnershipInv, OwnershipOf, RejoinedIsEmpty
      <4> QED
        BY <2>1, <3>4, <4>1 DEF Learn, flushVars
    <3>5. CASE ClaimPartitions(r)
      BY <2>1, <3>5 DEF ClaimPartitions, Enters, Holds, flushVars
    <3> QED
      BY <2>3, <3>1, <3>2, <3>3, <3>4, <3>5 DEF RebalanceStep
  <2>5. Running(r)' /\ ~Queued(r, "handle")' /\ ~Queued(r, "sweep")'
    <3>1. CASE UNCHANGED queue /\ (UNCHANGED stage \/ stage'[r] = "showing")
      BY <2>1, <3>1 DEF Running, Queued
    <3>2. CASE queue[r] # <<>> /\ LeaveLock(r)
      BY <1>1, <2>1, <3>2, LeaveKeeps
    <3>3. CASE Loops(r) /\ ~Queued(r, "release") /\ Acquire(r, "release")
      BY <1>1, <2>1, <3>3, AcquireKeeps DEF Task
    <3>4. CASE Loops(r) /\ ~Queued(r, "claim") /\ Acquire(r, "claim")
      BY <1>1, <2>1, <3>4, AcquireKeeps DEF Task
    <3> QED
      BY <2>4, <3>1, <3>2, <3>3, <3>4
  <2> QED
    BY <1>1, <1>2, <1>3, <1>4, <2>4, <2>5 DEF ClosingOf
<1> QED
  BY <1>5, <1>6

\* run() is left: what the interrupted holder did not record is lost, what is buffered
\* goes into a last flush, and a release goes on with its own.
LEMMA ExitFlow ==
    ASSUME NEW r \in Replica, Before(r), Running(r), closing[r] = "no", Exit(r)
    PROVE  Flow(r) /\ ClosingOf(r)' /\ RestPersists(r)
<1> DEFINE releases == Awaiting(r) /\ Holds(r, "release")
<1>1. TypeOK /\ TaskTypeOK /\ FlushTypeOK /\ CloseTypeOK /\ OwnershipOf(r)
  BY BeforeTypes DEF Before, TypeOK, Inv, OwnershipInv
<1>2. /\ outbox'[r] = <<>> /\ changed'[r] = <<>> /\ pending'[r] = <<>>
      /\ batch'[r] = IF releases THEN batch[r] ELSE <<>>
      /\ lost' = IF releases THEN lost ELSE lost \cup Unrecorded(r)
      /\ history' = history
  BY <1>1 DEF Exit, FlushTypeOK, storeVars
<1>3. /\ rest'[r] = pending[r]
      /\ closing'[r] = IF pending[r] = <<>> THEN "leaving" ELSE "recording"
      /\ inflight'[r] = NoReport
  BY <1>1 DEF Exit, CloseTypeOK, TaskTypeOK
<1>4. /\ \A t : Queued(r, t)' => Queued(r, t) /\ t \in {"release", "claim"}
      /\ Queued(r, "release") => Holds(r, "release")'
      /\ Awaiting(r)' => Awaiting(r) /\ Holds(r, "release") /\ stage'[r] = stage[r]
      /\ ~(Awaiting(r) /\ Holds(r, "release")) => stage'[r] = "idle"
      /\ Awaiting(r) /\ Holds(r, "release") => Awaiting(r)' /\ stage'[r] = stage[r]
      /\ Running(r)'
  BY <1>1, ExitQueue
<1>5. ClosingOf(r)'
  BY <1>2, <1>3, <1>4 DEF ClosingOf
<1>6. RestPersists(r)
  BY KeysOf DEF RestPersists, Before, ClosingOf
<1>7. Answered(r)
  BY <1>3 DEF Answered, Working
<1>8. CASE releases
  <2>1. /\ changed[r] = <<>> /\ stage[r] \in {"recording", "showing"} /\ stage'[r] = stage[r]
        /\ Holds(r, "release")' /\ queue'[r] # <<>>
    BY <1>1, <1>4, <1>8, HoldsIsQueued DEF Before, BufferOf, Holds
  <2>2. BufferOf(r)'
    BY <1>2, <1>8, <2>1 DEF Before, BufferOf, Keys
  <2>3. HandlingOf(r)'
    BY <2>1 DEF HandlingOf, Holds
  <2>4. Persist(r)
    BY <1>2, <1>3, <1>8, <2>1 DEF Persist, BufferedAt, Keys
  <2> QED
    BY <1>5, <1>6, <1>7, <2>2, <2>3, <2>4 DEF Flow
<1>9. CASE ~releases
  <2>1. stage'[r] = "idle" /\ ~Awaiting(r)'
    BY <1>4, <1>9
  <2>2. BufferOf(r)'
    BY <1>2, <1>9, <2>1 DEF BufferOf
  <2>3. HandlingOf(r)'
    BY <2>1 DEF HandlingOf
  <2>4. Keys(batch[r]) \cup Keys(changed[r]) \subseteq history' \cup lost'
    <3>1. CASE stage[r] \in {"publishing", "recording"}
      BY <1>2, <1>9, <3>1 DEF Unrecorded
    <3>2. CASE stage[r] \in {"showing", "forgetting"}
      BY <1>2, <3>2 DEF Before, BufferOf
    <3>3. CASE stage[r] \in {"idle", "entered"}
      BY <3>3, KeysOf DEF Before, BufferOf
    <3> QED
      BY <1>1, <3>1, <3>2, <3>3 DEF Running, TaskTypeOK, Stage
  <2>5. Persist(r)
    BY <1>3, <2>4 DEF Persist, BufferedAt, Keys
  <2> QED
    BY <1>5, <1>6, <1>7, <2>2, <2>3, <2>5 DEF Flow
<1> QED
  BY <1>8, <1>9

\* The last flush at work: nothing but it is touched.
LEMMA LastFlow ==
    ASSUME NEW r \in Replica, Before(r), Loops(r),
           UNCHANGED <<taskVars, flushVars, topic, discarded>>, history \subseteq history',
           closing[r] \in {"recording", "showing"},
           \/ closing'[r] = "showing" /\ rest'[r] = rest[r] /\ Keys(rest[r]) \subseteq history'
           \/ closing'[r] = "leaving" /\ rest'[r] = <<>> /\ Keys(rest[r]) \subseteq history' \cup lost'
    PROVE  Flow(r) /\ ClosingOf(r)' /\ RestPersists(r)
<1>1. UNCHANGED <<queue, stage, inflight, pending, outbox, changed, batch>>
  BY DEF taskVars, flushVars
<1>2. BufferOf(r)'
  BY <1>1 DEF Before, BufferOf, Awaiting, Holds, Keys
<1>3. HandlingOf(r)'
  BY <1>1 DEF Before, HandlingOf, Awaiting, Holds, Keys, Published
<1>4. ClosingOf(r)'
  BY <1>1 DEF Before, ClosingOf, Running, Queued, Keys
<1>5. Persist(r) /\ Answered(r)
  BY <1>1 DEF Persist, BufferedAt, Keys, Answered, Working
<1>6. RestPersists(r)
  BY DEF RestPersists, Keys
<1> QED
  BY <1>2, <1>3, <1>4, <1>5, <1>6 DEF Flow

\* The last flush, the departure, and the start of a replica.
LEMMA CloseFlow ==
    ASSUME NEW r \in Replica, Before(r), Close(r) \/ Start(r)
    PROVE  Flow(r) /\ ClosingOf(r)' /\ RestPersists(r)
<1>1. TypeOK /\ TaskTypeOK /\ FlushTypeOK /\ CloseTypeOK
  BY BeforeTypes DEF TypeOK
<1>2. CASE LastRecord(r)
  <2>1. /\ Loops(r) /\ closing[r] = "recording" /\ closing'[r] = "showing" /\ rest'[r] = rest[r]
        /\ history' = history \cup Keys(rest[r])
        /\ UNCHANGED <<taskVars, flushVars, topic, discarded>>
    BY <1>1, <1>2 DEF LastRecord, CloseTypeOK, ghostVars
  <2> QED
    BY <2>1, LastFlow
<1>3. CASE LastShow(r)
  <2>1. /\ Loops(r) /\ closing[r] = "showing" /\ closing'[r] = "leaving" /\ rest'[r] = <<>>
        /\ UNCHANGED <<taskVars, flushVars, topic, discarded, history>>
    BY <1>1, <1>3 DEF LastShow, CloseTypeOK, ghostVars
  <2>2. Keys(rest[r]) \subseteq history
    BY <2>1 DEF Before, ClosingOf
  <2> QED
    BY <2>1, <2>2, LastFlow
<1>4. CASE Leave(r)
  <2>1. /\ Depart(r) /\ UNCHANGED lost /\ history' = history
        /\ closing[r] = "leaving" /\ queue[r] = <<>>
    BY <1>4 DEF Leave, Depart, storeVars
  <2>2. rest[r] = <<>> /\ pending[r] = <<>> /\ changed[r] = <<>>
    BY <2>1 DEF Before, ClosingOf
  <2>3. batch[r] = <<>>
    BY <1>1, <2>1 DEF Before, BufferOf, Awaiting
  <2>4. Persist(r) /\ RestPersists(r)
    BY <2>2, <2>3, KeysOf DEF Persist, RestPersists, BufferedAt
  <2> QED
    BY <1>1, <2>1, <2>4, DepartFlow
<1>5. CASE Start(r)
  <2>1. /\ stage[r] = "down" /\ stage'[r] = "idle" /\ ~Running(r)
        /\ UNCHANGED <<queue, inflight, pending, outbox, changed, batch, closing, rest, history>>
    BY <1>1, <1>5 DEF Start, TaskTypeOK, flushVars, closeVars, storeVars, Running
  <2>2. queue[r] = <<>> /\ closing[r] = "no"
    BY <2>1 DEF Before, ClosingOf, Inv, OwnershipInv, OwnershipOf, NothingOutside
  <2>3. BufferOf(r)'
    BY <2>1 DEF Before, BufferOf, Awaiting
  <2>4. HandlingOf(r)'
    BY <2>1 DEF HandlingOf, Awaiting
  <2>5. ClosingOf(r)' /\ RestPersists(r)
    BY <2>1, <2>2 DEF Before, ClosingOf, RestPersists, Keys
  <2> QED
    BY <2>1, <2>2, <2>3, <2>4, <2>5 DEF Flow, Persist, BufferedAt, Keys, Answered, Queued, Range
<1> QED
  BY <1>2, <1>3, <1>4, <1>5 DEF Close

\* The sweep or the release gives up its flush: what it did not record is lost.
LEMMA HolderFails ==
    ASSUME NEW r \in Replica, Before(r), SweepFails(r) \/ ReleaseFails(r)
    PROVE  Flow(r) /\ ClosingOf(r)' /\ RestPersists(r)
<1>1. TypeOK /\ TaskTypeOK /\ FlushTypeOK /\ WellQueued(queue[r])
  BY BeforeTypes
<1>2. Awaiting(r) /\ LeaveLock(r) /\ \E t \in {"sweep", "release"} : Holds(r, t)
  BY DEF SweepFails, ReleaseFails
<1>3. queue[r] # <<>> /\ ~Holds(r, "handle")
  BY <1>1, <1>2, HoldsIsQueued
<1>4. /\ UNCHANGED <<closing, rest>> /\ inflight' = inflight /\ history' = history
      /\ pending' = pending /\ batch'[r] = <<>> /\ lost' = lost \cup Unrecorded(r)
  BY <1>1 DEF SweepFails, ReleaseFails, closeVars, storeVars, FlushTypeOK
<1>5. outbox'[r] = <<>> /\ changed'[r] = <<>>
  <2>1. CASE SweepFails(r)
    BY <1>1, <2>1 DEF SweepFails, FlushTypeOK
  <2>2. CASE ReleaseFails(r)
    BY <2>2 DEF ReleaseFails, Before, BufferOf
  <2> QED
    BY <2>1, <2>2
<1>6. Keys(batch[r]) \cup Keys(changed[r]) \subseteq history \cup Unrecorded(r)
  <2>1. CASE stage[r] \in {"publishing", "recording"}
    BY <2>1 DEF Unrecorded
  <2>2. CASE stage[r] \in {"showing", "forgetting"}
    BY <2>2 DEF Before, BufferOf
  <2> QED
    BY <1>2, <2>1, <2>2 DEF Awaiting
<1>7. Persist(r)
  BY <1>4, <1>6 DEF Persist, BufferedAt, Keys
<1>8. Flow(r)
  BY <1>2, <1>3, <1>4, <1>5, <1>7, LeaveFlow
<1>9. Running(r)' /\ \A t : Queued(r, t)' => Queued(r, t)
  BY <1>1, <1>2, <1>3, LeaveKeeps
<1>10. ClosingOf(r)' /\ RestPersists(r)
  BY <1>4, <1>5, <1>9 DEF Before, ClosingOf, RestPersists, Keys
<1> QED
  BY <1>8, <1>10

\* A failed operation, a shutdown, a crash.
LEMMA FailFlow ==
    ASSUME NEW r \in Replica, Before(r), Stop(r) \/ Crash(r) \/ Fail(r)
    PROVE  Flow(r) /\ ClosingOf(r)' /\ RestPersists(r)
<1>1. TypeOK /\ TaskTypeOK /\ FlushTypeOK /\ CloseTypeOK
  BY BeforeTypes DEF TypeOK
<1>2. CASE Stop(r) \/ HandlerFails(r) \/ CommitFails(r)
  <2>1. Exit(r) /\ Running(r)
    BY <1>2 DEF Stop, HandlerFails, CommitFails, Works, Loops, Awaiting, Running
  <2>2. closing[r] = "no"
    <3>1. Holds(r, "handle") => closing[r] = "no"
      BY <1>1, HoldsIsQueued DEF Before, ClosingOf
    <3> QED
      BY <1>2, <3>1 DEF Stop, HandlerFails, CommitFails, Works
  <2> QED
    BY <2>1, <2>2, ExitFlow
<1>3. CASE Crash(r)
  <2>1. /\ Depart(r) /\ history' = history
        /\ lost' = lost \cup Unrecorded(r) \cup Unsaved(r) \cup Keys(pending[r])
    BY <1>3 DEF Crash, Depart, storeVars
  <2>2. Keys(batch[r]) \cup Keys(changed[r]) \subseteq history \cup Unrecorded(r)
    <3>1. CASE stage[r] \in {"publishing", "recording"}
      BY <3>1 DEF Unrecorded
    <3>2. CASE stage[r] \in {"showing", "forgetting"}
      BY <3>2 DEF Before, BufferOf
    <3>3. CASE stage[r] \in {"idle", "entered", "down"}
      BY <3>3, KeysOf DEF Before, BufferOf
    <3> QED
      BY <1>1, <3>1, <3>2, <3>3 DEF TaskTypeOK, Stage
  <2>3. Keys(rest[r]) \subseteq history \cup Unsaved(r)
    BY KeysOf DEF Before, ClosingOf, Unsaved
  <2>4. Persist(r) /\ RestPersists(r)
    BY <2>1, <2>2, <2>3 DEF Persist, RestPersists, BufferedAt
  <2> QED
    BY <1>1, <2>1, <2>4, DepartFlow
<1>4. CASE SweepFails(r) \/ ReleaseFails(r)
  BY <1>4, HolderFails
<1>5. CASE LastFlushFails(r)
  <2>1. /\ Loops(r) /\ closing[r] \in {"recording", "showing"}
        /\ closing'[r] = "leaving" /\ rest'[r] = <<>>
        /\ UNCHANGED <<taskVars, flushVars, topic, discarded, history>>
        /\ lost' = lost \cup Unsaved(r)
    BY <1>1, <1>5 DEF LastFlushFails, CloseTypeOK, storeVars
  <2>2. Keys(rest[r]) \subseteq history' \cup lost'
    BY <2>1 DEF Before, ClosingOf, Unsaved
  <2> QED
    BY <2>1, <2>2, LastFlow
<1> QED
  BY <1>2, <1>3, <1>4, <1>5 DEF Fail

\* Every step of a replica moves its updates along.
LEMMA StepFlow ==
    ASSUME NEW r \in Replica, Before(r), ReplicaStep(r)
    PROVE  Flow(r) /\ ClosingOf(r)' /\ RestPersists(r)
BY ConsumeFlow, ProceedFlow, SweepFlow, RebalanceFlow, CloseFlow, FailFlow, ServiceClosing
   DEF ReplicaStep

-----------------------------------------------------------------------------
(* Who listens to a partition.                                             *)

\* A replica's step leaves the others' memory alone.
LEMMA StepUntouched ==
    ASSUME Inv, NEW r \in Replica, ReplicaStep(r)
    PROVE  \A q \in Replica : q # r => Untouched(q)
BY ConsumeOwnership, ProceedOwnership, SweepOwnership, RebalanceOwnership, CloseOwnership,
   FailOwnership DEF ReplicaStep

\* Nobody takes a partition by itself; a replica that goes down gives up its own.
LEMMA StepOwner ==
    ASSUME TypeOK, NEW r \in Replica, ReplicaStep(r)
    PROVE  /\ \A q \in Replica, p \in Partition : owner'[p] = q => owner[p] = q
           /\ stage'[r] = "down" => \A p \in Partition : owner'[p] # r
<1>1. TaskTypeOK /\ BrokerTypeOK
  BY DEF TypeOK
<1>2. ASSUME Depart(r)
      PROVE  /\ \A q \in Replica, p \in Partition : owner'[p] = q => owner[p] = q
             /\ \A p \in Partition : owner'[p] # r
  BY <1>1, <1>2, ServiceAssumption DEF Depart, TaskTypeOK, BrokerTypeOK
<1>3. ASSUME owner' = owner, stage'[r] # "down"
      PROVE  /\ \A q \in Replica, p \in Partition : owner'[p] = q => owner[p] = q
             /\ stage'[r] = "down" => \A p \in Partition : owner'[p] # r
  BY <1>3
<1>4. ASSUME owner' = owner, stage'[r] \in Stage \ {"down"}, Running(r)
      PROVE  owner' = owner /\ stage'[r] # "down"
  BY <1>4
<1>5. ASSUME NEW t, Acquire(r, t), Running(r) PROVE stage'[r] \in Stage \ {"down"}
  BY <1>1, <1>5 DEF Acquire, Running, TaskTypeOK, Stage
<1>6. ASSUME LeaveLock(r) PROVE stage'[r] \in Stage \ {"down"}
  BY <1>1, <1>6 DEF LeaveLock, TaskTypeOK, Stage
<1>7. CASE Consume(r)
  <2>1. owner' = owner /\ Running(r)
    BY <1>7 DEF Consume, Receive, DiscardReport, HandleReport, Commit, Works, Loops, Enters,
       Running, brokerVars
  <2>2. stage'[r] \in Stage \ {"down"}
    BY <1>1, <1>5, <1>6, <1>7, <2>1 DEF Consume, Receive, DiscardReport, HandleReport, Commit,
       Running, TaskTypeOK, Stage
  <2> QED
    BY <1>3, <1>4, <2>1, <2>2
<1>8. CASE Proceed(r)
  <2>1. owner' = owner /\ Running(r)
    BY <1>8 DEF Proceed, Publish, Record, Show, ForgetTerminated, Running, brokerVars
  <2>2. ASSUME FinishFlush(r) PROVE stage'[r] \in Stage \ {"down"}
    BY <1>1, <1>6, <2>2 DEF FinishFlush, FinishHandle, FinishSweep, FinishRelease, TaskTypeOK, Stage
  <2>3. stage'[r] \in Stage \ {"down"}
    BY <1>1, <1>6, <1>8, <2>1, <2>2 DEF Proceed, Publish, BufferChanged, StartFlush, Record, Show,
       ForgetTerminated, Running, TaskTypeOK, Stage
  <2> QED
    BY <1>3, <1>4, <2>1, <2>3
<1>9. CASE SweepStep(r)
  <2>1. owner' = owner /\ Running(r)
    BY <1>9 DEF SweepStep, SweepTimer, SweepNothing, SweepChanged, Works, Loops, Enters,
       Running, brokerVars
  <2>2. stage'[r] \in Stage \ {"down"}
    BY <1>1, <1>5, <1>6, <1>9, <2>1 DEF SweepStep, SweepTimer, SweepNothing, SweepChanged,
       TaskTypeOK, Stage
  <2> QED
    BY <1>3, <1>4, <2>1, <2>2
<1>10. CASE RebalanceStep(r)
  <2>1. owner' = owner /\ Running(r)
    BY <1>10 DEF RebalanceStep, Rejoin, ReleasePartitions, Learn, ClaimPartitions, Loops, Enters,
       Running, brokerVars
  <2>2. stage'[r] \in Stage \ {"down"}
    BY <1>1, <1>5, <1>6, <1>10, <2>1 DEF RebalanceStep, Rejoin, ReleasePartitions, StartFlush,
       Learn, ClaimPartitions, Running, TaskTypeOK, Stage
  <2> QED
    BY <1>3, <1>4, <2>1, <2>2
<1>11. CASE LastRecord(r) \/ LastShow(r) \/ LastFlushFails(r)
  BY <1>3, <1>11 DEF LastRecord, LastShow, LastFlushFails, Loops, Running, brokerVars, taskVars
<1>12. CASE Stop(r) \/ HandlerFails(r) \/ CommitFails(r)
  <2>1. Exit(r) /\ Running(r)
    BY <1>12 DEF Stop, HandlerFails, CommitFails, Works, Loops, Awaiting, Running
  <2>2. owner' = owner /\ stage'[r] # "down"
    BY <1>1, <2>1 DEF Exit, brokerVars, Running, TaskTypeOK
  <2> QED
    BY <1>3, <2>2
<1>13. CASE Crash(r) \/ Leave(r)
  BY <1>2, <1>13 DEF Crash, Leave
<1>15. CASE Start(r)
  BY <1>1, <1>3, <1>15 DEF Start, brokerVars, TaskTypeOK
<1>14. CASE SweepFails(r) \/ ReleaseFails(r)
  <2>1. owner' = owner /\ Running(r)
    BY <1>14 DEF SweepFails, ReleaseFails, Awaiting, Running, brokerVars
  <2>2. stage'[r] \in Stage \ {"down"}
    BY <1>6, <1>14 DEF SweepFails, ReleaseFails
  <2> QED
    BY <1>3, <1>4, <2>1, <2>2
<1> QED
  BY <1>7, <1>8, <1>9, <1>10, <1>11, <1>12, <1>13, <1>14, <1>15 DEF ReplicaStep, Close, Fail

\* No replica takes up serving again but by a start.
LEMMA StepServes ==
    ASSUME TypeOK, NEW r \in Replica, ReplicaStep(r), Working(r)'
    PROVE  Working(r) \/ stage[r] = "down"
<1>1. TaskTypeOK /\ CloseTypeOK
  BY DEF TypeOK
<1>2. CASE Depart(r)
  BY <1>1, <1>2 DEF Depart, Working, Running, TaskTypeOK
<1>3. CASE Exit(r)
  BY <1>1, <1>3 DEF Exit, Working, CloseTypeOK
<1>4. CASE LastRecord(r) \/ LastShow(r) \/ LastFlushFails(r)
  BY <1>1, <1>4 DEF LastRecord, LastShow, LastFlushFails, Working, CloseTypeOK
<1>5. CASE UNCHANGED closeVars
  BY <1>5 DEF closeVars, Working, Running
<1> QED
  BY <1>2, <1>3, <1>4, <1>5, ServiceKeepsClose
  DEF ReplicaStep, Close, Fail, Stop, Crash, Leave, HandlerFails, CommitFails

\* What ListenOf(r) may lose or gain without harm.
Attends(r) ==
    /\ revoked'[r] \subseteq revoked[r]
    /\ r \in joined => r \in joined'
    /\ Queued(r, "claim") => Queued(r, "claim")'
    /\ Queued(r, "release")' => Queued(r, "release")

\* Nothing about listening changes while the group and what is revoked stay.
LEMMA AttendsListens ==
    ASSUME NEW r \in Replica, ListenOf(r), group' = group, Attends(r),
           \A p \in Partition : owner'[p] = r => owner[p] = r, StateTypeOK
    PROVE  ListenOf(r)'
BY DEF ListenOf, Attends, StateTypeOK

\* A task other than a rebalance callback comes to the lock or leaves it.
LEMMA OtherTask ==
    ASSUME Inv, NEW r \in Replica, NEW t \in {"handle", "sweep"}
    PROVE  /\ Loops(r) /\ ~Queued(r, t) /\ (t = "handle" => ~Queued(r, "claim")) /\ Acquire(r, t)
              => \A u \in {"claim", "release"} : Queued(r, u)' <=> Queued(r, u)
           /\ Holds(r, t) /\ LeaveLock(r)
              => \A u \in {"claim", "release"} : Queued(r, u)' <=> Queued(r, u)
<1>1. TypeOK /\ WellQueued(queue[r])
  BY DEF Inv, OwnershipInv, OwnershipOf
<1>2. t \in Task /\ t \notin {"claim", "release"}
  BY DEF Task
<1>3. ASSUME Loops(r), ~Queued(r, t), t = "handle" => ~Queued(r, "claim"), Acquire(r, t)
      PROVE  \A u \in {"claim", "release"} : Queued(r, u)' <=> Queued(r, u)
  BY <1>1, <1>2, <1>3, AcquireKeeps
<1>4. ASSUME Holds(r, t), LeaveLock(r)
      PROVE  \A u \in {"claim", "release"} : Queued(r, u)' <=> Queued(r, u)
  <2>1. queue[r] # <<>> /\ \A u : Holds(r, u) => u = t
    BY <1>1, <1>4, HoldsIsQueued
  <2>2. \A u : Queued(r, u)' <=> Queued(r, u) /\ ~Holds(r, u)
    BY <1>1, <1>4, <2>1, LeaveKeeps
  <2> QED
    BY <1>2, <2>1, <2>2
<1> QED
  BY <1>3, <1>4

\* The callback that gives up partitions leaves the lock.
LEMMA ReleaseLeaves ==
    ASSUME Inv, NEW r \in Replica, Holds(r, "release"), LeaveLock(r)
    PROVE  /\ Queued(r, "claim")' <=> Queued(r, "claim")
           /\ Queued(r, "release") /\ ~Queued(r, "release")'
<1>1. TypeOK /\ WellQueued(queue[r])
  BY DEF Inv, OwnershipInv, OwnershipOf
<1>2. queue[r] # <<>> /\ Queued(r, "release") /\ \A u : Holds(r, u) => u = "release"
  BY <1>1, HoldsIsQueued
<1>3. \A u : Queued(r, u)' <=> Queued(r, u) /\ ~Holds(r, u)
  BY <1>1, <1>2, LeaveKeeps
<1> QED
  BY <1>2, <1>3

\* What a replica forgets, it no longer needs to listen to.
LEMMA WipedListens ==
    ASSUME NEW r \in Replica, Wipe(r), TypeOK
    PROVE  ListenOf(r)'
<1>1. revoked'[r] = {} /\ queue'[r] = <<>>
  BY DEF Wipe, TypeOK, StateTypeOK, TaskTypeOK
<1> QED
  BY <1>1 DEF ListenOf, Queued, Range

\* Every step of a replica leaves it attentive to what it owns.
LEMMA ListenStep ==
    ASSUME Inv, NEW r \in Replica, BufferOf(r), ListenOf(r), ReplicaStep(r)
    PROVE  ListenOf(r)'
<1>1. /\ TypeOK /\ TaskTypeOK /\ StateTypeOK /\ BrokerTypeOK /\ OwnershipOf(r)
      /\ Queued(r, "handle") => inflight[r] # NoReport
  BY DEF Inv, TypeOK, OwnershipInv, OwnershipOf, WaitingIsOwned
<1>2. group' = group /\ \A p \in Partition : owner'[p] = r => owner[p] = r
  BY <1>1, StepApart, StepOwner DEF Apart
<1>3. Attends(r) => ListenOf(r)'
  BY <1>1, <1>2, AttendsListens
<1>4. ASSUME revoked' = revoked, joined' = joined,
             \A u \in {"claim", "release"} : Queued(r, u)' <=> Queued(r, u)
      PROVE  Attends(r)
  BY <1>4 DEF Attends
<1>5. ASSUME UNCHANGED queue
      PROVE  \A u \in {"claim", "release"} : Queued(r, u)' <=> Queued(r, u)
  BY <1>5 DEF Queued
<1>6. CASE Consume(r)
  <2>1. revoked' = revoked /\ joined' = joined
    BY <1>6 DEF Consume, Receive, DiscardReport, HandleReport, Commit, brokerVars, stateVars
  <2>2. \A u \in {"claim", "release"} : Queued(r, u)' <=> Queued(r, u)
    BY <1>1, <1>5, <1>6, OtherTask
    DEF Consume, Receive, Works, DiscardReport, HandleReport, Commit, Enters
  <2> QED
    BY <1>3, <1>4, <2>1, <2>2
<1>7. ASSUME FinishFlush(r), revoked' = revoked PROVE Attends(r)
  <2>1. CASE FinishHandle(r)
    BY <1>4, <1>7, <2>1, OtherTask DEF FinishHandle
  <2>2. CASE FinishSweep(r)
    BY <1>4, <1>5, <1>7, <2>2, OtherTask DEF FinishSweep
  <2>3. CASE FinishRelease(r)
    BY <1>7, <2>3, ReleaseLeaves DEF FinishRelease, Drop, Attends
  <2> QED
    BY <1>7, <2>1, <2>2, <2>3 DEF FinishFlush
<1>8. CASE Proceed(r)
  <2>1. revoked' = revoked
    BY <1>8 DEF Proceed, Publish, Record, Show, ForgetTerminated, stateVars
  <2>2. CASE Publish(r)
    <3>1. joined' = joined
      BY <2>2 DEF Publish, brokerVars
    <3>2. \A u \in {"claim", "release"} : Queued(r, u)' <=> Queued(r, u)
      BY <1>5, <2>2, OtherTask DEF Publish, BufferChanged
    <3> QED
      BY <1>3, <1>4, <2>1, <3>1, <3>2
  <2>3. CASE Record(r)
    BY <1>3, <1>4, <1>5, <1>7, <2>1, <2>3 DEF Record
  <2>4. CASE Show(r)
    BY <1>3, <1>7, <2>1, <2>4 DEF Show
  <2>5. CASE ForgetTerminated(r)
    BY <1>3, <1>4, <2>1, <2>5, OtherTask DEF ForgetTerminated, brokerVars
  <2> QED
    BY <1>8, <2>2, <2>3, <2>4, <2>5 DEF Proceed
<1>9. CASE SweepStep(r)
  <2>1. revoked' = revoked /\ joined' = joined
    BY <1>9 DEF SweepStep, SweepTimer, SweepNothing, SweepChanged, brokerVars, stateVars
  <2>2. \A u \in {"claim", "release"} : Queued(r, u)' <=> Queued(r, u)
    BY <1>5, <1>9, OtherTask DEF SweepStep, SweepTimer, Works, SweepNothing, SweepChanged, Enters
  <2> QED
    BY <1>3, <1>4, <2>1, <2>2
<1>10. CASE Rejoin(r)
  <2>1. /\ group = "revoking" /\ revoked' = revoked
    BY <1>10 DEF Rejoin, stateVars
  <2> QED
    BY <1>2, <2>1 DEF ListenOf
<1>11. CASE ReleasePartitions(r)
  <2>1. group = "revoking"
    BY <1>1, <1>11, HoldsIsQueued DEF ReleasePartitions, Enters, ListenOf
  <2> QED
    BY <1>2, <2>1 DEF ListenOf
<1>12. CASE Learn(r)
  <2>1. /\ r \in joined /\ Loops(r) /\ UNCHANGED <<revoked, owner, group>>
        /\ Owned(r) = {} \/ Acquire(r, "claim")
        /\ UNCHANGED <<queue, stage>> \/ Acquire(r, "claim")
    BY <1>12 DEF Learn, stateVars
  <2>2. ~Queued(r, "claim") /\ ~Queued(r, "release") /\ WellQueued(queue[r])
    BY <1>1, <2>1 DEF OwnershipOf, RejoinedIsEmpty
  <2>3. Acquire(r, "claim") => \A u : Queued(r, u)' <=> Queued(r, u) \/ u = "claim"
    BY <1>1, <2>1, <2>2, AcquireKeeps DEF Task
  <2>4. ~Queued(r, "release")'
    BY <1>5, <2>1, <2>2, <2>3
  <2>5. ASSUME NEW p \in revoked'[r], owner'[p] = r PROVE Queued(r, "claim")'
    BY <1>1, <2>1, <2>3, <2>5 DEF Owned, StateTypeOK
  <2> QED
    BY <2>4, <2>5 DEF ListenOf
<1>13. CASE ClaimPartitions(r)
  <2>1. /\ Holds(r, "claim") /\ LeaveLock(r) /\ UNCHANGED <<owner, group>>
        /\ revoked'[r] = revoked[r] \ Owned(r)
    BY <1>1, <1>13 DEF ClaimPartitions, Reclaim, Enters, brokerVars, StateTypeOK
  <2>2. Queued(r, "release")' => Queued(r, "release")
    BY <1>1, <2>1, HoldsIsQueued, LeaveKeeps DEF OwnershipOf
  <2>3. \A p \in revoked'[r] : owner'[p] # r
    BY <1>1, <2>1 DEF Owned, StateTypeOK
  <2> QED
    BY <2>1, <2>2, <2>3 DEF ListenOf
<1>14. CASE LastRecord(r) \/ LastShow(r) \/ LastFlushFails(r) \/ Start(r)
  <2>1. revoked' = revoked /\ queue' = queue /\ joined' = joined
    BY <1>14 DEF LastRecord, LastShow, LastFlushFails, Start, stateVars, taskVars, brokerVars
  <2> QED
    BY <1>3, <1>4, <1>5, <2>1
<1>15. CASE Crash(r) \/ Leave(r)
  BY <1>1, <1>15, WipedListens DEF Crash, Leave, Depart
<1>19. CASE Stop(r) \/ HandlerFails(r) \/ CommitFails(r)
  <2>1. Exit(r)
    BY <1>19 DEF Stop, HandlerFails, CommitFails
  <2>2. /\ \A t : Queued(r, t)' => Queued(r, t)
        /\ Queued(r, "claim") => Holds(r, "claim")'
    BY <1>1, <2>1, ExitQueue
  <2>3. queue'[r] \in Seq(Task)
    BY <1>1, <2>1, ExitType DEF TaskTypeOK
  <2>4. Queued(r, "claim") => Queued(r, "claim")'
    <3>1. Holds(r, "claim")' => "claim" \in Range(queue'[r])
      BY <2>3 DEF Holds, Range
    <3> QED
      BY <2>2, <3>1 DEF Queued
  <2>5. Attends(r)
    BY <2>1, <2>2, <2>4 DEF Attends, Exit, stateVars, brokerVars
  <2> QED
    BY <1>3, <2>5
<1>16. CASE SweepFails(r)
  BY <1>3, <1>4, <1>16, OtherTask DEF SweepFails, brokerVars, stateVars
<1>17. CASE ReleaseFails(r)
  <2>1. Attends(r)
    BY <1>17, ReleaseLeaves DEF ReleaseFails, Attends, stateVars
  <2> QED
    BY <1>3, <2>1
<1> QED
  BY <1>6, <1>8, <1>9, <1>10, <1>11, <1>12, <1>13, <1>14, <1>15, <1>16, <1>17, <1>19
  DEF ReplicaStep, RebalanceStep, Close, Fail

-----------------------------------------------------------------------------
(* Offsets, and what was committed.                                        *)

\* What is done stays done.
LEMMA DoneStays ==
    ASSUME NEW r \in Replica, Persist(r), RestPersists(r), Apart(r), NEW x, Done(x)
    PROVE  Done(x)'
<1>1. Published(x)'
  BY DEF Done, Published, Apart, Grows
<1>2. Secured(x)'
  <2>1. ASSUME NEW q \in Replica, x \in BufferedAt(q) \cup Keys(rest[q]) PROVE Secured(x)'
    <3>1. CASE q = r
      BY <2>1, <3>1 DEF Persist, RestPersists, Secured
    <3>2. CASE q # r
      BY <2>1, <3>2 DEF Apart, SameBuffers, SameClose, BufferedAt, Secured, Keys
    <3> QED
      BY <3>1, <3>2
  <2> QED
    BY <2>1 DEF Done, Secured, Apart, Grows
<1> QED
  BY <1>1, <1>2 DEF Done

\* A step that touches no buffer and no store.
LEMMA DoneSame ==
    ASSUME NEW x, Done(x), UNCHANGED <<pending, batch, changed, rest, topic, history, discarded, lost>>
    PROVE  Done(x)'
BY DEF Done, Published, Secured, BufferedAt, Keys

\* Handing out and committing are the only moves of the offsets.
LEMMA StepOffsets ==
    ASSUME NEW r \in Replica, ReplicaStep(r)
    PROVE  \/ \E p \in Partition : Receive(r, p)
           \/ Commit(r)
           \/ UNCHANGED <<committed, position>>
BY DEF ReplicaStep, Consume, DiscardReport, HandleReport, Proceed, Publish, Record, Show,
   ForgetTerminated, SweepStep, SweepTimer, SweepNothing, SweepChanged, RebalanceStep, Rejoin,
   ReleasePartitions, Learn, ClaimPartitions, Close, LastRecord, LastShow, Leave, Depart, Start, Stop,
   Crash, Exit, Fail, HandlerFails, SweepFails, ReleaseFails, CommitFails, LastFlushFails, brokerVars

\* A replica's step keeps what is committed done, and what it was handed in its hands.
LEMMA OffsetsStep ==
    ASSUME DeliveryInv, NEW r \in Replica, ReplicaStep(r), Flow(r), RestPersists(r), NEW p \in Partition
    PROVE  OffsetsOf(p)'
<1>1. /\ TypeOK /\ BrokerTypeOK /\ TaskTypeOK /\ OffsetsOf(p)
      /\ log[p] \in Seq(Report) /\ committed[p] \in Nat /\ position[p] \in Nat
  BY DEF DeliveryInv, Inv, TypeOK, BrokerTypeOK
<1>2. /\ Apart(r) /\ log' = log /\ \A x : Done(x) => Done(x)'
      /\ \A q \in Replica : q # r => Untouched(q)
  BY <1>1, DoneStays, StepApart, StepUntouched DEF Flow, Apart, DeliveryInv
<1>3. /\ \A q \in Replica : owner'[p] = q => owner[p] = q
      /\ owner[p] = r /\ Working(r)' => Working(r)
  BY <1>1, StepOwner, StepServes DEF DeliveryInv, OwnerIsUp

\* Whoever owns the partition has done with what it was handed, or has it in its hands.
<1>4. ASSUME NEW q \in Replica, owner'[p] = q, Working(q)', NEW i \in 1..position[p]
      PROVE  Done(log[p][i])' \/ (Queued(q, "handle")' /\ log[p][i] = inflight'[q])
  <2>1. owner[p] = q /\ Working(q)
    BY <1>2, <1>3, <1>4 DEF Untouched, Local, Running, Working, Apart, SameClose
  <2>2. Done(log[p][i]) \/ (Queued(q, "handle") /\ log[p][i] = inflight[q])
    BY <1>1, <1>4, <2>1 DEF OffsetsOf
  <2>3. CASE q # r
    BY <1>2, <2>2, <2>3 DEF Untouched, Local, Queued
  <2>4. CASE q = r
    <3>1. Handled(r)' => Done(inflight[r])'
      BY DEF Handled, Done, Secured
    <3>2. CASE Done(log[p][i])
      BY <1>2, <3>2
    <3>3. CASE Queued(r, "handle") /\ log[p][i] = inflight[r]
      <4>1. \/ Queued(r, "handle")' /\ inflight'[r] = inflight[r]
            \/ Handled(r)' /\ inflight'[r] = inflight[r]
        BY <1>4, <2>4, <3>3 DEF Flow, Answered
      <4>2. Handled(r)' /\ inflight'[r] = inflight[r] => Done(log[p][i])'
        BY <1>2, <3>1, <3>3
      <4> QED
        BY <2>4, <3>3, <4>1, <4>2
    <3> QED
      BY <2>2, <2>4, <3>2, <3>3
  <2> QED
    BY <2>3, <2>4
<1>5. CASE UNCHANGED <<committed, position>>
  BY <1>1, <1>2, <1>4, <1>5 DEF OffsetsOf
<1>6. CASE Commit(r)
  <2>1. /\ position' = position /\ Working(r) /\ ~Queued(r, "handle")
        /\ committed'[p] = IF owner[p] = r THEN position[p] ELSE committed[p]
    BY <1>1, <1>6 DEF Commit, Works, Loops, Working
  <2>2. \A i \in 1..committed'[p] : Done(log[p][i])
    BY <1>1, <2>1 DEF OffsetsOf
  <2> QED
    BY <1>1, <1>2, <1>4, <2>1, <2>2 DEF OffsetsOf
<1>7. ASSUME NEW o \in Partition, Receive(r, o)
      PROVE  OffsetsOf(p)'
  <2>1. /\ committed' = committed /\ owner[o] = r
        /\ position[o] < Len(log[o]) /\ position' = [position EXCEPT ![o] = @ + 1]
        /\ inflight'[r] = log[o][position[o] + 1] /\ Acquire(r, "handle")
    BY <1>1, <1>7 DEF Receive, HandOut, TaskTypeOK
  <2>2. Queued(r, "handle")'
    BY <1>1, <2>1, AppendTask DEF Acquire, Queued, TaskTypeOK, Task
  <2>3. /\ position'[p] = IF p = o THEN position[p] + 1 ELSE position[p]
        /\ position'[p] \in 0..Len(log[p])
    BY <1>1, <2>1 DEF BrokerTypeOK, OffsetsOf
  <2>4. ASSUME NEW q \in Replica, owner'[p] = q, Working(q)', NEW i \in 1..position'[p]
        PROVE  Done(log[p][i])' \/ (Queued(q, "handle")' /\ log[p][i] = inflight'[q])
    <3>1. CASE i \in 1..position[p]
      BY <1>4, <2>4, <3>1
    <3>2. CASE i \notin 1..position[p]
      <4>1. p = o /\ i = position[p] + 1
        BY <1>1, <2>3, <2>4, <3>2
      <4>2. q = r
        BY <1>3, <2>1, <2>4, <4>1
      <4> QED
        BY <2>1, <2>2, <4>1, <4>2
    <3> QED
      BY <3>1, <3>2
  <2> QED
    BY <1>1, <1>2, <2>1, <2>3, <2>4 DEF OffsetsOf
<1> QED
  BY <1>5, <1>6, <1>7, StepOffsets

\* A replica's step keeps the invariant.
LEMMA ReplicaDelivery ==
    ASSUME DeliveryInv, NEW r \in Replica, ReplicaStep(r), Inv'
    PROVE  DeliveryInv'
<1>1. Before(r) /\ TypeOK /\ ListenOf(r)
  BY DEF DeliveryInv, Before, Inv
<1>2. Flow(r) /\ RestPersists(r) /\ ClosingOf(r)' /\ Apart(r) /\ \A q \in Replica : q # r => Untouched(q)
  BY <1>1, StepFlow, StepApart, StepUntouched DEF DeliveryInv
<1>3. OwnerIsUp'
  <2>1. ASSUME NEW q \in Replica, stage'[q] = "down", NEW p \in Partition PROVE owner'[p] # q
    <3>1. CASE q = r
      BY <1>1, <2>1, <3>1, StepOwner
    <3>2. CASE q # r
      BY <1>2, <2>1, <3>2 DEF Untouched, Local, DeliveryInv, OwnerIsUp
    <3> QED
      BY <3>1, <3>2
  <2> QED
    BY <2>1 DEF OwnerIsUp
<1>4. ASSUME NEW q \in Replica
      PROVE  BufferOf(q)' /\ HandlingOf(q)' /\ ClosingOf(q)' /\ ListenOf(q)'
  <2>1. CASE q = r
    BY <1>1, <1>2, <2>1, ListenStep DEF Flow, Before
  <2>2. CASE q # r
    <3>1. /\ BufferOf(q) /\ HandlingOf(q) /\ ListenOf(q) /\ SameBuffers(q) /\ Grows
          /\ group' = group /\ Untouched(q) /\ StateTypeOK /\ ClosingOf(q) /\ SameClose(q)
      BY <1>1, <1>2, <2>2 DEF DeliveryInv, Apart, TypeOK
    <3>2. /\ queue'[q] = queue[q] /\ stage'[q] = stage[q] /\ revoked'[q] = revoked[q]
          /\ inflight'[q] = inflight[q] /\ revoked[q] \subseteq Partition
      BY <3>1 DEF Untouched, Local, StateTypeOK
    <3>3. BufferOf(q)'
      BY <3>1, <3>2 DEF BufferOf, SameBuffers, Grows, Awaiting, Holds, Keys
    <3>4. HandlingOf(q)'
      BY <3>1, <3>2 DEF HandlingOf, SameBuffers, Grows, Awaiting, Holds, Keys, Published
    <3>5. ListenOf(q)'
      BY <3>1, <3>2 DEF ListenOf, Untouched, Queued
    <3>6. ClosingOf(q)'
      BY <3>1, <3>2 DEF ClosingOf, SameClose, SameBuffers, Grows, Running, Queued, Keys
    <3> QED
      BY <3>3, <3>4, <3>5, <3>6
  <2> QED
    BY <2>1, <2>2
<1>5. \A p \in Partition : OffsetsOf(p)'
  BY <1>2, OffsetsStep
<1> QED
  BY <1>3, <1>4, <1>5 DEF DeliveryInv

\* What the environment and the broker do keeps the invariant.
LEMMA EnvironmentDelivery ==
    ASSUME DeliveryInv, Inv',
           UNCHANGED vars \/ Tick \/ StartRebalance \/ AssignAny \/ \E a \in Aircraft : Produce(a)
    PROVE  DeliveryInv'
<1>1. /\ TypeOK /\ BrokerTypeOK /\ StateTypeOK
      /\ \A r \in Replica : /\ BufferOf(r) /\ HandlingOf(r) /\ ClosingOf(r)
                            /\ ListenOf(r) /\ OwnershipOf(r)
  BY DEF DeliveryInv, Inv, TypeOK, OwnershipInv
<1>2. /\ UNCHANGED <<queue, stage, inflight, revoked, pending, outbox, changed, batch>>
      /\ UNCHANGED <<closing, rest>>
      /\ UNCHANGED <<topic, history, discarded, lost, committed, joined>>
  BY DEF Tick, StartRebalance, AssignAny, Assign, Produce, vars, brokerVars, stateVars, flushVars,
     taskVars, closeVars, storeVars, ghostVars
<1>3. \A x : Done(x) => Done(x)'
  BY <1>2, DoneSame
<1>4. ASSUME NEW r \in Replica PROVE BufferOf(r)' /\ HandlingOf(r)' /\ ClosingOf(r)'
  <2>3. ClosingOf(r)'
    BY <1>1, <1>2 DEF ClosingOf, Running, Queued, Keys
  <2>1. BufferOf(r)'
    BY <1>1, <1>2 DEF BufferOf, Awaiting, Holds, Keys
  <2>2. HandlingOf(r)'
    BY <1>1, <1>2 DEF HandlingOf, Awaiting, Holds, Keys, Published
  <2> QED
    BY <2>1, <2>2, <2>3
<1>5. CASE AssignAny
  <2>1. /\ \A p \in Partition : owner'[p] \in Members
        /\ Members \subseteq joined /\ position' = committed /\ log' = log
    BY <1>5 DEF AssignAny, Assign
  <2>2. OwnerIsUp'
    BY <1>2, <2>1 DEF OwnerIsUp, Members, Running
  <2>3. ASSUME NEW r \in Replica PROVE ListenOf(r)'
    <3>1. ~Queued(r, "release")
      <4>1. CASE stage[r] = "down"
        BY <1>1, <4>1 DEF OwnershipOf, NothingOutside, Running, Queued, Range
      <4>2. CASE stage[r] # "down"
        BY <1>1, <2>1, <4>2 DEF Members, Running, OwnershipOf, RejoinedIsEmpty
      <4> QED
        BY <4>1, <4>2
    <3>2. \A p \in revoked'[r] : owner'[p] = r => r \in joined'
      BY <1>1, <1>2, <2>1 DEF StateTypeOK
    <3> QED
      BY <1>2, <3>1, <3>2 DEF ListenOf, Queued
  <2>4. ASSUME NEW p \in Partition PROVE OffsetsOf(p)'
    BY <1>1, <1>2, <1>3, <2>1 DEF DeliveryInv, OffsetsOf
  <2> QED
    BY <1>4, <2>2, <2>3, <2>4 DEF DeliveryInv
<1>6. CASE UNCHANGED vars \/ Tick \/ StartRebalance \/ \E a \in Aircraft : Produce(a)
  <2>1. /\ UNCHANGED <<owner, position>> /\ group' \in {group, "revoking"}
    BY <1>6 DEF Tick, StartRebalance, Produce, vars, brokerVars
  <2>2. OwnerIsUp'
    BY <1>2, <2>1 DEF DeliveryInv, OwnerIsUp
  <2>3. ASSUME NEW r \in Replica PROVE ListenOf(r)'
    BY <1>1, <1>2, <2>1 DEF ListenOf, Queued
  <2>4. ASSUME NEW p \in Partition PROVE OffsetsOf(p)'
    <3>1. /\ log[p] \in Seq(Report) /\ committed[p] \in 0..Len(log[p]) /\ position[p] \in 0..Len(log[p])
      BY <1>1 DEF BrokerTypeOK, DeliveryInv, OffsetsOf
    <3>2. log'[p] = log[p] \/ \E report : log'[p] = Append(log[p], report)
      BY <1>1, <1>6 DEF Tick, StartRebalance, Produce, vars, brokerVars, BrokerTypeOK
    <3>3. Len(log[p]) <= Len(log'[p]) /\ \A i \in 1..Len(log[p]) : log'[p][i] = log[p][i]
      BY <3>1, <3>2
    <3>4. committed'[p] \in 0..Len(log'[p]) /\ position'[p] \in 0..Len(log'[p])
      BY <1>2, <2>1, <3>1, <3>3
    <3>5. \A i \in 1..committed[p] : Done(log[p][i])' /\ log'[p][i] = log[p][i]
      BY <1>3, <3>1, <3>3 DEF DeliveryInv, OffsetsOf
    <3>6. ASSUME NEW r \in Replica, owner'[p] = r, Working(r)', NEW i \in 1..position[p]
          PROVE  Done(log[p][i])' \/ (Queued(r, "handle")' /\ log'[p][i] = inflight'[r])
      <4>1. Done(log[p][i]) \/ (Queued(r, "handle") /\ log[p][i] = inflight[r])
        BY <1>2, <2>1, <3>6 DEF DeliveryInv, OffsetsOf, Working, Running
      <4>2. log'[p][i] = log[p][i]
        BY <3>1, <3>3
      <4> QED
        BY <1>2, <1>3, <4>1, <4>2 DEF Queued
    <3> QED
      BY <1>2, <2>1, <3>4, <3>5, <3>6 DEF OffsetsOf
  <2> QED
    BY <1>4, <2>2, <2>3, <2>4 DEF DeliveryInv
<1> QED
  BY <1>5, <1>6

\* The invariant holds initially.
LEMMA DeliveryInit ==
    ASSUME Init
    PROVE  DeliveryInv
<1>1. Inv
  BY InvInit
<1>2. OwnerIsUp
  BY DEF Init, OwnerIsUp
<1>3. ASSUME NEW r \in Replica PROVE BufferOf(r) /\ HandlingOf(r) /\ ClosingOf(r) /\ ListenOf(r)
  <2>1. /\ stage[r] \in {"down", "idle"} /\ queue[r] = <<>> /\ revoked[r] = {}
        /\ outbox[r] = <<>> /\ changed[r] = <<>> /\ batch[r] = <<>> /\ pending[r] = <<>>
        /\ closing[r] = "no" /\ rest[r] = <<>>
    BY DEF Init
  <2> QED
    BY <2>1 DEF BufferOf, HandlingOf, ClosingOf, ListenOf, Awaiting, Queued, Range
<1>4. ASSUME NEW p \in Partition PROVE OffsetsOf(p)
  <2>1. log[p] = <<>> /\ committed[p] = 0 /\ position[p] = 0
    BY DEF Init
  <2> QED
    BY <2>1 DEF OffsetsOf
<1> QED
  BY <1>1, <1>2, <1>3, <1>4 DEF DeliveryInv

-----------------------------------------------------------------------------
(* The theorems. *)

\* The delivery invariant -- what the buffers hold at each await, how far a handler
\* has brought its report, what a partition's offsets promise -- holds in every
\* reachable state of the sharded tracker.
THEOREM DeliveryCorrect == Spec => []DeliveryInv
<1>1. Init => DeliveryInv
  BY DeliveryInit
<1>2. DeliveryInv /\ [Next]_vars => DeliveryInv'
  <2> SUFFICES ASSUME DeliveryInv, [Next]_vars
               PROVE  DeliveryInv'
    OBVIOUS
  <2>1. Inv'
    BY InvStep DEF DeliveryInv
  <2>2. ASSUME NEW r \in Replica, ReplicaStep(r) PROVE DeliveryInv'
    BY <2>1, <2>2, ReplicaDelivery
  <2> QED
    BY <2>1, <2>2, EnvironmentDelivery DEF Next, ReplicaStep
<1> QED
  BY <1>1, <1>2, PTL DEF Spec

\* runner.py's _revoked: a partition that is given (back) to a replica is out of its
\* discard set once the assignment callback is over, so its reports are processed.
THEOREM OwnerListensCorrect == Spec => []OwnerListens
<1>1. DeliveryInv => OwnerListens
  <2> SUFFICES ASSUME DeliveryInv, NEW p \in Partition, owner[p] # NoReplica, group = "stable",
                      owner[p] \notin joined, ~Queued(owner[p], "claim")
               PROVE  p \notin revoked[owner[p]]
    BY DEF OwnerListens
  <2>1. owner[p] \in Replica
    BY DEF DeliveryInv, Inv, TypeOK, BrokerTypeOK
  <2> QED
    BY <2>1 DEF DeliveryInv, ListenOf
<1> QED
  BY <1>1, DeliveryCorrect, PTL

\* messaging.py's stream() and commit(): at-least-once, through rebalances, failures,
\* crashes and shutdowns.
THEOREM PublishedCorrect == Spec => []CommittedIsPublished
<1>1. DeliveryInv => CommittedIsPublished
  BY DEF DeliveryInv, OffsetsOf, Done, Published, CommittedIsPublished, CommittedReports
<1> QED
  BY <1>1, DeliveryCorrect, PTL

\* A committed report's track point is in the history, buffered for it, discarded, or
\* among those that died with a crash, a failed write or an interrupted flush.
THEOREM RecordedCorrect == Spec => []CommittedIsRecordedOrLost
<1>1. DeliveryInv => CommittedIsRecordedOrLost
  BY DEF DeliveryInv, OffsetsOf, Done, Secured, BufferedAt, Buffered,
     CommittedIsRecordedOrLost, CommittedReports
<1> QED
  BY <1>1, DeliveryCorrect, PTL

-----------------------------------------------------------------------------
(* The live picture, first invariant: whose updates a replica has.         *)

\* The aircraft some updates are about.
Addressed(updates) == {x.ac : x \in Keys(updates)}

\* What the consumer task has handled and no flush has taken yet.
Unflushed(r) ==
    Addressed(pending[r]) \cup (IF Holds(r, "handle") THEN Addressed(changed[r]) ELSE {})

Serves(r, a) == r \notin joined /\ owner[PartitionFor[a]] = r

Active(r, a) == Serves(r, a) /\ PartitionFor[a] \notin revoked[r]

\* The buffer is flushed before its aircraft are given up.
UnflushedOwned(r) == Running(r) => \A a \in Unflushed(r) : Active(r, a)

\* While nothing fails, an aircraft is not pruned with an update in the buffer:
\* the sweep that terminates it flushes the buffer.
UnflushedLive(r) ==
    faults = 0 /\ Running(r) /\ ~(Awaiting(r) /\ Holds(r, "sweep")) =>
        \A a \in Unflushed(r) : a \in Live(tracks[r])

\* A sweep is about tracks that are held, or astray.
SweptOwned(r) ==
    Awaiting(r) /\ ~Holds(r, "handle") =>
        \A a \in Addressed(changed[r]) : a \in astray[r] \/ Active(r, a)

\* A flush is about aircraft the replica serves, about to be dropped if revoked.
BatchOwned(r) ==
    stage[r] \in {"recording", "showing"} =>
        \A a \in Addressed(batch[r]) :
            \/ a \in astray[r]
            \/ Active(r, a) \/ (Serves(r, a) /\ a \in leaving[r])
            \/ faults > 0 /\ tracks[r][a] = NoTrack

PlaceOf(r) == UnflushedOwned(r) /\ UnflushedLive(r) /\ SweptOwned(r) /\ BatchOwned(r)

PlaceInv == DeliveryInv /\ \A r \in Replica : PlaceOf(r)

\* What a step of the replica may assume of it.
Placed(r) == Before(r) /\ PlaceOf(r)

\* What is known of where a replica's updates are before it takes a step.
LEMMA PlacedTypes ==
    ASSUME NEW r \in Replica, Placed(r)
    PROVE  /\ Before(r) /\ TypeOK /\ TaskTypeOK /\ FlushTypeOK /\ StateTypeOK /\ BrokerTypeOK
           /\ EnvTypeOK /\ BufferOf(r) /\ OwnershipOf(r) /\ WellQueued(queue[r])
BY DEF Placed, Before, Inv, TypeOK, OwnershipInv, OwnershipOf

\* The aircraft of a sequence of updates.
LEMMA AddressedOf ==
    /\ Addressed(<<>>) = {}
    /\ \A u : Addressed(<<u>>) = {u.ac}
    /\ \A s, t \in Seq(TrackUpdate) : Addressed(s \o t) = Addressed(s) \cup Addressed(t)
    /\ \A s \in Seq(TrackUpdate) : Addressed(s) \subseteq Aircraft
    /\ \A s : \A i \in DOMAIN s : s[i].ac \in Addressed(s)
    /\ \A s : \A a \in Addressed(s) : \E i \in DOMAIN s : s[i].ac = a
<1>1. \A u : Key(u).ac = u.ac
  BY DEF Key
<1>2. Addressed(<<>>) = {} /\ \A u : Addressed(<<u>>) = {u.ac}
  BY <1>1, KeysOf DEF Addressed
<1>3. \A s, t \in Seq(TrackUpdate) : Addressed(s \o t) = Addressed(s) \cup Addressed(t)
  BY KeysOf DEF Addressed
<1>4. \A s \in Seq(TrackUpdate) : Addressed(s) \subseteq Aircraft
  BY KeysType DEF Addressed, Report
<1>5. ASSUME NEW s, NEW i \in DOMAIN s PROVE s[i].ac \in Addressed(s)
  <2>1. Key(s[i]) \in Keys(s)
    BY DEF Keys, Range
  <2> QED
    BY <1>1, <2>1 DEF Addressed
<1>6. ASSUME NEW s, NEW a \in Addressed(s) PROVE \E i \in DOMAIN s : s[i].ac = a
  <2>1. PICK x \in Keys(s) : a = x.ac
    BY DEF Addressed
  <2>2. PICK i \in DOMAIN s : x = Key(s[i])
    BY DEF Keys, Range
  <2> QED
    BY <1>1, <2>1, <2>2
<1> QED
  BY <1>2, <1>3, <1>4, <1>5, <1>6

\* The updates on their way are about aircraft.
LEMMA UnflushedType ==
    ASSUME NEW r \in Replica, FlushTypeOK
    PROVE  Unflushed(r) \subseteq Aircraft
BY AddressedOf DEF Unflushed, FlushTypeOK

\* Failures and strays are counted, never forgotten.
LEMMA GhostsGrow ==
    ASSUME TypeOK, NEW r \in Replica, ReplicaStep(r)
    PROVE  faults <= faults' /\ faults' \in Nat /\ strayed \subseteq strayed' /\ overwritten \subseteq overwritten'
<1>1. faults \in Nat
  BY DEF TypeOK, EnvTypeOK
<1> USE DEF envVars, ghostVars, closeVars
<1>2. CASE Consume(r)
  BY <1>1, <1>2 DEF Consume, Receive, DiscardReport, HandleReport, Commit
<1>3. ASSUME ForgetPruned(r) PROVE strayed \subseteq strayed'
  BY <1>3 DEF ForgetPruned, Stray
<1>4. ASSUME FinishFlush(r) PROVE strayed \subseteq strayed'
  BY <1>3, <1>4 DEF FinishFlush, FinishHandle, FinishSweep, FinishRelease
<1>5. CASE Proceed(r)
  BY <1>1, <1>3, <1>4, <1>5 DEF Proceed, Publish, Record, Show, ForgetTerminated
<1>6. CASE SweepStep(r)
  BY <1>1, <1>3, <1>6 DEF SweepStep, SweepTimer, SweepNothing, SweepChanged
<1>7. CASE RebalanceStep(r) \/ Close(r) \/ Start(r)
  BY <1>1, <1>7 DEF RebalanceStep, Rejoin, ReleasePartitions, Learn, ClaimPartitions, Close,
     LastRecord, LastShow, Leave, Depart, Wipe, Start
<1>8. CASE Stop(r) \/ Crash(r) \/ Fail(r)
  BY <1>1, <1>8 DEF Stop, Crash, Depart, Exit, Wipe, Fail, Fault, HandlerFails, SweepFails, ReleaseFails,
     Stray, CommitFails, LastFlushFails
<1> QED
  BY <1>2, <1>5, <1>6, <1>7, <1>8 DEF ReplicaStep
-----------------------------------------------------------------------------
(* A replica's step and the place of its updates.                          *)

\* Nothing is taken from the replica.
Serving(r) ==
    /\ \A a \in Aircraft : Serves(r, a) => Serves(r, a)'
    /\ revoked'[r] \subseteq revoked[r]

\* The holder of the lock leaves it.
LEMMA LeavePlace ==
    ASSUME NEW r \in Replica, TypeOK, LeaveLock(r), changed'[r] = <<>>,
           \A a \in Addressed(pending'[r]) : Active(r, a)',
           faults' = 0 => \A a \in Addressed(pending'[r]) : a \in Live(tracks[r])'
    PROVE  PlaceOf(r)'
<1>1. stage'[r] \in {"idle", "entered"}
  BY DEF LeaveLock, TypeOK, TaskTypeOK
<1>2. Unflushed(r)' = Addressed(pending'[r])
  BY AddressedOf DEF Unflushed, Holds
<1> QED
  BY <1>1, <1>2 DEF PlaceOf, UnflushedOwned, UnflushedLive, SweptOwned, BatchOwned,
     Awaiting

\* The holder of the lock, what it awaits and the replica's updates stay.
LEMMA StayPlace ==
    ASSUME NEW r \in Replica, Placed(r), SameBuffers(r), Serving(r),
           Running(r)' => Running(r),
           Awaiting(r)' => Awaiting(r),
           stage'[r] \in {"recording", "showing"} => stage[r] \in {"recording", "showing"},
           \A t : Holds(r, t)' => Holds(r, t) \/ (changed[r] = <<>> /\ ~Awaiting(r)'),
           Awaiting(r) => Awaiting(r)' /\ \A t : Holds(r, t)' <=> Holds(r, t),
           tracks'[r] = tracks[r], leaving'[r] = leaving[r], faults' = faults,
           \A a \in astray[r] : a \in astray'[r] \/ Active(r, a)'
    PROVE  PlaceOf(r)'
<1>1. FlushTypeOK /\ PlaceOf(r)
  BY PlacedTypes DEF Placed
<1>2. \A a \in Aircraft : Active(r, a) => Active(r, a)'
  BY DEF Active, Serving
<1>3. Addressed(changed[r]) \subseteq Aircraft /\ Addressed(batch[r]) \subseteq Aircraft
  BY <1>1, AddressedOf DEF FlushTypeOK
<1>4. Unflushed(r)' \subseteq Unflushed(r) /\ Unflushed(r) \subseteq Aircraft
  BY <1>1, UnflushedType, AddressedOf DEF Unflushed, SameBuffers, Addressed, Keys
<1>5. UnflushedOwned(r)'
  BY <1>1, <1>2, <1>4 DEF PlaceOf, UnflushedOwned
<1>6. UnflushedLive(r)'
  BY <1>1, <1>4 DEF PlaceOf, UnflushedLive
<1>7. SweptOwned(r)'
  BY <1>1, <1>2, <1>3 DEF PlaceOf, SweptOwned, SameBuffers, Addressed, Keys
<1>8. BatchOwned(r)'
  BY <1>1, <1>2, <1>3 DEF PlaceOf, BatchOwned, SameBuffers, Addressed, Keys, Serving
<1> QED
  BY <1>5, <1>6, <1>7, <1>8 DEF PlaceOf

\* A task asks for the lock.
LEMMA AcquirePlace ==
    ASSUME NEW r \in Replica, Placed(r), SameBuffers(r), Serving(r), Loops(r),
           NEW t \in Task, ~Queued(r, t), t = "handle" => ~Queued(r, "claim"), Acquire(r, t),
           tracks'[r] = tracks[r], leaving'[r] = leaving[r], faults' = faults,
           \A a \in astray[r] : a \in astray'[r] \/ Active(r, a)'
    PROVE  PlaceOf(r)'
<1>1. /\ TypeOK /\ TaskTypeOK /\ FlushTypeOK /\ WellQueued(queue[r]) /\ BufferOf(r)
  BY PlacedTypes
<1>2. /\ Awaiting(r)' <=> Awaiting(r) /\ queue[r] # <<>>
      /\ queue[r] # <<>> => \A u : Holds(r, u)' <=> Holds(r, u)
  BY <1>1, AcquireKeeps
<1>3. /\ stage'[r] = stage[r] \/ (stage[r] = "idle" /\ stage'[r] = "entered")
      /\ Awaiting(r) => queue[r] # <<>>
      /\ ~Awaiting(r) => changed[r] = <<>>
      /\ queue[r] = <<>> => \A u : ~Holds(r, u)
  BY <1>1 DEF BufferOf, Acquire, Loops, Running, Awaiting, Holds, TaskTypeOK, Stage
<1>4. Running(r)
  BY <1>3 DEF Loops, Running
<1> QED
  BY <1>2, <1>3, <1>4, StayPlace

\* A replica that has stopped.
LEMMA StoppedPlace ==
    ASSUME NEW r \in Replica, ~Running(r)'
    PROVE  PlaceOf(r)'
BY DEF PlaceOf, UnflushedOwned, UnflushedLive, SweptOwned, BatchOwned,
   Awaiting, Running, Addressed, Keys

\* A report leaves its aircraft live, and the others as they were.
LEMMA LiveAfterReport ==
    ASSUME NEW tr \in Tracks, NEW report \in Report
    PROVE  Live(tr) \cup {report.ac} \subseteq Live(OnReport(tr, report))
<1>1. report.ac \in Aircraft /\ report.at \in Nat
  BY DEF Report
<1>2. \A a \in Aircraft : a # report.ac => OnReport(tr, report)[a] = tr[a]
  BY OnReportType
<1>3. OnReport(tr, report)[report.ac] \in TrackRecord
  BY OnReportType
<1>4. OnReport(tr, report)[report.ac] = Folded(tr, report)
  BY <1>1 DEF OnReport, Tracks
<1>5. ~Terminated(Folded(tr, report))
  BY DEF Folded, Initiate, Update, Accepted, Starts, Terminated
<1>6. report.ac \in Live(OnReport(tr, report))
  BY <1>1, <1>3, <1>4, <1>5, NoTrackIsNoRecord DEF Live, Known
<1> QED
  BY <1>2, <1>6 DEF Live, Known

\* A report brings back its own aircraft, if its partition is not revoked.
LEMMA NoteStrays ==
    ASSUME NEW r \in Replica, StateTypeOK, NEW report, Note(r, report),
           NEW a \in astray[r], a \notin astray'[r]
    PROVE  a = report.ac /\ PartitionFor[report.ac] \notin revoked[r]
BY DEF Note, StateTypeOK

\* The consumer's steps.
LEMMA ConsumePlace ==
    ASSUME NEW r \in Replica, Placed(r), Consume(r)
    PROVE  PlaceOf(r)'
<1>1. /\ Before(r) /\ TypeOK /\ TaskTypeOK /\ FlushTypeOK /\ StateTypeOK /\ OwnershipOf(r) /\ PlaceOf(r)
      /\ Queued(r, "handle") => inflight[r] \in Report
  BY PlacedTypes DEF Placed, OwnershipOf, WaitingIsOwned, TaskTypeOK
<1>2. ASSUME UNCHANGED <<owner, joined, revoked>> PROVE Serving(r)
  BY <1>2 DEF Serving, Serves
<1>3. ASSUME NEW p \in Partition, Receive(r, p) PROVE PlaceOf(r)'
  <2>1. /\ Loops(r) /\ ~Queued(r, "handle") /\ ~Queued(r, "claim") /\ Acquire(r, "handle")
        /\ SameBuffers(r) /\ UNCHANGED <<owner, joined, revoked, tracks, leaving, faults>>
    BY <1>1, <1>3 DEF Receive, Works, OwnershipOf, WaitingIsOwned, SameBuffers, flushVars, envVars, ghostVars
  <2> DEFINE report == log[p][position[p] + 1]
  <2>2. /\ Note(r, report) /\ owner[p] = r /\ r \notin joined
        /\ report \in Report /\ PartitionFor[report.ac] = p
    BY <1>1, <1>3 DEF Receive, Before, Inv, TypeOK, BrokerTypeOK, WellPlaced
  <2>3. ASSUME NEW a \in astray[r], a \notin astray'[r] PROVE Active(r, a)'
    <3> HIDE DEF report
    <3>1. a = report.ac /\ PartitionFor[report.ac] \notin revoked[r]
      BY <1>1, <2>2, <2>3, NoteStrays
    <3> QED
      BY <2>1, <2>2, <3>1 DEF Active, Serves
  <2> QED
    BY <1>2, <2>1, <2>3, AcquirePlace DEF Task
<1>4. CASE DiscardReport(r)
  <2>1. /\ Enters(r, "handle") /\ LeaveLock(r) /\ SameBuffers(r)
        /\ UNCHANGED <<owner, joined, revoked, tracks, astray, faults>>
    BY <1>4 DEF DiscardReport, SameBuffers, flushVars, brokerVars, stateVars, envVars
  <2>2. changed[r] = <<>> /\ ~Awaiting(r) /\ Running(r)
    BY <1>1, <2>1, EntersEmpty DEF Enters, Running
  <2>3. \A a \in Addressed(pending[r]) : Active(r, a) /\ (faults = 0 => a \in Live(tracks[r]))
    BY <1>1, <2>2 DEF PlaceOf, UnflushedOwned, UnflushedLive, Unflushed
  <2> QED
    BY <1>1, <2>1, <2>2, <2>3, LeavePlace DEF SameBuffers, Active, Serves
<1>5. CASE HandleReport(r)
  <2> DEFINE report == inflight[r]
             update == ToUpdate(OnReport(tracks[r], report), report.ac, report.at)
  <2>1. /\ Enters(r, "handle") /\ PartitionFor[report.ac] \notin revoked[r]
        /\ UNCHANGED <<owner, joined, revoked, astray, leaving, faults, pending, batch, queue>>
        /\ changed'[r] = <<update>> /\ stage'[r] = "publishing"
        /\ tracks'[r] = OnReport(tracks[r], report)
    BY <1>1, <1>5 DEF HandleReport, TaskTypeOK, FlushTypeOK, StateTypeOK, brokerVars, envVars, ghostVars
  <2>2. /\ Holds(r, "handle") /\ Queued(r, "handle") /\ ~Holds(r, "sweep") /\ ~Awaiting(r)
        /\ Running(r) /\ changed[r] = <<>>
    BY <1>1, <2>1, EntersEmpty DEF Enters, Running
  <2>3. report \in Report /\ tracks[r] \in Tracks /\ update.ac = report.ac
    BY <1>1, <2>2 DEF StateTypeOK, ToUpdate
  <2>4. Active(r, report.ac)
    BY <1>1, <2>1, <2>2 DEF OwnershipOf, WaitingIsOwned, Active, Serves
  <2>5. Unflushed(r)' = Addressed(pending[r]) \cup {report.ac}
    BY <2>1, <2>2, <2>3, AddressedOf DEF Unflushed, Holds
  <2>6. UnflushedOwned(r)'
    BY <1>1, <2>1, <2>2, <2>4, <2>5 DEF PlaceOf, UnflushedOwned, Unflushed, Active, Serves
  <2>7. UnflushedLive(r)'
    <3>1. Live(tracks[r]) \cup {report.ac} \subseteq Live(tracks'[r])
      BY <2>1, <2>3, LiveAfterReport
    <3>2. faults = 0 => \A a \in Addressed(pending[r]) : a \in Live(tracks[r])
      BY <1>1, <2>2 DEF PlaceOf, UnflushedLive, Unflushed
    <3> QED
      BY <2>1, <2>5, <3>1, <3>2 DEF UnflushedLive
  <2> QED
    BY <2>1, <2>2, <2>6, <2>7 DEF PlaceOf, SweptOwned, BatchOwned, Holds
<1>6. CASE Commit(r)
  <2>1. /\ UNCHANGED <<owner, joined, revoked, tracks, astray, leaving, faults, queue, stage>>
        /\ SameBuffers(r)
    BY <1>6 DEF Commit, Works, SameBuffers, flushVars, stateVars, envVars, ghostVars
  <2> QED
    BY <1>2, <2>1, StayPlace DEF Running, Awaiting, Holds
<1> QED
  BY <1>3, <1>4, <1>5, <1>6 DEF Consume

\* A flush begins.
LEMMA StartFlushPlace ==
    ASSUME NEW r \in Replica, TypeOK, NEW all \in Seq(TrackUpdate), StartFlush(r, all),
           UNCHANGED <<queue, changed, tracks, astray, joined, owner, faults>>,
           Holds(r, "handle") => \A a \in Addressed(changed[r]) :
                                     Active(r, a)' /\ (faults = 0 => a \in Live(tracks[r])),
           ~Holds(r, "handle") => \A a \in Addressed(changed[r]) : a \in astray[r] \/ Active(r, a)',
           \A a \in Addressed(all) : \/ a \in astray[r]
                                     \/ Active(r, a)' \/ (Serves(r, a) /\ a \in leaving'[r])
                                     \/ faults > 0 /\ tracks[r][a] = NoTrack
    PROVE  PlaceOf(r)'
<1>1. stage'[r] = "recording" /\ batch'[r] = all /\ pending'[r] = <<>>
  BY DEF StartFlush, TypeOK, TaskTypeOK, FlushTypeOK
<1>2. Unflushed(r)' = IF Holds(r, "handle") THEN Addressed(changed[r]) ELSE {}
  BY <1>1, AddressedOf DEF Unflushed, Holds, Addressed, Keys
<1>3. UnflushedOwned(r)' /\ UnflushedLive(r)'
  BY <1>2 DEF UnflushedOwned, UnflushedLive
<1>4. SweptOwned(r)'
  BY DEF SweptOwned, Holds, Addressed, Keys
<1>5. BatchOwned(r)'
  BY <1>1 DEF BatchOwned, Serves, Addressed, Keys
<1> QED
  BY <1>1, <1>3, <1>4, <1>5 DEF PlaceOf

\* One more update of the holder's is on the topic.
LEMMA PublishPlace ==
    ASSUME NEW r \in Replica, Placed(r), Publish(r)
    PROVE  PlaceOf(r)'
<1>1. /\ Before(r) /\ TypeOK /\ TaskTypeOK /\ FlushTypeOK /\ BufferOf(r) /\ PlaceOf(r)
  BY PlacedTypes DEF Placed
<1>2. /\ stage[r] = "publishing" /\ outbox[r] # <<>>
      /\ UNCHANGED <<owner, joined, revoked, tracks, mapped, astray, leaving, faults>>
  BY <1>1 DEF Publish, brokerVars, stateVars, envVars, ghostVars
<1>3. /\ Awaiting(r) /\ Running(r) /\ queue[r] # <<>> /\ batch[r] = <<>> /\ ~Holds(r, "release")
      /\ Holds(r, "handle") => ~Holds(r, "sweep")
  BY <1>1, <1>2, HoldsIsQueued DEF BufferOf, Awaiting, Running
<1>4. \A a : Active(r, a)' <=> Active(r, a)
  BY <1>2 DEF Active, Serves
<1>5. \A a \in Unflushed(r) : Active(r, a)
  BY <1>1, <1>3 DEF PlaceOf, UnflushedOwned
<1>6. Holds(r, "handle") /\ faults = 0 => \A a \in Unflushed(r) : a \in Live(tracks[r])
  BY <1>1, <1>3 DEF PlaceOf, UnflushedLive
<1>7. ~Holds(r, "handle") => \A a \in Addressed(changed[r]) : a \in astray[r] \/ Active(r, a)
  BY <1>1, <1>3 DEF PlaceOf, SweptOwned
<1>8. CASE BufferChanged(r)
  <2> DEFINE buffered == pending[r] \o changed[r]
  <2>1. buffered \in Seq(TrackUpdate) /\ Addressed(buffered) = Addressed(pending[r]) \cup Addressed(changed[r])
    BY <1>1, AddressedOf DEF FlushTypeOK
  <2>2. Holds(r, "handle") => Addressed(buffered) = Unflushed(r)
    BY <2>1 DEF Unflushed
  <2>3. Addressed(pending[r]) \subseteq Unflushed(r)
    BY DEF Unflushed
  <2>4. CASE StartFlush(r, buffered) /\ UNCHANGED <<queue, changed>>
    BY <1>1, <1>2, <1>4, <1>5, <1>6, <1>7, <2>1, <2>2, <2>3, <2>4, StartFlushPlace
  <2>5. CASE /\ Holds(r, "handle") /\ LeaveLock(r)
             /\ pending' = [pending EXCEPT ![r] = buffered]
             /\ changed' = [changed EXCEPT ![r] = <<>>]
    <3>1. pending'[r] = buffered /\ changed'[r] = <<>>
      BY <1>1, <2>5 DEF FlushTypeOK
    <3> QED
      BY <1>1, <1>2, <1>4, <1>5, <1>6, <2>2, <2>5, <3>1, LeavePlace
  <2> QED
    BY <1>8, <2>4, <2>5 DEF BufferChanged
<1>9. CASE UNCHANGED <<stage, queue, changed, pending, batch>>
  <2>1. PlaceOf(r)' <=> PlaceOf(r)
    BY <1>2, <1>9 DEF PlaceOf, UnflushedOwned, UnflushedLive, SweptOwned, BatchOwned,
       Unflushed, Addressed, Keys, Active, Serves, Running, Awaiting, Holds, Live, Known
  <2> QED
    BY <1>1, <2>1
<1> QED
  BY <1>8, <1>9 DEF Publish

\* A flush ends.
LEMMA FinishFlushPlace ==
    ASSUME NEW r \in Replica, Placed(r), FinishFlush(r), stage[r] \in {"recording", "showing"},
           UNCHANGED <<owner, revoked, pending, faults>>
    PROVE  PlaceOf(r)'
<1>1. /\ TypeOK /\ TaskTypeOK /\ FlushTypeOK /\ BufferOf(r) /\ PlaceOf(r)
  BY PlacedTypes DEF Placed
<1>2. pending'[r] = <<>> /\ Awaiting(r) /\ Addressed(pending'[r]) = {}
  BY <1>1, AddressedOf DEF BufferOf, Awaiting
<1>3. CASE FinishHandle(r)
  BY <1>1, <1>2, <1>3, LeavePlace DEF FinishHandle, FlushTypeOK
<1>4. CASE FinishRelease(r)
  <2>1. changed'[r] = <<>>
    BY <1>1, <1>2, <1>4 DEF FinishRelease, BufferOf
  <2> QED
    BY <1>1, <1>2, <1>4, <2>1, LeavePlace DEF FinishRelease
<1>5. CASE FinishSweep(r) /\ Departed(changed[r]) # {}
  <2>1. /\ stage'[r] = "forgetting" /\ UNCHANGED <<queue, changed, astray, joined>> /\ Holds(r, "sweep")
    BY <1>1, <1>5 DEF FinishSweep, TaskTypeOK
  <2>2. ~Holds(r, "handle") /\ ~Holds(r, "handle")' /\ Unflushed(r)' = {}
    BY <1>1, <1>2, <2>1, HoldsIsQueued DEF Unflushed, Holds
  <2>3. SweptOwned(r)'
    BY <1>1, <1>2, <2>1, <2>2 DEF PlaceOf, SweptOwned, Addressed, Keys, Active, Serves
  <2> QED
    BY <2>1, <2>2, <2>3 DEF PlaceOf, UnflushedOwned, UnflushedLive, BatchOwned
<1>6. CASE FinishSweep(r) /\ ~(Departed(changed[r]) # {})
  BY <1>1, <1>2, <1>6, LeavePlace DEF FinishSweep, FlushTypeOK
<1> QED
  BY <1>3, <1>4, <1>5, <1>6 DEF FinishFlush

\* What the holder of the lock does once its await is over.
LEMMA ProceedPlace ==
    ASSUME NEW r \in Replica, Placed(r), Proceed(r)
    PROVE  PlaceOf(r)'
<1>1. /\ TypeOK /\ TaskTypeOK /\ FlushTypeOK /\ BufferOf(r) /\ PlaceOf(r)
  BY PlacedTypes DEF Placed
<1>2. CASE Record(r)
  <2>1. stage[r] = "recording" /\ UNCHANGED <<owner, revoked, pending, outbox, faults>>
    BY <1>2 DEF Record, envVars
  <2>2. CASE FinishFlush(r)
    BY <2>1, <2>2, FinishFlushPlace
  <2>3. CASE /\ stage' = [stage EXCEPT ![r] = "showing"]
             /\ UNCHANGED <<batch, queue, changed, leaving, joined, tracks, mapped, astray>>
    <3>1. stage'[r] = "showing"
      BY <1>1, <2>3 DEF TaskTypeOK
    <3>2. SameBuffers(r) /\ Serving(r)
      BY <2>1, <2>3 DEF SameBuffers, Serving, Serves
    <3> QED
      BY <2>1, <2>3, <3>1, <3>2, StayPlace DEF Running, Awaiting, Holds
  <2> QED
    BY <1>2, <2>2, <2>3 DEF Record
<1>3. CASE Show(r)
  BY <1>3, FinishFlushPlace DEF Show, envVars
<1>4. CASE ForgetTerminated(r)
  <2>1. stage[r] = "forgetting" /\ LeaveLock(r) /\ changed'[r] = <<>> /\ pending' = pending
    BY <1>1, <1>4 DEF ForgetTerminated, FlushTypeOK
  <2>2. pending'[r] = <<>> /\ Addressed(pending'[r]) = {}
    BY <1>1, <2>1, AddressedOf DEF BufferOf
  <2> QED
    BY <1>1, <2>1, <2>2, LeavePlace
<1> QED
  BY <1>2, <1>3, <1>4, PublishPlace DEF Proceed

\* Pruning leaves the live tracks.
LEMMA ForgetPrunedLive ==
    ASSUME NEW r \in Replica, StateTypeOK, ForgetPruned(r)
    PROVE  /\ astray[r] \subseteq astray'[r] /\ Live(tracks[r]) \subseteq Live(tracks[r])'
           /\ \A a \in Aircraft : tracks'[r][a] \in {tracks[r][a], NoTrack}
<1>1. tracks'[r] = Pruned(tracks[r], clock[r]) /\ astray[r] \subseteq astray'[r]
  BY DEF ForgetPruned, Stray, StateTypeOK
<1>2. \A a \in Aircraft : Pruned(tracks[r], clock[r])[a] \in {tracks[r][a], NoTrack}
  BY DEF Pruned
<1>3. \A a \in Live(tracks[r]) : a \in Aircraft /\ Pruned(tracks[r], clock[r])[a] = tracks[r][a]
  BY DEF Pruned, Live, Known
<1> QED
  BY <1>1, <1>2, <1>3 DEF Live, Known

\* The sweeper's steps.
LEMMA SweepPlace ==
    ASSUME NEW r \in Replica, Placed(r), SweepStep(r)
    PROVE  PlaceOf(r)'
<1>1. /\ Before(r) /\ TypeOK /\ TaskTypeOK /\ FlushTypeOK /\ StateTypeOK /\ EnvTypeOK
      /\ OwnershipOf(r) /\ PlaceOf(r)
  BY PlacedTypes DEF Placed
<1>2. CASE SweepTimer(r)
  <2>1. /\ Loops(r) /\ ~Queued(r, "sweep") /\ Acquire(r, "sweep") /\ SameBuffers(r)
        /\ UNCHANGED <<owner, joined, revoked, tracks, astray, leaving, faults>>
    BY <1>2 DEF SweepTimer, Works, SameBuffers, brokerVars, stateVars, flushVars, envVars, ghostVars
  <2>2. Serving(r)
    BY <2>1 DEF Serving, Serves
  <2> QED
    BY <2>1, <2>2, AcquirePlace DEF Task
<1>3. CASE SweepNothing(r)
  <2>1. /\ Enters(r, "sweep") /\ LeaveLock(r) /\ ForgetPruned(r) /\ SameBuffers(r)
        /\ UNCHANGED <<owner, joined, revoked, faults>>
    BY <1>3 DEF SweepNothing, SameBuffers, flushVars, brokerVars, envVars
  <2>2. changed[r] = <<>> /\ ~Awaiting(r) /\ Running(r)
    BY <1>1, <2>1, EntersEmpty DEF Enters, Running
  <2>3. \A a \in Addressed(pending[r]) : Active(r, a) /\ (faults = 0 => a \in Live(tracks[r]))
    BY <1>1, <2>2 DEF PlaceOf, UnflushedOwned, UnflushedLive, Unflushed
  <2>4. astray[r] \subseteq astray'[r] /\ Live(tracks[r]) \subseteq Live(tracks[r])'
    BY <1>1, <2>1, ForgetPrunedLive
  <2>5. \A a \in Addressed(pending'[r]) : a \in Addressed(pending[r]) /\ Active(r, a)'
    BY <2>1, <2>3 DEF SameBuffers, Active, Serves
  <2> QED
    BY <1>1, <2>1, <2>2, <2>3, <2>4, <2>5, LeavePlace DEF SameBuffers
<1>4. CASE SweepChanged(r)
  <2> DEFINE swept == Swept(tracks[r], clock[r])
  <2>1. /\ Enters(r, "sweep") /\ stage'[r] = "publishing"
        /\ UNCHANGED <<owner, joined, revoked, astray, leaving, pending, queue>>
    BY <1>1, <1>4 DEF SweepChanged, TaskTypeOK, brokerVars, ghostVars
  <2>2. PICK order \in SetToSeqs(Changing(tracks[r], clock[r])) :
           changed'[r] = [i \in DOMAIN order |-> ToUpdate(swept, order[i], clock[r])]
    BY <1>1, <1>4 DEF SweepChanged, FlushTypeOK
  <2>3. /\ Holds(r, "sweep") /\ ~Holds(r, "handle") /\ ~Awaiting(r) /\ Running(r)
        /\ changed[r] = <<>> /\ leaving[r] = {}
    BY <1>1, <2>1, EntersEmpty DEF Enters, Running, OwnershipOf, ReleaseIsWhole
  <2>4. \A a \in Addressed(changed'[r]) : a \in Changing(tracks[r], clock[r])
    <3>1. ASSUME NEW i \in DOMAIN changed'[r] PROVE changed'[r][i].ac \in Changing(tracks[r], clock[r])
      <4>1. i \in DOMAIN order /\ changed'[r][i].ac = order[i]
        BY <2>2, <3>1 DEF ToUpdate
      <4> QED
        BY <4>1 DEF SetToSeqs
    <3> QED
      BY <3>1, AddressedOf
  <2>5. ASSUME NEW a \in Changing(tracks[r], clock[r]) PROVE a \in astray[r] \/ Active(r, a)
    <3>1. a \in Aircraft /\ tracks[r][a] # NoTrack
      BY DEF Changing, Live, Known
    <3>2. a \in astray[r] \/ a \in Held(r)
      BY <3>1 DEF Held
    <3> QED
      BY <1>1, <2>3, <3>2 DEF OwnershipOf, HeldIsOwned, RejoinedIsEmpty, Active, Serves
  <2>6. SweptOwned(r)'
    BY <2>1, <2>4, <2>5 DEF SweptOwned, Active, Serves
  <2>7. Unflushed(r)' = Addressed(pending[r])
    BY <2>1, <2>3 DEF Unflushed, Holds, Addressed, Keys
  <2>8. UnflushedOwned(r)'
    BY <1>1, <2>1, <2>3, <2>7 DEF PlaceOf, UnflushedOwned, Unflushed, Active, Serves
  <2> QED
    BY <2>1, <2>3, <2>6, <2>8 DEF PlaceOf, UnflushedLive, BatchOwned,
       Awaiting, Holds
<1> QED
  BY <1>2, <1>3, <1>4 DEF SweepStep

\* The rebalance, as one member sees it.
LEMMA RebalancePlace ==
    ASSUME NEW r \in Replica, Placed(r), RebalanceStep(r)
    PROVE  PlaceOf(r)'
<1>1. /\ Before(r) /\ TypeOK /\ TaskTypeOK /\ FlushTypeOK /\ StateTypeOK
      /\ OwnershipOf(r) /\ PlaceOf(r)
  BY PlacedTypes DEF Placed
<1>2. CASE Rejoin(r)
  <2>1. /\ Loops(r) /\ ~Queued(r, "release") /\ SameBuffers(r)
        /\ UNCHANGED <<owner, revoked, tracks, astray, leaving, faults>>
        /\ \/ Owned(r) = {} /\ UNCHANGED <<queue, stage>>
           \/ Acquire(r, "release") /\ UNCHANGED joined
    BY <1>2 DEF Rejoin, SameBuffers, stateVars, flushVars, envVars, ghostVars
  <2>2. Serving(r)
    BY <2>1, ServiceAssumption DEF Serving, Serves, Owned
  <2>3. CASE UNCHANGED <<queue, stage>>
    BY <2>1, <2>2, <2>3, StayPlace DEF Running, Awaiting, Holds
  <2> QED
    BY <2>1, <2>2, <2>3, AcquirePlace DEF Task
<1>3. CASE ReleasePartitions(r)
  <2> DEFINE addresses == {a \in mapped[r] : PartitionFor[a] \in Owned(r)}
  <2>1. /\ Enters(r, "release") /\ UNCHANGED <<owner, changed, astray, faults>>
        /\ \/ pending[r] = <<>> /\ LeaveLock(r) /\ UNCHANGED pending
           \/ /\ StartFlush(r, pending[r]) /\ leaving'[r] = addresses
              /\ UNCHANGED <<queue, tracks, mapped, joined>>
    BY <1>1, <1>3 DEF ReleasePartitions, StateTypeOK, envVars, ghostVars
  <2>2. /\ changed[r] = <<>> /\ ~Awaiting(r) /\ Running(r) /\ ~Holds(r, "handle")
        /\ Addressed(changed[r]) = {}
    BY <1>1, <2>1, EntersEmpty, AddressedOf DEF Enters, Running
  <2>3. CASE pending[r] = <<>> /\ LeaveLock(r) /\ UNCHANGED pending
    BY <1>1, <2>1, <2>2, <2>3, AddressedOf, LeavePlace
  <2>4. CASE /\ StartFlush(r, pending[r]) /\ leaving'[r] = addresses
             /\ UNCHANGED <<queue, tracks, mapped, joined>>
    <3>1. ASSUME NEW a \in Addressed(pending[r])
          PROVE  \/ a \in astray[r] \/ (Serves(r, a) /\ a \in leaving'[r])
                 \/ faults > 0 /\ tracks[r][a] = NoTrack
      <4>1. a \in Unflushed(r) /\ a \in Aircraft
        BY <1>1, AddressedOf DEF Unflushed, FlushTypeOK
      <4>2. Serves(r, a)
        BY <1>1, <2>2, <4>1 DEF PlaceOf, UnflushedOwned, Active
      <4>3. tracks[r][a] # NoTrack \/ faults > 0
        <5>1. faults \in Nat
          BY <1>1 DEF TypeOK, EnvTypeOK
        <5> QED
          BY <1>1, <2>2, <4>1, <5>1 DEF PlaceOf, UnflushedLive, Live, Known
      <4>4. a \in Held(r) => a \in leaving'[r]
        BY <1>1, <2>4, <4>2, ServiceAssumption DEF OwnershipOf, HeldIsOwned, Serves, Owned, Held
      <4> QED
        BY <4>1, <4>2, <4>3, <4>4 DEF Held
    <3>2. pending[r] \in Seq(TrackUpdate)
      BY <1>1 DEF FlushTypeOK
    <3> QED
      BY <1>1, <2>1, <2>2, <2>4, <3>1, <3>2, StartFlushPlace
  <2> QED
    BY <2>1, <2>3, <2>4
<1>4. CASE Learn(r)
  <2>1. /\ Loops(r) /\ r \in joined /\ joined' = joined \ {r} /\ SameBuffers(r)
        /\ UNCHANGED <<owner, revoked, tracks, astray, leaving, faults>>
        /\ UNCHANGED <<queue, stage>> \/ Acquire(r, "claim")
    BY <1>4 DEF Learn, SameBuffers, stateVars, flushVars, envVars, ghostVars
  <2>2. Serving(r) /\ ~Queued(r, "claim")
    BY <1>1, <2>1 DEF Serving, Serves, OwnershipOf, RejoinedIsEmpty
  <2>3. CASE UNCHANGED <<queue, stage>>
    BY <2>1, <2>2, <2>3, StayPlace DEF Running, Awaiting, Holds
  <2> QED
    BY <2>1, <2>2, <2>3, AcquirePlace DEF Task
<1>5. CASE ClaimPartitions(r)
  <2>1. /\ Enters(r, "claim") /\ LeaveLock(r) /\ SameBuffers(r)
        /\ UNCHANGED <<owner, joined, tracks, astray, faults>> /\ revoked'[r] \subseteq revoked[r]
    BY <1>1, <1>5 DEF ClaimPartitions, Reclaim, SameBuffers, flushVars, brokerVars, envVars, ghostVars,
       StateTypeOK
  <2>2. changed[r] = <<>> /\ ~Awaiting(r) /\ Running(r)
    BY <1>1, <2>1, EntersEmpty DEF Enters, Running
  <2>3. \A a \in Addressed(pending[r]) : Active(r, a) /\ (faults = 0 => a \in Live(tracks[r]))
    BY <1>1, <2>2 DEF PlaceOf, UnflushedOwned, UnflushedLive, Unflushed
  <2> QED
    BY <1>1, <2>1, <2>2, <2>3, LeavePlace DEF SameBuffers, Active, Serves
<1> QED
  BY <1>2, <1>3, <1>4, <1>5 DEF RebalanceStep

\* Leaving run() empties the buffer; a release that was writing goes on.
LEMMA ExitPlace ==
    ASSUME NEW r \in Replica, Placed(r), Exit(r), faults \in Nat, faults' \in Nat, faults <= faults'
    PROVE  PlaceOf(r)'
<1>1. TypeOK /\ TaskTypeOK /\ FlushTypeOK /\ PlaceOf(r)
  BY PlacedTypes DEF Placed
<1>2. /\ pending'[r] = <<>> /\ changed'[r] = <<>>
      /\ UNCHANGED <<leaving, astray, owner, joined, revoked, tracks>>
  BY <1>1 DEF Exit, FlushTypeOK, brokerVars, stateVars
<1>3. Addressed(pending'[r]) = {} /\ Addressed(changed'[r]) = {}
  BY <1>2, AddressedOf
<1>4. Addressed(changed[r])' = {} /\ Unflushed(r)' = {}
  BY <1>2, <1>3 DEF Unflushed, Addressed, Keys
<1>5. UnflushedOwned(r)' /\ UnflushedLive(r)' /\ SweptOwned(r)'
  BY <1>4 DEF UnflushedOwned, UnflushedLive, SweptOwned
<1>6. BatchOwned(r)'
  <2>1. stage'[r] \in {"recording", "showing"} => batch'[r] = batch[r] /\ stage'[r] = stage[r]
    BY <1>1 DEF Exit, TaskTypeOK, FlushTypeOK
  <2>2. faults > 0 => faults' > 0
    OBVIOUS
  <2> QED
    BY <1>1, <1>2, <2>1, <2>2 DEF PlaceOf, BatchOwned, Active, Serves, Addressed, Keys
<1> QED
  BY <1>5, <1>6 DEF PlaceOf

\* A step that leaves the replica's memory and updates alone, and takes nothing from it.
LEMMA OtherPlace ==
    ASSUME TypeOK, NEW q \in Replica, PlaceOf(q), SameBuffers(q),
           Local(q)' = Local(q), faults <= faults', faults' \in Nat,
           \A a \in Aircraft : Serves(q, a) => Serves(q, a)'
    PROVE  PlaceOf(q)'
<1>1. /\ queue'[q] = queue[q] /\ stage'[q] = stage[q] /\ leaving'[q] = leaving[q]
      /\ tracks'[q] = tracks[q] /\ astray'[q] = astray[q] /\ revoked'[q] = revoked[q]
  BY DEF Local
<1>2. FlushTypeOK /\ faults \in Nat /\ faults' \in Nat
  BY DEF TypeOK, EnvTypeOK
<1>3. \A a \in Aircraft : Active(q, a) => Active(q, a)'
  BY <1>1 DEF Active
<1>4. Unflushed(q)' = Unflushed(q) /\ Unflushed(q) \subseteq Aircraft
  BY <1>1, <1>2, UnflushedType DEF Unflushed, SameBuffers, Addressed, Keys, Holds
<1>5. /\ Addressed(changed[q]) \subseteq Aircraft /\ Addressed(batch[q]) \subseteq Aircraft
      /\ Addressed(changed[q])' = Addressed(changed[q]) /\ Addressed(batch[q])' = Addressed(batch[q])
  BY <1>2, AddressedOf DEF FlushTypeOK, SameBuffers, Addressed, Keys
<1>6. UnflushedOwned(q)'
  BY <1>1, <1>3, <1>4 DEF PlaceOf, UnflushedOwned, Running
<1>7. UnflushedLive(q)'
  <2>1. faults' = 0 => faults = 0
    BY <1>2
  <2>2. /\ Live(tracks[q])' = Live(tracks[q])
        /\ (Running(q)' <=> Running(q)) /\ (Awaiting(q)' <=> Awaiting(q))
        /\ Holds(q, "sweep")' <=> Holds(q, "sweep")
    BY <1>1 DEF Live, Known, Running, Awaiting, Holds
  <2> QED
    BY <1>1, <1>4, <2>1, <2>2 DEF PlaceOf, UnflushedLive
<1>8. SweptOwned(q)'
  BY <1>1, <1>3, <1>5 DEF PlaceOf, SweptOwned, Awaiting, Holds
<1>9. BatchOwned(q)'
  <2>1. faults > 0 => faults' > 0
    BY <1>2
  <2> QED
    BY <1>1, <1>3, <1>5, <2>1 DEF PlaceOf, BatchOwned
<1> QED
  BY <1>6, <1>7, <1>8, <1>9 DEF PlaceOf

\* The last flush, the start, and whatever stops a replica or fails it.
LEMMA FailPlace ==
    ASSUME NEW r \in Replica, Placed(r), Close(r) \/ Start(r) \/ Stop(r) \/ Crash(r) \/ Fail(r)
    PROVE  PlaceOf(r)'
<1>1. /\ TypeOK /\ TaskTypeOK /\ FlushTypeOK /\ EnvTypeOK /\ BufferOf(r) /\ OwnershipOf(r) /\ PlaceOf(r)
  BY PlacedTypes DEF Placed
<1>0. ReplicaStep(r) /\ faults \in Nat
  BY <1>1 DEF ReplicaStep, EnvTypeOK
<1>9. faults <= faults' /\ faults' \in Nat
  BY <1>0, <1>1, GhostsGrow
<1>2. CASE Stop(r) \/ HandlerFails(r) \/ CommitFails(r)
  BY <1>0, <1>2, <1>9, ExitPlace DEF Stop, HandlerFails, CommitFails
<1>3. CASE Crash(r) \/ Leave(r)
  <2>1. stage'[r] = "down"
    BY <1>1, <1>3 DEF Crash, Leave, Depart, TaskTypeOK
  <2> QED
    BY <2>1, StoppedPlace DEF Running
<1>4. CASE LastRecord(r) \/ LastShow(r) \/ LastFlushFails(r)
  <2>1. UNCHANGED <<brokerVars, stateVars, flushVars, taskVars, astray>>
    BY <1>4 DEF LastRecord, LastShow, LastFlushFails, ghostVars
  <2>2. Local(r)' = Local(r) /\ SameBuffers(r) /\ \A a \in Aircraft : Serves(r, a) => Serves(r, a)'
    BY <2>1 DEF Local, SameBuffers, Serves, brokerVars, stateVars, flushVars, taskVars
  <2> QED
    BY <1>1, <1>9, <2>2, OtherPlace
<1>5. CASE Start(r)
  <2>1. /\ stage[r] = "down" /\ stage'[r] = "idle" /\ UNCHANGED <<pending, queue>>
    BY <1>1, <1>5 DEF Start, TaskTypeOK, flushVars
  <2>2. pending[r] = <<>> /\ queue[r] = <<>>
    BY <1>1, <2>1 DEF BufferOf, OwnershipOf, NothingOutside, Running
  <2>3. Unflushed(r)' = {}
    BY <2>1, <2>2, AddressedOf DEF Unflushed, Holds
  <2> QED
    BY <2>1, <2>3 DEF PlaceOf, UnflushedOwned, UnflushedLive, SweptOwned, BatchOwned,
       Awaiting
<1>6. CASE SweepFails(r)
  <2>1. /\ Running(r) /\ LeaveLock(r) /\ changed'[r] = <<>> /\ faults' # 0
        /\ UNCHANGED <<pending, owner, joined, revoked>>
    BY <1>1, <1>6 DEF SweepFails, Fault, Awaiting, Running, FlushTypeOK, EnvTypeOK,
       brokerVars, stateVars
  <2>2. \A a \in Addressed(pending[r]) : Active(r, a)
    BY <1>1, <2>1 DEF PlaceOf, UnflushedOwned, Unflushed
  <2> QED
    BY <1>1, <2>1, <2>2, LeavePlace DEF Active, Serves
<1>7. CASE ReleaseFails(r)
  <2>1. /\ Awaiting(r) /\ Holds(r, "release") /\ LeaveLock(r) /\ UNCHANGED <<changed, pending>>
    BY <1>7 DEF ReleaseFails
  <2>2. changed'[r] = <<>> /\ pending'[r] = <<>> /\ Addressed(pending'[r]) = {}
    BY <1>1, <2>1, AddressedOf DEF BufferOf
  <2> QED
    BY <1>1, <2>1, <2>2, LeavePlace
<1> QED
  BY <1>2, <1>3, <1>4, <1>5, <1>6, <1>7 DEF Close, Fail

\* Every step of a replica keeps its updates in their place.
LEMMA StepPlace ==
    ASSUME NEW r \in Replica, Placed(r), ReplicaStep(r)
    PROVE  PlaceOf(r)'
BY ConsumePlace, ProceedPlace, SweepPlace, RebalancePlace, FailPlace DEF ReplicaStep

Environment == UNCHANGED vars \/ Tick \/ StartRebalance \/ AssignAny \/ \E a \in Aircraft : Produce(a)

\* What the environment and the broker do leaves every replica alone.  An
\* assignment takes nothing: who has rejoined serves nobody.
LEMMA EnvironmentApart ==
    ASSUME DeliveryInv, Environment, NEW q \in Replica
    PROVE  /\ Local(q)' = Local(q) /\ SameBuffers(q) /\ faults' = faults
           /\ \A a \in Aircraft : Serves(q, a) => Serves(q, a)'
           /\ UNCHANGED <<live, joined, strayed, closing, overwritten>>
<1>1. /\ UNCHANGED <<queue, stage, inflight, revoked, pending, outbox, changed, batch>>
      /\ UNCHANGED <<tracks, mapped, leaving, astray, strayed, live, faults, joined>>
      /\ UNCHANGED <<closing, overwritten>>
  BY DEF Environment, Tick, StartRebalance, AssignAny, Assign, Produce, vars, brokerVars, stateVars,
     flushVars, taskVars, closeVars, storeVars, ghostVars, envVars
<1>2. ASSUME NEW a \in Aircraft, Serves(q, a) PROVE Serves(q, a)'
  <2>1. PartitionFor[a] \in Partition
    BY ServiceAssumption
  <2>2. stage[q] # "down" /\ q \notin joined
    BY <1>2, <2>1 DEF Serves, DeliveryInv, OwnerIsUp
  <2>3. ~AssignAny
    BY <2>2 DEF AssignAny, Assign, Members, Running
  <2>4. owner' = owner
    BY <2>3 DEF Environment, Tick, StartRebalance, Produce, vars, brokerVars
  <2> QED
    BY <1>1, <1>2, <2>4 DEF Serves
<1> QED
  BY <1>1, <1>2 DEF Local, SameBuffers

\* Nothing is on its way at the beginning.
LEMMA PlaceInit ==
    ASSUME Init
    PROVE  PlaceInv
<1>1. ASSUME NEW r \in Replica PROVE PlaceOf(r)
  <2>1. /\ stage[r] \in {"down", "idle"} /\ queue[r] = <<>> /\ pending[r] = <<>>
    BY <1>1 DEF Init
  <2>2. Unflushed(r) = {}
    BY <2>1, AddressedOf DEF Unflushed, Holds
  <2> QED
    BY <2>1, <2>2 DEF PlaceOf, UnflushedOwned, UnflushedLive, SweptOwned, BatchOwned,
       Awaiting
<1> QED
  BY <1>1, DeliveryInit DEF PlaceInv

\* Every step of a replica, the group and the environment preserves the place invariant.
LEMMA PlaceStep ==
    ASSUME PlaceInv, DeliveryInv', [Next]_vars
    PROVE  PlaceInv'
<1>1. DeliveryInv /\ Inv /\ TypeOK /\ faults' \in Nat
  BY DEF PlaceInv, DeliveryInv, Inv, TypeOK, EnvTypeOK
<1>2. ASSUME NEW r \in Replica, ReplicaStep(r), NEW q \in Replica PROVE PlaceOf(q)'
  <2>1. CASE q = r
    <3>1. Placed(r)
      BY DEF Placed, Before, PlaceInv, DeliveryInv
    <3> QED
      BY <1>2, <2>1, <3>1, StepPlace
  <2>2. CASE q # r
    <3>1. Untouched(q) /\ SameBuffers(q) /\ faults <= faults'
      BY <1>1, <1>2, <2>2, StepUntouched, StepApart, GhostsGrow DEF Apart
    <3>2. \A a \in Aircraft : Serves(q, a) => Serves(q, a)'
      BY <3>1, ServiceAssumption DEF Serves, Untouched
    <3> QED
      BY <1>1, <3>1, <3>2, OtherPlace DEF PlaceInv, Untouched
  <2> QED
    BY <2>1, <2>2
<1>3. ASSUME Environment, NEW q \in Replica PROVE PlaceOf(q)'
  <2>1. faults' = faults /\ faults \in Nat
    BY <1>1, <1>3, EnvironmentApart DEF TypeOK, EnvTypeOK
  <2> QED
    BY <1>1, <1>3, <2>1, EnvironmentApart, OtherPlace DEF PlaceInv
<1>4. Environment \/ \E r \in Replica : ReplicaStep(r)
  BY DEF Next, Environment, ReplicaStep
<1> QED
  BY <1>2, <1>3, <1>4 DEF PlaceInv

\* The place invariant -- every update a replica has buffered, swept up or is writing
\* is of an aircraft it serves, is giving up, or has lost track of -- holds in every
\* reachable state of the sharded tracker.
THEOREM PlaceCorrect == Spec => []PlaceInv
<1>1. Init => PlaceInv
  BY PlaceInit
<1>2. PlaceInv /\ DeliveryInv' /\ [Next]_vars => PlaceInv'
  BY PlaceStep
<1> QED
  BY <1>1, <1>2, DeliveryCorrect, PTL DEF Spec

\* runner.py's release_partitions: the aircraft of a partition that was taken away are
\* not written into the live picture any more, but for what went astray and for what a
\* failed sweep had pruned.
THEOREM ReleasedCorrect == Spec => []ReleasedNotShown
<1>1. PlaceInv => ReleasedNotShown
  <2> SUFFICES ASSUME PlaceInv, NEW r \in Replica, stage[r] = "showing", NEW i \in Showable(r)
               PROVE  LET a == batch[r][i].ac
                      IN  \/ PartitionFor[a] \notin revoked[r]
                          \/ a \in astray[r]
                          \/ faults > 0 /\ tracks[r][a] = NoTrack
    BY DEF ReleasedNotShown
  <2>1. i \in DOMAIN batch[r] /\ batch[r][i].ac \notin leaving[r]
    BY DEF Showable
  <2> QED
    BY <2>1, AddressedOf DEF PlaceInv, PlaceOf, BatchOwned, Active
<1> QED
  BY <1>1, PlaceCorrect, PTL

-----------------------------------------------------------------------------
(* The live picture, second invariant: what it will say.                   *)

\* At most one update per aircraft.
Distinct(updates) == \A i, j \in DOMAIN updates : updates[i].ac = updates[j].ac => i = j

\* What a replica still tracks, and still speaks for.
Followed(r) == Known(tracks[r]) \ strayed
Told(r)     == {a \in Live(tracks[r]) \ (strayed \cup overwritten \cup leaving[r]) : closing[r] = "no"}

\* Run() goes on, and no last flush writes.
GoesOn(r) == closing'[r] = closing[r] /\ overwritten' = overwritten

\* The live entry once all the replica has on its way is written.
Unshown(r)    == IF stage[r] \in {"recording", "showing"} THEN batch[r] ELSE <<>>
Unbuffered(r) == IF stage[r] = "publishing" THEN changed[r] ELSE <<>>
Newest(r, a)  == Written(Written(Written(live[a], Unshown(r), a), pending[r], a), Unbuffered(r), a)

\* A report taken from the topic that no handler has judged yet, and may accept.
Unhandled(r) ==
    /\ Queued(r, "handle") /\ ~(Awaiting(r) /\ Holds(r, "handle"))
    /\ PartitionFor[inflight[r].ac] \notin revoked[r]

\* The topic has the reports of an aircraft in the order it made them.
OrderedLog ==
    \A p \in Partition :
        /\ \A i, j \in DOMAIN log[p] : i < j /\ log[p][i].ac = log[p][j].ac => log[p][i].at < log[p][j].at
        /\ \A i \in DOMAIN log[p] : log[p][i].at <= now

HandedLast(r) ==
    Unhandled(r) =>
        LET p == PartitionFor[inflight[r].ac]
        IN  position[p] \in DOMAIN log[p] /\ log[p][position[p]] = inflight[r]

\* A track is older than every report of its aircraft that is still to come.
BehindOf(r) ==
    \A a \in Followed(r) :
        LET p == PartitionFor[a]
        IN  /\ \E i \in DOMAIN log[p] : log[p][i] = [ac |-> a, at |-> tracks[r][a].last]
            /\ \A i \in DOMAIN log[p] :
                  i > position[p] /\ log[p][i].ac = a => tracks[r][a].last < log[p][i].at
            /\ Unhandled(r) /\ inflight[r].ac = a => tracks[r][a].last < inflight[r].at

\* The holder's updates say what the tracks are.
ChangedOf(r) ==
    /\ Distinct(changed[r])
    /\ \A i \in DOMAIN changed[r] : changed[r][i].state = tracks[r][changed[r][i].ac].state

CurrentOf(r) ==
    faults = 0 => \A a \in Told(r) : /\ Newest(r, a).state = tracks[r][a].state
                                     /\ Newest(r, a).at >= tracks[r][a].last

PictureOf(r) ==
    /\ astray[r] \subseteq strayed
    /\ HandedLast(r) /\ BehindOf(r) /\ ChangedOf(r) /\ CurrentOf(r)

PictureInv == PlaceInv /\ OrderedLog /\ \A r \in Replica : PictureOf(r)

-----------------------------------------------------------------------------
(* What a batch does to an entry.                                          *)

\* A batch that does not mention an aircraft leaves its entry.
LEMMA WrittenNone ==
    ASSUME NEW old, NEW updates, NEW a, a \notin Addressed(updates)
    PROVE  Written(old, updates, a) = old
BY AddressedOf DEF Written

\* A batch leaves of an aircraft the last update it has of it.
LEMMA WrittenLast ==
    ASSUME NEW old, NEW a, NEW updates \in Seq(TrackUpdate), NEW i \in DOMAIN updates,
           updates[i].ac = a, \A j \in DOMAIN updates : updates[j].ac = a => j <= i
    PROVE  Written(old, updates, a) = updates[i]
<1> DEFINE mine  == {j \in DOMAIN updates : updates[j].ac = a}
           Top(k) == \A j \in mine : j <= k
<1>1. i \in mine /\ mine \subseteq Nat
  OBVIOUS
<1>2. Top(i)
  OBVIOUS
<1>3. \A k \in mine : Top(k) => k = i
  BY <1>1, <1>2
<1>4. (CHOOSE k \in mine : Top(k)) = i
  BY <1>1, <1>2, <1>3
<1> QED
  BY <1>1, <1>2, <1>4 DEF Written

\* Two batches one after the other, or both at once.
LEMMA WrittenTwice ==
    ASSUME NEW old, NEW a, NEW s \in Seq(TrackUpdate), NEW t \in Seq(TrackUpdate), Distinct(t)
    PROVE  Written(Written(old, s, a), t, a) = Written(old, s \o t, a)
<1> DEFINE both == s \o t
<1>1. /\ both \in Seq(TrackUpdate)
      /\ DOMAIN both = 1..(Len(s) + Len(t)) /\ DOMAIN s = 1..Len(s) /\ DOMAIN t = 1..Len(t)
      /\ \A i \in DOMAIN s : both[i] = s[i]
      /\ \A i \in DOMAIN both : i > Len(s) => i - Len(s) \in DOMAIN t /\ both[i] = t[i - Len(s)]
      /\ \A i \in DOMAIN t : i + Len(s) \in DOMAIN both /\ both[i + Len(s)] = t[i]
      /\ Len(s) \in Nat /\ Len(t) \in Nat
  OBVIOUS
<1>2. CASE a \in Addressed(t)
  <2>1. PICK i \in DOMAIN t : t[i].ac = a
    BY <1>2, AddressedOf
  <2>2. Written(Written(old, s, a), t, a) = t[i]
    <3>1. \A j \in DOMAIN t : t[j].ac = a => j <= i
      BY <1>1, <2>1 DEF Distinct
    <3> QED
      BY <2>1, <3>1, WrittenLast
  <2> DEFINE k == i + Len(s)
  <2>3. k \in DOMAIN both /\ both[k] = t[i] /\ both \in Seq(TrackUpdate)
    BY <1>1
  <2>4. ASSUME NEW j \in DOMAIN both, both[j].ac = a PROVE j <= k
    <3>1. CASE j > Len(s)
      <4>1. j - Len(s) = i
        BY <1>1, <2>1, <2>4, <3>1 DEF Distinct
      <4> QED
        BY <1>1, <4>1
    <3> QED
      BY <1>1, <3>1
  <2> HIDE DEF both, k
  <2>5. Written(old, both, a) = both[k]
    BY <2>1, <2>3, <2>4, WrittenLast
  <2> QED
    BY <2>2, <2>3, <2>5 DEF both
<1>3. CASE a \notin Addressed(t)
  <2>1. Written(Written(old, s, a), t, a) = Written(old, s, a)
    BY <1>3, WrittenNone
  <2> DEFINE mine(updates) == {i \in DOMAIN updates : updates[i].ac = a}
  <2>2. mine(both) = mine(s)
    <3>1. \A i \in DOMAIN t : t[i].ac # a
      BY <1>3, AddressedOf
    <3>2. \A i \in DOMAIN both : i \in DOMAIN s \/ i > Len(s)
      BY <1>1
    <3>3. \A i \in DOMAIN s : i \in DOMAIN both
      BY <1>1
    <3> QED
      BY <1>1, <3>1, <3>2, <3>3
  <2>3. \A i \in mine(s) : both[i] = s[i]
    BY <1>1
  <2> HIDE DEF both
  <2>4. Written(old, both, a) = Written(old, s, a)
    <3>1. CASE \E i \in mine(s) : \A j \in mine(s) : j <= i
      BY <2>2, <2>3, <3>1 DEF Written
    <3>2. CASE ~\E i \in mine(s) : \A j \in mine(s) : j <= i
      BY <2>2, <3>2 DEF Written
    <3> QED
      BY <3>1, <3>2
  <2> QED
    BY <2>1, <2>4 DEF both
<1> QED
  BY <1>2, <1>3

-----------------------------------------------------------------------------
(* What a replica's step does to what it tracks and has yet to say.        *)

\* What a step of the replica may assume of it.
Seen(r) == Placed(r) /\ PictureOf(r)

\* Of a track nothing but its state changes, unless it is dropped.
Remembers(r) ==
    \A a \in Aircraft : tracks'[r][a] # NoTrack =>
        tracks[r][a] # NoTrack /\ tracks'[r][a].last = tracks[r][a].last

\* No report is taken, none is handled.
KeepsHanding(r) ==
    /\ Remembers(r)
    /\ Unhandled(r)' => Unhandled(r) /\ inflight'[r] = inflight[r]

Spoken(r) == astray'[r] \subseteq strayed' /\ ChangedOf(r)' /\ CurrentOf(r)'

\* What is known of a replica and of the picture before it takes a step.
LEMMA SeenTypes ==
    ASSUME NEW r \in Replica, Seen(r)
    PROVE  /\ Placed(r) /\ Before(r) /\ TypeOK /\ TaskTypeOK /\ FlushTypeOK /\ StateTypeOK
           /\ StoreTypeOK /\ BrokerTypeOK /\ EnvTypeOK /\ BufferOf(r) /\ OwnershipOf(r)
           /\ WellQueued(queue[r]) /\ PlaceOf(r) /\ PictureOf(r) /\ ClosingOf(r)
BY PlacedTypes DEF Seen, Placed, Before, TypeOK

\* Nothing but the last flush, the end of run() and a crash moves `closing`.
LEMMA ServiceGoesOn ==
    ASSUME NEW r \in Replica,
           \/ Consume(r) \/ Proceed(r) \/ SweepStep(r) \/ RebalanceStep(r) \/ Start(r)
           \/ SweepFails(r) \/ ReleaseFails(r)
    PROVE  GoesOn(r)
BY ServiceKeepsClose DEF closeVars, GoesOn

\* With empty hands there is nothing to be said of the holder's updates.
LEMMA EmptyChanged ==
    ASSUME NEW r \in Replica, changed'[r] = <<>>
    PROVE  ChangedOf(r)'
BY DEF ChangedOf, Distinct

\* What a replica tracks as before, and says as before, stays current.
LEMMA StaysCurrent ==
    ASSUME NEW r \in Replica, TypeOK, CurrentOf(r), faults <= faults', faults' \in Nat,
           \A a \in Told(r)' : /\ a \in Told(r) /\ tracks'[r][a] = tracks[r][a]
                               /\ Newest(r, a)' = Newest(r, a)
    PROVE  CurrentOf(r)'
<1>1. faults' = 0 => faults = 0
  BY DEF TypeOK, EnvTypeOK
<1> QED
  BY <1>1 DEF CurrentOf

\* The live tracks a step leaves as they were.
LEMMA ToldBefore ==
    ASSUME NEW r \in Replica, strayed \subseteq strayed', leaving[r] \subseteq leaving'[r],
           closing'[r] = closing[r], overwritten \subseteq overwritten',
           NEW a \in Told(r)', tracks'[r][a] = tracks[r][a]
    PROVE  a \in Told(r)
BY DEF Told, Live, Known

\* The holder of the lock leaves it.
LEMMA LeavePicture ==
    ASSUME NEW r \in Replica, Seen(r), queue[r] # <<>>, LeaveLock(r), changed'[r] = <<>>,
           inflight'[r] = inflight[r], Remembers(r),
           revoked[r] \subseteq revoked'[r] \/ Holds(r, "claim"),
           astray'[r] \subseteq strayed', faults <= faults', faults' \in Nat,
           faults' = 0 => \A a \in Told(r)' : /\ a \in Told(r) /\ tracks'[r][a] = tracks[r][a]
                                              /\ Written(live'[a], pending'[r], a) = Newest(r, a)
    PROVE  KeepsHanding(r) /\ Spoken(r)
<1>1. TypeOK /\ TaskTypeOK /\ WellQueued(queue[r]) /\ queue[r] \in Seq(Task)
      /\ faults \in Nat /\ CurrentOf(r)
  BY SeenTypes DEF TaskTypeOK, EnvTypeOK, PictureOf
<1>2. stage'[r] \in {"idle", "entered"}
  BY <1>1 DEF LeaveLock, TaskTypeOK
<1>3. \A t : Queued(r, t)' <=> Queued(r, t) /\ ~Holds(r, t)
  BY <1>1, LeaveKeeps
<1>4. Unhandled(r)' => Unhandled(r)
  <2>1. Holds(r, "claim") => ~Queued(r, "handle")
    BY <1>1, NoHandleBehindClaim DEF Holds, Queued
  <2> QED
    BY <1>3, <2>1 DEF Unhandled
<1>5. \A a : Newest(r, a)' = Written(live'[a], pending'[r], a)
  BY <1>2, AddressedOf, WrittenNone DEF Newest, Unshown, Unbuffered
<1>6. CurrentOf(r)'
  BY <1>1, <1>5 DEF CurrentOf
<1> QED
  BY <1>4, <1>6, EmptyChanged DEF KeepsHanding, Spoken

\* The holder of the lock, what it awaits and the replica's updates stay.
LEMMA StayPicture ==
    ASSUME NEW r \in Replica, Seen(r), SameBuffers(r),
           tracks'[r] = tracks[r], leaving'[r] = leaving[r], astray'[r] \subseteq astray[r],
           GoesOn(r),
           strayed \subseteq strayed', live' = live, faults <= faults', faults' \in Nat,
           stage'[r] \in {"recording", "showing"} <=> stage[r] \in {"recording", "showing"},
           stage'[r] = "publishing" <=> stage[r] = "publishing"
    PROVE  Remembers(r) /\ Spoken(r)
<1>1. TypeOK /\ PictureOf(r)
  BY SeenTypes
<1>2. \A a : Newest(r, a)' = Newest(r, a)
  BY DEF Newest, Unshown, Unbuffered, SameBuffers
<1>3. \A a \in Told(r)' : a \in Told(r)
  BY ToldBefore DEF GoesOn
<1>4. CurrentOf(r)'
  BY <1>1, <1>2, <1>3, StaysCurrent DEF PictureOf
<1>5. ChangedOf(r)'
  BY <1>1 DEF PictureOf, ChangedOf, Distinct, SameBuffers
<1> QED
  BY <1>1, <1>4, <1>5 DEF PictureOf, Remembers, Spoken

\* A replica that has stopped tracks nothing.
LEMMA StoppedPicture ==
    ASSUME NEW r \in Replica, queue'[r] = <<>>, changed'[r] = <<>>, astray'[r] \subseteq strayed',
           \A a \in Aircraft : tracks'[r][a] = NoTrack
    PROVE  KeepsHanding(r) /\ Spoken(r)
<1>1. ~Unhandled(r)'
  BY DEF Unhandled, Queued, Range
<1>2. Told(r)' = {}
  BY DEF Told, Live, Known
<1> QED
  BY <1>1, <1>2, EmptyChanged DEF KeepsHanding, Remembers, Spoken, CurrentOf

\* A replica that is closing speaks for nothing.
LEMMA ClosingPicture ==
    ASSUME NEW r \in Replica, closing'[r] # "no", changed'[r] = <<>>, astray'[r] \subseteq strayed',
           tracks'[r] = tracks[r], Unhandled(r)' => Unhandled(r) /\ inflight'[r] = inflight[r]
    PROVE  KeepsHanding(r) /\ Spoken(r)
<1>1. Told(r)' = {}
  BY DEF Told
<1> QED
  BY <1>1, EmptyChanged DEF KeepsHanding, Remembers, Spoken, CurrentOf

\* A task asks for the lock.
LEMMA AcquirePicture ==
    ASSUME NEW r \in Replica, Seen(r), SameBuffers(r), Loops(r),
           NEW t \in Task, ~Queued(r, t), t = "handle" => ~Queued(r, "claim"), Acquire(r, t),
           tracks'[r] = tracks[r], leaving'[r] = leaving[r], astray'[r] \subseteq astray[r],
           GoesOn(r), revoked'[r] = revoked[r], strayed' = strayed, live' = live, faults' = faults
    PROVE  /\ Remembers(r) /\ Spoken(r)
           /\ t # "handle" /\ inflight'[r] = inflight[r] => KeepsHanding(r)
<1>1. /\ TypeOK /\ TaskTypeOK /\ WellQueued(queue[r]) /\ BufferOf(r) /\ faults' \in Nat /\ faults <= faults'
  BY SeenTypes DEF EnvTypeOK
<1>2. /\ \A u : Queued(r, u)' <=> Queued(r, u) \/ u = t
      /\ Awaiting(r) /\ queue[r] # <<>> => Awaiting(r)'
      /\ queue[r] # <<>> => \A u : Holds(r, u)' <=> Holds(r, u)
  BY <1>1, AcquireKeeps
<1>3. /\ stage'[r] = stage[r] \/ (stage[r] = "idle" /\ stage'[r] = "entered")
      /\ Awaiting(r) => queue[r] # <<>>
  BY <1>1 DEF BufferOf, Acquire, Loops, Running, Awaiting, TaskTypeOK, Stage
<1>4. Remembers(r) /\ Spoken(r)
  BY <1>1, <1>3, StayPicture
<1>5. ASSUME t # "handle", inflight'[r] = inflight[r] PROVE Unhandled(r)' => Unhandled(r)
  BY <1>2, <1>3, <1>5 DEF Unhandled
<1> QED
  BY <1>4, <1>5 DEF KeepsHanding

\* Between two flushes only the buffer is on its way.
LEMMA QuietNewest ==
    ASSUME NEW r \in Replica, stage[r] \notin {"recording", "showing", "publishing"}, NEW a
    PROVE  Newest(r, a) = Written(live[a], pending[r], a)
BY AddressedOf, WrittenNone DEF Newest, Unshown, Unbuffered

\* A report that may be handled is news of its aircraft.
LEMMA HandledAt ==
    ASSUME NEW r \in Replica, Seen(r), HandleReport(r), inflight[r].ac \notin strayed
    PROVE  OnReport(tracks[r], inflight[r])[inflight[r].ac].last = inflight[r].at
<1> DEFINE report == inflight[r]
           a      == report.ac
<1>1. /\ Before(r) /\ TypeOK /\ TaskTypeOK /\ StateTypeOK /\ BehindOf(r)
      /\ Queued(r, "handle") => report \in Report
  BY SeenTypes DEF OwnershipOf, WaitingIsOwned, TaskTypeOK, PictureOf
<1>2. Enters(r, "handle") /\ PartitionFor[a] \notin revoked[r]
  BY DEF HandleReport
<1>3. Queued(r, "handle") /\ ~Awaiting(r)
  BY <1>1, <1>2, EntersEmpty
<1>4. /\ report \in Report /\ tracks[r] \in Tracks /\ a \in Aircraft
      /\ OnReport(tracks[r], report)[a] = Folded(tracks[r], report)
  BY <1>1, <1>3 DEF StateTypeOK, OnReport, Report, Tracks
<1>5. CASE Starts(tracks[r], report)
  BY <1>4, <1>5 DEF Folded, Initiate
<1>6. CASE ~Starts(tracks[r], report)
  <2>1. a \in Followed(r) /\ tracks[r][a] \in TrackRecord
    BY <1>4, <1>6 DEF Starts, Followed, Known, Tracks
  <2>2. tracks[r][a].last < report.at
    BY <1>1, <1>2, <1>3, <2>1 DEF BehindOf, Unhandled
  <2>3. Folded(tracks[r], report) = Accepted(tracks[r][a], report.at)
    BY <1>4, <1>6, <2>1, <2>2 DEF Folded, Update, Report, TrackRecord
  <2> QED
    BY <1>4, <2>3 DEF Accepted
<1> QED
  BY <1>5, <1>6

\* A report that is handled is said at once, at its own time.
LEMMA HandlePicture ==
    ASSUME NEW r \in Replica, Seen(r), HandleReport(r)
    PROVE  Spoken(r)
<1> DEFINE report == inflight[r]
           folded == OnReport(tracks[r], report)
           update == ToUpdate(folded, report.ac, report.at)
<1>0. closing'[r] = closing[r] /\ overwritten' = overwritten
  BY ServiceGoesOn DEF Consume, GoesOn
<1>1. /\ Before(r) /\ TypeOK /\ TaskTypeOK /\ FlushTypeOK /\ StateTypeOK /\ EnvTypeOK /\ PictureOf(r)
      /\ Queued(r, "handle") => report \in Report
  BY SeenTypes DEF OwnershipOf, WaitingIsOwned, TaskTypeOK
<1>2. /\ Enters(r, "handle") /\ PartitionFor[report.ac] \notin revoked[r]
      /\ UNCHANGED <<live, astray, strayed, leaving, faults, pending>>
      /\ changed'[r] = <<update>> /\ stage'[r] = "publishing" /\ tracks'[r] = folded
  BY <1>1 DEF HandleReport, TaskTypeOK, FlushTypeOK, StateTypeOK, envVars, ghostVars, storeVars
<1>3. Queued(r, "handle") /\ ~Awaiting(r) /\ stage[r] \in {"idle", "entered"}
  BY <1>1, <1>2, EntersEmpty DEF Enters
<1>4. /\ report \in Report /\ tracks[r] \in Tracks /\ folded \in Tracks
      /\ update.ac = report.ac /\ update.at = report.at /\ update.state = folded[report.ac].state
      /\ \A a \in Aircraft : a # report.ac => folded[a] = tracks[r][a]
      /\ folded[report.ac] = Folded(tracks[r], report)
  BY <1>1, <1>3, OnReportType DEF StateTypeOK, ToUpdate, OnReport, Report, Tracks
<1>5. update \in TrackUpdate
  BY <1>4, OnReportType DEF ToUpdate, TrackUpdate, TrackRecord, Report
<1>6. ChangedOf(r)'
  BY <1>2, <1>4, SMTT(40) DEF ChangedOf, Distinct
<1>7. CurrentOf(r)'
  <2> SUFFICES ASSUME faults' = 0, NEW a \in Told(r)'
               PROVE  Newest(r, a)'.state = folded[a].state /\ Newest(r, a)'.at >= folded[a].last
    BY <1>2 DEF CurrentOf
  <2>1. Newest(r, a)' = Written(Written(live[a], pending[r], a), <<update>>, a)
    BY <1>2, AddressedOf, WrittenNone DEF Newest, Unshown, Unbuffered
  <2>2. CASE a = report.ac
    <3>1. Newest(r, a)' = update
      <4> DEFINE one == <<update>>
      <4>1. /\ one \in Seq(TrackUpdate) /\ 1 \in DOMAIN one /\ one[1] = update
            /\ \A j \in DOMAIN one : j <= 1
        BY <1>5
      <4> HIDE DEF one
      <4>2. Written(Written(live[a], pending[r], a), one, a) = one[1]
        BY <1>4, <2>2, <4>1, WrittenLast
      <4> QED
        BY <2>1, <4>1, <4>2 DEF one
    <3>2. folded[a].last = report.at
      BY <1>2, <2>2, HandledAt DEF Told
    <3> QED
      BY <1>4, <2>2, <3>1, <3>2 DEF Report
  <2>3. CASE a # report.ac
    <3>1. Newest(r, a)' = Written(live[a], pending[r], a)
      BY <1>4, <2>1, <2>3, AddressedOf, WrittenNone
    <3>2. Newest(r, a) = Written(live[a], pending[r], a)
      BY <1>3, QuietNewest
    <3>3. a \in Aircraft /\ folded[a] = tracks[r][a]
      BY <1>4, <2>3 DEF Told, Live, Known
    <3>4. a \in Told(r)
      BY <1>0, <1>2, <3>3 DEF Told, Live, Known
    <3> QED
      BY <1>1, <1>2, <3>1, <3>2, <3>3, <3>4 DEF PictureOf, CurrentOf
  <2> QED
    BY <2>2, <2>3
<1> QED
  BY <1>1, <1>2, <1>6, <1>7 DEF Spoken, PictureOf

\* The consumer's steps.
LEMMA ConsumePicture ==
    ASSUME NEW r \in Replica, Seen(r), Consume(r)
    PROVE  /\ Spoken(r)
           /\ KeepsHanding(r) \/ HandleReport(r) \/ \E p \in Partition : Receive(r, p)
<1>1. /\ Before(r) /\ TypeOK /\ TaskTypeOK /\ StateTypeOK /\ PictureOf(r) /\ EnvTypeOK
      /\ Queued(r, "handle") => inflight[r] \in Report
  BY SeenTypes DEF OwnershipOf, WaitingIsOwned, TaskTypeOK
<1>0. GoesOn(r)
  BY ServiceGoesOn
<1>2. faults' = faults => faults <= faults' /\ faults' \in Nat
  BY <1>1 DEF EnvTypeOK
<1>3. ASSUME NEW p \in Partition, Receive(r, p) PROVE Spoken(r)
  <2>1. /\ Loops(r) /\ ~Queued(r, "handle") /\ ~Queued(r, "claim") /\ Acquire(r, "handle")
        /\ SameBuffers(r) /\ UNCHANGED <<tracks, revoked, strayed, leaving, live, faults>>
    BY <1>1, <1>3, SeenTypes
    DEF Receive, Works, OwnershipOf, WaitingIsOwned, SameBuffers, flushVars, envVars, ghostVars, storeVars
  <2>2. astray'[r] \subseteq astray[r]
    <3> DEFINE report == log[p][position[p] + 1]
    <3>1. Note(r, report)
      BY <1>3 DEF Receive
    <3> HIDE DEF report
    <3> QED
      BY <1>1, <3>1 DEF Note, StateTypeOK
  <2> QED
    BY <1>0, <2>1, <2>2, AcquirePicture DEF Task
<1>4. ASSUME DiscardReport(r) PROVE KeepsHanding(r) /\ Spoken(r)
  <2>1. /\ Enters(r, "handle") /\ LeaveLock(r) /\ SameBuffers(r)
        /\ UNCHANGED <<inflight, tracks, revoked, astray, strayed, leaving, live, faults>>
    BY <1>4 DEF DiscardReport, SameBuffers, flushVars, stateVars, storeVars, envVars
  <2>2. changed[r] = <<>> /\ queue[r] # <<>> /\ stage[r] \in {"idle", "entered"}
    BY <1>1, <2>1, EntersEmpty DEF Enters
  <2>3. \A a \in Told(r)' : a \in Told(r) /\ Written(live'[a], pending'[r], a) = Newest(r, a)
    BY <1>0, <2>1, <2>2, QuietNewest DEF Told, SameBuffers, GoesOn
  <2>4. Remembers(r)
    BY <2>1 DEF Remembers
  <2> QED
    BY <1>1, <1>2, <2>1, <2>2, <2>3, <2>4, LeavePicture DEF SameBuffers, PictureOf
<1>5. ASSUME Commit(r) PROVE KeepsHanding(r) /\ Spoken(r)
  <2>1. /\ ~Queued(r, "handle") /\ SameBuffers(r)
        /\ UNCHANGED <<tracks, astray, strayed, leaving, live, faults, queue, stage>>
    BY <1>5 DEF Commit, Works, SameBuffers, flushVars, stateVars, envVars, ghostVars, storeVars
  <2>2. Remembers(r) /\ Spoken(r)
    BY <1>0, <1>2, <2>1, StayPicture
  <2>3. ~Unhandled(r)'
    BY <2>1 DEF Unhandled, Queued
  <2> QED
    BY <2>2, <2>3 DEF KeepsHanding
<1> QED
  BY <1>3, <1>4, <1>5, HandlePicture DEF Consume

\* The holder awaits something else.
LEMMA NextAwait ==
    ASSUME NEW r \in Replica, Remembers(r), Awaiting(r) => Awaiting(r)',
           UNCHANGED <<queue, inflight>>, revoked'[r] = revoked[r]
    PROVE  KeepsHanding(r)
BY DEF KeepsHanding, Unhandled, Queued, Holds

\* Once published the updates are in the buffer, or in a flush of all of it.
LEMMA PublishPicture ==
    ASSUME NEW r \in Replica, Seen(r), Publish(r)
    PROVE  KeepsHanding(r) /\ Spoken(r)
<1> DEFINE buffered == pending[r] \o changed[r]
<1>1. /\ TypeOK /\ TaskTypeOK /\ FlushTypeOK /\ BufferOf(r) /\ PictureOf(r)
      /\ faults <= faults /\ faults \in Nat
  BY SeenTypes DEF EnvTypeOK
<1>0. GoesOn(r)
  BY ServiceGoesOn DEF Proceed
<1>2. /\ stage[r] = "publishing" /\ Awaiting(r) /\ queue[r] # <<>>
      /\ UNCHANGED <<live, tracks, revoked, astray, strayed, leaving, faults, inflight>>
  BY <1>1 DEF Publish, stateVars, envVars, ghostVars, BufferOf, Awaiting
<1>3. Remembers(r) /\ Told(r)' = Told(r)
  BY <1>0, <1>2 DEF Remembers, Told, GoesOn
<1>4. /\ pending[r] \in Seq(TrackUpdate) /\ changed[r] \in Seq(TrackUpdate)
      /\ buffered \in Seq(TrackUpdate) /\ Distinct(changed[r])
  BY <1>1 DEF FlushTypeOK, PictureOf, ChangedOf
<1>5. \A a : Newest(r, a) = Written(live[a], buffered, a)
  <2>1. \A a : Newest(r, a) = Written(Written(live[a], pending[r], a), changed[r], a)
    BY <1>2, AddressedOf, WrittenNone DEF Newest, Unshown, Unbuffered
  <2> QED
    BY <1>4, <2>1, WrittenTwice
<1> HIDE DEF buffered
<1>6. ASSUME StartFlush(r, buffered), UNCHANGED <<queue, changed>>
      PROVE  KeepsHanding(r) /\ Spoken(r)
  <2>1. stage'[r] = "recording" /\ batch'[r] = buffered /\ pending'[r] = <<>>
    BY <1>1, <1>6 DEF StartFlush, TaskTypeOK, FlushTypeOK
  <2>2. \A a : Newest(r, a)' = Newest(r, a)
    BY <1>2, <1>5, <2>1, AddressedOf, WrittenNone DEF Newest, Unshown, Unbuffered
  <2>3. CurrentOf(r)'
    BY <1>1, <1>2, <1>3, <2>2, StaysCurrent DEF PictureOf
  <2>4. ChangedOf(r)'
    BY <1>1, <1>2, <1>6 DEF PictureOf, ChangedOf, Distinct
  <2>5. KeepsHanding(r)
    BY <1>2, <1>3, <1>6, <2>1, NextAwait DEF Awaiting
  <2> QED
    BY <1>1, <1>2, <2>3, <2>4, <2>5 DEF Spoken, PictureOf
<1>7. ASSUME LeaveLock(r), pending' = [pending EXCEPT ![r] = buffered], changed' = [changed EXCEPT ![r] = <<>>]
      PROVE  KeepsHanding(r) /\ Spoken(r)
  <2>1. pending'[r] = buffered /\ changed'[r] = <<>>
    BY <1>1, <1>7 DEF FlushTypeOK
  <2>2. \A a \in Told(r)' : /\ a \in Told(r) /\ tracks'[r][a] = tracks[r][a]
                            /\ Written(live'[a], pending'[r], a) = Newest(r, a)
    BY <1>2, <1>3, <1>5, <2>1
  <2> QED
    BY <1>1, <1>2, <1>3, <1>7, <2>1, <2>2, LeavePicture DEF PictureOf
<1>8. ASSUME UNCHANGED <<stage, queue, changed, pending, batch>>
      PROVE  KeepsHanding(r) /\ Spoken(r)
  <2>1. \A a : Newest(r, a)' = Newest(r, a)
    BY <1>2, <1>8 DEF Newest, Unshown, Unbuffered
  <2>2. CurrentOf(r)'
    BY <1>1, <1>2, <1>3, <2>1, StaysCurrent DEF PictureOf
  <2>3. ChangedOf(r)'
    BY <1>1, <1>2, <1>8 DEF PictureOf, ChangedOf, Distinct
  <2>4. KeepsHanding(r)
    BY <1>2, <1>3, <1>8, NextAwait DEF Awaiting
  <2> QED
    BY <1>1, <1>2, <2>2, <2>3, <2>4 DEF Spoken, PictureOf
<1> QED
  BY <1>6, <1>7, <1>8 DEF Publish, BufferChanged, buffered

\* Pruning changes nothing of what is left, and strays are noted.
LEMMA ForgetPrunedPicture ==
    ASSUME NEW r \in Replica, StateTypeOK, ForgetPruned(r), astray[r] \subseteq strayed
    PROVE  /\ Remembers(r) /\ astray'[r] \subseteq strayed' /\ strayed \subseteq strayed'
           /\ \A a \in Aircraft : tracks'[r][a] # NoTrack => tracks'[r][a] = tracks[r][a]
<1>1. /\ astray'[r] \subseteq strayed' /\ strayed \subseteq strayed'
      /\ tracks'[r] = Pruned(tracks[r], clock[r])
  BY DEF ForgetPruned, Stray, StateTypeOK
<1>2. \A a \in Aircraft : tracks'[r][a] # NoTrack => tracks'[r][a] = tracks[r][a]
  BY <1>1 DEF Pruned
<1> QED
  BY <1>1, <1>2 DEF Remembers

\* A flush is over: what it had to show is shown, what it left out is given up.
LEMMA FinishFlushPicture ==
    ASSUME NEW r \in Replica, Seen(r), FinishFlush(r), stage[r] \in {"recording", "showing"},
           UNCHANGED <<revoked, pending, inflight, faults>>, GoesOn(r),
           \A a \in Aircraft : a \notin leaving[r] => live'[a] = Newest(r, a)
    PROVE  KeepsHanding(r) /\ Spoken(r)
<1>1. /\ TypeOK /\ TaskTypeOK /\ FlushTypeOK /\ StateTypeOK /\ BufferOf(r) /\ PictureOf(r)
      /\ faults' \in Nat /\ faults <= faults'
  BY SeenTypes DEF EnvTypeOK
<1>2. pending'[r] = <<>> /\ Awaiting(r) /\ queue[r] # <<>>
  BY <1>1 DEF BufferOf, Awaiting
<1>3. \A a : Written(live'[a], pending'[r], a) = live'[a]
  BY <1>2, AddressedOf, WrittenNone
<1>4. CASE FinishHandle(r)
  <2>1. /\ LeaveLock(r) /\ changed'[r] = <<>> /\ UNCHANGED <<tracks, astray, strayed, leaving>>
    BY <1>1, <1>4 DEF FinishHandle, FlushTypeOK
  <2>2. \A a \in Told(r)' : /\ a \in Told(r) /\ tracks'[r][a] = tracks[r][a]
                            /\ Written(live'[a], pending'[r], a) = Newest(r, a)
    BY <1>3, <2>1 DEF Told, Live, Known, GoesOn
  <2>3. Remembers(r)
    BY <2>1 DEF Remembers
  <2> QED
    BY <1>1, <1>2, <2>1, <2>2, <2>3, LeavePicture DEF PictureOf
<1>5. CASE FinishRelease(r)
  <2>1. /\ LeaveLock(r) /\ UNCHANGED <<changed, astray, strayed>>
        /\ tracks'[r] = Released(tracks[r], leaving[r])
    BY <1>1, <1>5 DEF FinishRelease, Drop, StateTypeOK
  <2>2. changed'[r] = <<>>
    BY <1>1, <1>2, <1>5, <2>1 DEF FinishRelease, BufferOf
  <2>3. \A a \in Aircraft : tracks'[r][a] # NoTrack => a \notin leaving[r] /\ tracks'[r][a] = tracks[r][a]
    BY <2>1 DEF Released
  <2>4. \A a \in Told(r)' : /\ a \in Told(r) /\ tracks'[r][a] = tracks[r][a]
                            /\ Written(live'[a], pending'[r], a) = Newest(r, a)
    BY <1>3, <2>1, <2>3 DEF Told, Live, Known, GoesOn
  <2>5. Remembers(r)
    BY <2>3 DEF Remembers
  <2> QED
    BY <1>1, <1>2, <2>1, <2>2, <2>4, <2>5, LeavePicture DEF PictureOf
<1>6. CASE FinishSweep(r) /\ Departed(changed[r]) # {}
  <2>1. /\ stage'[r] = "forgetting"
        /\ UNCHANGED <<queue, changed, tracks, astray, strayed, leaving>>
    BY <1>1, <1>6 DEF FinishSweep, TaskTypeOK
  <2>2. \A a : Newest(r, a)' = Written(live'[a], pending'[r], a)
    BY <2>1, AddressedOf, WrittenNone DEF Newest, Unshown, Unbuffered
  <2>3. \A a \in Told(r)' : a \in Told(r) /\ Newest(r, a)' = Newest(r, a)
    BY <1>3, <2>1, <2>2 DEF Told, Live, Known, GoesOn
  <2>4. CurrentOf(r)'
    BY <1>1, <2>1, <2>3, StaysCurrent DEF PictureOf
  <2>5. Remembers(r) /\ ChangedOf(r)'
    BY <1>1, <2>1 DEF Remembers, PictureOf, ChangedOf, Distinct
  <2>6. KeepsHanding(r)
    BY <2>1, <2>5, NextAwait DEF Awaiting
  <2> QED
    BY <1>1, <2>1, <2>4, <2>5, <2>6 DEF Spoken, PictureOf
<1>7. CASE FinishSweep(r) /\ ~(Departed(changed[r]) # {})
  <2>1. /\ LeaveLock(r) /\ changed'[r] = <<>> /\ ForgetPruned(r) /\ UNCHANGED leaving
    BY <1>1, <1>7 DEF FinishSweep, FlushTypeOK
  <2>2. /\ Remembers(r) /\ astray'[r] \subseteq strayed' /\ strayed \subseteq strayed'
        /\ \A a \in Aircraft : tracks'[r][a] # NoTrack => tracks'[r][a] = tracks[r][a]
    BY <1>1, <2>1, ForgetPrunedPicture DEF PictureOf
  <2>3. \A a \in Told(r)' : /\ a \in Told(r) /\ tracks'[r][a] = tracks[r][a]
                            /\ Written(live'[a], pending'[r], a) = Newest(r, a)
    BY <1>3, <2>1, <2>2 DEF Told, Live, Known, GoesOn
  <2> QED
    BY <1>1, <1>2, <2>1, <2>2, <2>3, LeavePicture
<1> QED
  BY <1>4, <1>5, <1>6, <1>7 DEF FinishFlush

\* What the holder of the lock does once its await is over.
LEMMA ProceedPicture ==
    ASSUME NEW r \in Replica, Seen(r), Proceed(r)
    PROVE  KeepsHanding(r) /\ Spoken(r)
<1>1. /\ TypeOK /\ TaskTypeOK /\ FlushTypeOK /\ StateTypeOK /\ BufferOf(r) /\ PictureOf(r)
      /\ faults <= faults /\ faults \in Nat
  BY SeenTypes DEF EnvTypeOK
<1>0. GoesOn(r)
  BY ServiceGoesOn
<1>2. ASSUME stage[r] \in {"recording", "showing"}, NEW a
      PROVE  Newest(r, a) = Written(live[a], batch[r], a)
  <2>1. pending[r] = <<>>
    BY <1>1, <1>2 DEF BufferOf
  <2> QED
    BY <1>2, <2>1, AddressedOf, WrittenNone DEF Newest, Unshown, Unbuffered
<1>3. CASE Record(r)
  <2>1. /\ stage[r] = "recording"
        /\ UNCHANGED <<live, revoked, pending, outbox, inflight, faults>>
    BY <1>3 DEF Record, envVars
  <2>2. CASE Showable(r) = {}
    <3>1. FinishFlush(r)
      BY <1>3, <2>2 DEF Record
    <3>2. \A a : a \notin leaving[r] => a \notin Addressed(batch[r])
      BY <2>2, AddressedOf DEF Showable
    <3>3. \A a \in Aircraft : a \notin leaving[r] => live'[a] = Newest(r, a)
      BY <1>2, <2>1, <3>2, WrittenNone
    <3> QED
      BY <1>0, <2>1, <3>1, <3>3, FinishFlushPicture
  <2>3. CASE Showable(r) # {}
    <3>1. /\ stage' = [stage EXCEPT ![r] = "showing"]
          /\ UNCHANGED <<batch, queue, changed, leaving, tracks, astray, strayed>>
      BY <1>3, <2>3 DEF Record
    <3>2. stage'[r] = "showing" /\ SameBuffers(r)
      BY <1>1, <2>1, <3>1 DEF TaskTypeOK, SameBuffers
    <3>3. Remembers(r) /\ Spoken(r)
      BY <1>0, <1>1, <2>1, <3>1, <3>2, StayPicture
    <3> QED
      BY <2>1, <3>1, <3>2, <3>3, NextAwait DEF Awaiting
  <2> QED
    BY <2>2, <2>3
<1>4. CASE Show(r)
  <2>1. /\ stage[r] = "showing" /\ FinishFlush(r)
        /\ UNCHANGED <<revoked, pending, inflight, faults>>
        /\ \A a \in Aircraft : a \notin leaving[r] => live'[a] = Written(live[a], batch[r], a)
    BY <1>4 DEF Show, envVars
  <2> QED
    BY <1>0, <1>2, <2>1, FinishFlushPicture
<1>5. CASE ForgetTerminated(r)
  <2>1. /\ stage[r] = "forgetting" /\ LeaveLock(r) /\ changed'[r] = <<>> /\ ForgetPruned(r)
        /\ UNCHANGED <<pending, leaving, revoked, inflight, faults>>
        /\ \A a \in Aircraft : a \notin Departed(changed[r]) => live'[a] = live[a]
    BY <1>1, <1>5 DEF ForgetTerminated, FlushTypeOK, envVars
  <2>2. queue[r] # <<>>
    BY <1>1, <2>1 DEF BufferOf, Awaiting
  <2>3. /\ Remembers(r) /\ astray'[r] \subseteq strayed' /\ strayed \subseteq strayed'
        /\ \A a \in Aircraft : tracks'[r][a] # NoTrack => tracks'[r][a] = tracks[r][a]
    BY <1>1, <2>1, ForgetPrunedPicture DEF PictureOf
  <2>4. \A a \in Told(r)' : a \in Told(r) /\ tracks'[r][a] = tracks[r][a] /\ a \in Aircraft
    BY <1>0, <2>1, <2>3 DEF Told, Live, Known, GoesOn
  <2>5. ASSUME NEW a \in Told(r) PROVE a \notin Departed(changed[r])
    <3>1. ~Terminated(tracks[r][a])
      BY <2>5 DEF Told, Live
    <3> QED
      BY <1>1, <3>1 DEF Departed, Range, PictureOf, ChangedOf, Terminated
  <2>6. \A a \in Told(r)' : Written(live'[a], pending'[r], a) = Newest(r, a)
    BY <2>1, <2>4, <2>5, QuietNewest
  <2> QED
    BY <1>1, <2>1, <2>2, <2>3, <2>4, <2>6, LeavePicture
<1> QED
  BY <1>3, <1>4, <1>5, PublishPicture DEF Proceed

\* A sweep has exactly one update for every track it changes.
LEMMA SweepUpdates ==
    ASSUME NEW tr \in Tracks, NEW t \in Nat, NEW order \in SetToSeqs(Changing(tr, t)), NEW updates,
           updates = [i \in DOMAIN order |-> ToUpdate(Swept(tr, t), order[i], t)]
    PROVE  /\ updates \in Seq(TrackUpdate) /\ Distinct(updates)
           /\ \A i \in DOMAIN updates : /\ updates[i].ac \in Changing(tr, t) /\ updates[i].at = t
                                        /\ updates[i].state = Swept(tr, t)[updates[i].ac].state
           /\ Addressed(updates) = Changing(tr, t)
<1> DEFINE S == Changing(tr, t)
           n == Cardinality(S)
<1>1. IsFiniteSet(S) /\ n \in Nat
  BY SweptType, ServiceAssumption, FS_Subset, FS_CardinalityType
<1>2. order \in [1..n -> S] /\ \A i, j \in 1..n : i # j => order[i] # order[j]
  BY DEF SetToSeqs
<1>3. order \in Surjection(1..n, S)
  <2>1. order \in Injection(1..n, S)
    BY <1>2 DEF Injection, IsInjective
  <2>2. Cardinality(1..n) = n
    BY <1>1, FS_Interval
  <2> QED
    BY <1>1, <2>1, <2>2, FS_Injection
<1>4. \A a \in S : \E i \in 1..n : order[i] = a
  BY <1>3 DEF Surjection
<1>5. DOMAIN updates = 1..n /\ \A i \in 1..n : updates[i] = ToUpdate(Swept(tr, t), order[i], t)
  BY <1>2
<1>6. \A i \in 1..n : /\ updates[i].ac = order[i] /\ updates[i].at = t
                      /\ updates[i].state = Swept(tr, t)[order[i]].state
  BY <1>5 DEF ToUpdate
<1>7. updates \in Seq(TrackUpdate)
  BY SweepUpdatesType
<1>8. Distinct(updates)
  BY <1>2, <1>5, <1>6 DEF Distinct
<1>9. Addressed(updates) = S
  <2>1. ASSUME NEW a \in Addressed(updates) PROVE a \in S
    <3>1. PICK i \in DOMAIN updates : updates[i].ac = a
      BY AddressedOf
    <3> QED
      BY <1>2, <1>5, <1>6, <3>1
  <2>2. ASSUME NEW a \in S PROVE a \in Addressed(updates)
    <3>1. PICK i \in 1..n : order[i] = a
      BY <1>4
    <3>2. updates[i].ac \in Addressed(updates)
      BY <1>5, AddressedOf
    <3> QED
      BY <1>6, <3>1, <3>2
  <2> QED
    BY <2>1, <2>2
<1> QED
  BY <1>2, <1>5, <1>6, <1>7, <1>8, <1>9

\* A sweep changes what was silent for a while.
LEMMA ChangingBefore ==
    ASSUME NEW tr \in Tracks, NEW t \in Nat, NEW a \in Changing(tr, t)
    PROVE  tr[a].last <= t
<1>1. tr[a] \in TrackRecord
  BY DEF Changing, Live, Known, Tracks
<1>2. tr[a].last \in Nat
  BY <1>1 DEF TrackRecord
<1>3. Silent(tr[a], t, TerminateAfter) \/ Silent(tr[a], t, CoastAfter)
  BY DEF Changing, StateAt
<1> QED
  BY <1>2, <1>3, LifecycleAssumption DEF Silent

\* A sweep that changes tracks says so, at a time no report is later than.
LEMMA SweepChangedPicture ==
    ASSUME NEW r \in Replica, Seen(r), SweepChanged(r)
    PROVE  KeepsHanding(r) /\ Spoken(r)
<1> DEFINE swept == Swept(tracks[r], clock[r])
<1>1. /\ Before(r) /\ TypeOK /\ TaskTypeOK /\ FlushTypeOK /\ StateTypeOK /\ EnvTypeOK /\ PictureOf(r)
      /\ tracks[r] \in Tracks /\ clock[r] \in Nat /\ pending[r] \in Seq(TrackUpdate)
  BY SeenTypes DEF StateTypeOK, TaskTypeOK, FlushTypeOK
<1>0. closing'[r] = closing[r] /\ overwritten' = overwritten
  BY ServiceGoesOn DEF SweepStep, GoesOn
<1>2. /\ Enters(r, "sweep") /\ stage'[r] = "publishing" /\ tracks'[r] = swept
      /\ UNCHANGED <<revoked, astray, strayed, leaving, pending, queue, inflight, live, faults>>
  BY <1>1 DEF SweepChanged, TaskTypeOK, StateTypeOK, storeVars, ghostVars, envVars
<1>3. PICK order \in SetToSeqs(Changing(tracks[r], clock[r])) :
         changed'[r] = [i \in DOMAIN order |-> ToUpdate(swept, order[i], clock[r])]
  BY <1>1 DEF SweepChanged, FlushTypeOK
<1>4. stage[r] \in {"idle", "entered"} /\ Holds(r, "sweep") /\ ~Awaiting(r)
  BY <1>1, <1>2, EntersEmpty DEF Enters
<1> DEFINE updates == changed'[r]
<1>5. /\ updates \in Seq(TrackUpdate) /\ Distinct(updates)
      /\ \A i \in DOMAIN updates : /\ updates[i].ac \in Changing(tracks[r], clock[r]) /\ updates[i].at = clock[r]
                                   /\ updates[i].state = swept[updates[i].ac].state
      /\ Addressed(updates) = Changing(tracks[r], clock[r])
  BY <1>1, <1>3, SweepUpdates
<1>6. ASSUME NEW a \in Aircraft
      PROVE  /\ a \notin Changing(tracks[r], clock[r]) => swept[a] = tracks[r][a]
             /\ swept[a].last = tracks[r][a].last
             /\ swept[a] = NoTrack <=> tracks[r][a] = NoTrack
  <2>1. a \in Changing(tracks[r], clock[r]) => tracks[r][a] \in TrackRecord
    BY <1>1 DEF Changing, Live, Known, Tracks
  <2>2. swept[a].last = tracks[r][a].last
    BY <2>1 DEF Swept, TrackRecord
  <2> QED
    BY <1>1, <2>2, SweptType DEF Swept
<1>7. KeepsHanding(r)
  <2>1. Remembers(r)
    BY <1>2, <1>6 DEF Remembers
  <2> QED
    BY <1>2, <1>4, <2>1, NextAwait
<1>8. ChangedOf(r)'
  BY <1>2, <1>5 DEF ChangedOf, Distinct
<1>9. CurrentOf(r)'
  <2> SUFFICES ASSUME faults' = 0, NEW a \in Told(r)'
               PROVE  Newest(r, a)'.state = swept[a].state /\ Newest(r, a)'.at >= swept[a].last
    BY <1>2 DEF CurrentOf
  <2>1. /\ a \in Aircraft /\ swept[a] # NoTrack /\ ~Terminated(swept[a])
        /\ a \notin strayed \cup overwritten /\ a \notin leaving[r] /\ closing[r] = "no"
    BY <1>0, <1>2, <1>6 DEF Told, Live, Known
  <2>2. Newest(r, a)' = Written(Written(live[a], pending[r], a), updates, a)
    BY <1>2, AddressedOf, WrittenNone DEF Newest, Unshown, Unbuffered
  <2>3. CASE a \in Changing(tracks[r], clock[r])
    <3>1. PICK i \in DOMAIN updates : updates[i].ac = a
      BY <1>5, <2>3, AddressedOf
    <3>2. i \in Nat
      BY <1>5
    <3>3. \A j \in DOMAIN updates : updates[j].ac = a => j <= i
      BY <1>5, <3>1, <3>2 DEF Distinct
    <3>4. Newest(r, a)' = updates[i]
      BY <1>5, <2>2, <3>1, <3>3, WrittenLast
    <3>5. tracks[r][a].last <= clock[r]
      BY <1>1, <2>3, ChangingBefore
    <3>6. swept[a].last \in Nat
      BY <1>1, <2>1, SweptType DEF Tracks, TrackRecord
    <3> QED
      BY <1>1, <1>5, <1>6, <2>1, <3>1, <3>4, <3>5, <3>6
  <2>4. CASE a \notin Changing(tracks[r], clock[r])
    <3>1. Newest(r, a)' = Newest(r, a)
      BY <1>4, <1>5, <2>2, <2>4, QuietNewest, WrittenNone
    <3>2. swept[a] = tracks[r][a] /\ a \in Told(r)
      BY <1>0, <1>6, <2>1, <2>4 DEF Told, Live, Known
    <3> QED
      BY <1>1, <1>2, <3>1, <3>2 DEF PictureOf, CurrentOf
  <2> QED
    BY <2>3, <2>4
<1> QED
  BY <1>1, <1>2, <1>7, <1>8, <1>9 DEF Spoken, PictureOf

\* The sweeper's steps.
LEMMA SweepPicture ==
    ASSUME NEW r \in Replica, Seen(r), SweepStep(r)
    PROVE  KeepsHanding(r) /\ Spoken(r)
<1>1. /\ Before(r) /\ TypeOK /\ StateTypeOK /\ PictureOf(r) /\ faults <= faults /\ faults \in Nat
  BY SeenTypes DEF EnvTypeOK
<1>0. GoesOn(r)
  BY ServiceGoesOn
<1>2. CASE SweepTimer(r)
  <2>1. /\ Loops(r) /\ ~Queued(r, "sweep") /\ Acquire(r, "sweep") /\ SameBuffers(r)
        /\ UNCHANGED <<tracks, revoked, astray, strayed, leaving, live, faults, inflight>>
    BY <1>2 DEF SweepTimer, Works, SameBuffers, stateVars, flushVars, storeVars, envVars, ghostVars
  <2> QED
    BY <1>0, <2>1, AcquirePicture DEF Task
<1>3. CASE SweepNothing(r)
  <2>1. /\ Enters(r, "sweep") /\ LeaveLock(r) /\ ForgetPruned(r) /\ SameBuffers(r)
        /\ UNCHANGED <<inflight, revoked, leaving, live, faults>>
    BY <1>3 DEF SweepNothing, SameBuffers, flushVars, storeVars, envVars
  <2>2. changed[r] = <<>> /\ queue[r] # <<>> /\ stage[r] \in {"idle", "entered"}
    BY <1>1, <2>1, EntersEmpty DEF Enters
  <2>3. /\ Remembers(r) /\ astray'[r] \subseteq strayed' /\ strayed \subseteq strayed'
        /\ \A a \in Aircraft : tracks'[r][a] # NoTrack => tracks'[r][a] = tracks[r][a]
    BY <1>1, <2>1, ForgetPrunedPicture DEF PictureOf
  <2>4. \A a \in Told(r)' : /\ a \in Told(r) /\ tracks'[r][a] = tracks[r][a]
                            /\ Written(live'[a], pending'[r], a) = Newest(r, a)
    BY <1>0, <2>1, <2>2, <2>3, QuietNewest DEF Told, Live, Known, SameBuffers, GoesOn
  <2> QED
    BY <1>1, <2>1, <2>2, <2>3, <2>4, LeavePicture DEF SameBuffers
<1> QED
  BY <1>2, <1>3, SweepChangedPicture DEF SweepStep

\* The rebalance, as one member sees it.
LEMMA RebalancePicture ==
    ASSUME NEW r \in Replica, Seen(r), RebalanceStep(r)
    PROVE  KeepsHanding(r) /\ Spoken(r)
<1>1. /\ Before(r) /\ TypeOK /\ TaskTypeOK /\ FlushTypeOK /\ StateTypeOK /\ OwnershipOf(r)
      /\ PictureOf(r) /\ faults <= faults /\ faults \in Nat
  BY SeenTypes DEF EnvTypeOK
<1>0. GoesOn(r)
  BY ServiceGoesOn
<1>2. ASSUME SameBuffers(r), UNCHANGED <<tracks, revoked, astray, strayed, leaving, live, faults>>,
             UNCHANGED <<queue, stage, inflight>>
      PROVE  KeepsHanding(r) /\ Spoken(r)
  <2>1. Remembers(r) /\ Spoken(r)
    BY <1>0, <1>1, <1>2, StayPicture
  <2> QED
    BY <1>2, <2>1, NextAwait DEF Awaiting
<1>3. CASE Rejoin(r)
  <2>1. /\ Loops(r) /\ ~Queued(r, "release") /\ SameBuffers(r)
        /\ UNCHANGED <<tracks, revoked, astray, strayed, leaving, live, faults, inflight>>
        /\ UNCHANGED <<queue, stage>> \/ Acquire(r, "release")
    BY <1>3 DEF Rejoin, SameBuffers, stateVars, flushVars, storeVars, envVars, ghostVars
  <2> QED
    BY <1>0, <1>2, <2>1, AcquirePicture DEF Task
<1>4. CASE Learn(r)
  <2>1. /\ Loops(r) /\ r \in joined /\ SameBuffers(r)
        /\ UNCHANGED <<tracks, revoked, astray, strayed, leaving, live, faults, inflight>>
        /\ UNCHANGED <<queue, stage>> \/ Acquire(r, "claim")
    BY <1>4 DEF Learn, SameBuffers, stateVars, flushVars, storeVars, envVars, ghostVars
  <2>2. ~Queued(r, "claim")
    BY <1>1, <2>1 DEF OwnershipOf, RejoinedIsEmpty
  <2> QED
    BY <1>0, <1>2, <2>1, <2>2, AcquirePicture DEF Task
<1>5. CASE ClaimPartitions(r)
  <2>1. /\ Enters(r, "claim") /\ LeaveLock(r) /\ SameBuffers(r)
        /\ UNCHANGED <<tracks, astray, strayed, leaving, live, faults, inflight>>
    BY <1>5 DEF ClaimPartitions, SameBuffers, flushVars, storeVars, envVars, ghostVars
  <2>2. changed[r] = <<>> /\ queue[r] # <<>> /\ Holds(r, "claim") /\ stage[r] \in {"idle", "entered"}
    BY <1>1, <2>1, EntersEmpty DEF Enters
  <2>3. \A a \in Told(r)' : a \in Told(r) /\ Written(live'[a], pending'[r], a) = Newest(r, a)
    BY <1>0, <2>1, <2>2, QuietNewest DEF Told, SameBuffers, GoesOn
  <2>4. Remembers(r)
    BY <2>1 DEF Remembers
  <2> QED
    BY <1>1, <2>1, <2>2, <2>3, <2>4, LeavePicture DEF SameBuffers, PictureOf
<1>6. CASE ReleasePartitions(r)
  <2> DEFINE addresses == {a \in mapped[r] : PartitionFor[a] \in Owned(r)}
  <2>1. /\ Enters(r, "release") /\ revoked[r] \subseteq revoked'[r]
        /\ UNCHANGED <<changed, inflight, live, astray, strayed, faults>>
    BY <1>1, <1>6 DEF ReleasePartitions, Revoke, StateTypeOK, storeVars, envVars, ghostVars
  <2>2. /\ changed[r] = <<>> /\ queue[r] # <<>> /\ stage[r] \in {"idle", "entered"} /\ ~Awaiting(r)
        /\ leaving[r] = {}
    BY <1>1, <2>1, EntersEmpty DEF Enters, OwnershipOf, ReleaseIsWhole
  <2>3. CASE pending[r] = <<>>
    <3>1. LeaveLock(r) /\ Drop(r, addresses) /\ UNCHANGED <<pending, leaving>>
      BY <1>6, <2>3 DEF ReleasePartitions
    <3>2. \A a \in Aircraft : tracks'[r][a] # NoTrack => tracks'[r][a] = tracks[r][a]
      BY <1>1, <3>1 DEF Drop, Released, StateTypeOK
    <3>3. \A a \in Told(r)' : /\ a \in Told(r) /\ tracks'[r][a] = tracks[r][a]
                              /\ Written(live'[a], pending'[r], a) = Newest(r, a)
      BY <1>0, <2>1, <2>2, <3>1, <3>2, QuietNewest DEF Told, Live, Known, GoesOn
    <3>4. Remembers(r)
      BY <3>2 DEF Remembers
    <3> QED
      BY <1>1, <2>1, <2>2, <3>1, <3>3, <3>4, LeavePicture DEF PictureOf
  <2>4. CASE pending[r] # <<>>
    <3>1. StartFlush(r, pending[r]) /\ UNCHANGED <<queue, tracks>>
      BY <1>6, <2>4 DEF ReleasePartitions
    <3>2. stage'[r] = "recording" /\ batch'[r] = pending[r] /\ pending'[r] = <<>>
      BY <1>1, <3>1 DEF StartFlush, TaskTypeOK, FlushTypeOK
    <3>3. \A a : Newest(r, a)' = Newest(r, a)
      BY <2>1, <2>2, <3>2, QuietNewest, AddressedOf, WrittenNone DEF Newest, Unshown, Unbuffered
    <3>4. \A a \in Told(r)' : a \in Told(r)
      BY <1>0, <2>1, <2>2, <3>1 DEF Told, GoesOn
    <3>5. CurrentOf(r)'
      BY <1>1, <2>1, <3>1, <3>3, <3>4, StaysCurrent DEF PictureOf
    <3>6. Remembers(r) /\ ChangedOf(r)'
      BY <2>1, <2>2, <3>1, EmptyChanged DEF Remembers
    <3>7. Unhandled(r)' => Unhandled(r)
      BY <2>1, <2>2, <3>1 DEF Unhandled, Queued
    <3> QED
      BY <1>1, <2>1, <3>5, <3>6, <3>7 DEF KeepsHanding, Spoken, PictureOf
  <2> QED
    BY <2>3, <2>4
<1> QED
  BY <1>3, <1>4, <1>5, <1>6 DEF RebalanceStep

\* Leaving run() says nothing more.
LEMMA ExitPicture ==
    ASSUME NEW r \in Replica, Seen(r), Exit(r)
    PROVE  KeepsHanding(r) /\ Spoken(r)
<1>1. /\ TypeOK /\ TaskTypeOK /\ FlushTypeOK /\ CloseTypeOK /\ PictureOf(r)
  BY SeenTypes DEF TypeOK
<1>2. closing'[r] # "no" /\ changed'[r] = <<>> /\ UNCHANGED <<tracks, astray, strayed>>
  BY <1>1 DEF Exit, FlushTypeOK, CloseTypeOK, stateVars
<1>3. ~Queued(r, "handle")'
  BY <1>1 DEF Exit, Callbacks, Queued, Range, TaskTypeOK
<1> QED
  BY <1>1, <1>2, <1>3, ClosingPicture DEF Unhandled, PictureOf

\* The last flush, the start, and whatever stops a replica or fails it.
LEMMA FailPicture ==
    ASSUME NEW r \in Replica, Seen(r), Close(r) \/ Start(r) \/ Stop(r) \/ Crash(r) \/ Fail(r)
    PROVE  KeepsHanding(r) /\ Spoken(r)
<1>1. /\ TypeOK /\ TaskTypeOK /\ FlushTypeOK /\ StateTypeOK /\ EnvTypeOK /\ CloseTypeOK
      /\ BufferOf(r) /\ OwnershipOf(r) /\ PictureOf(r) /\ ClosingOf(r)
  BY SeenTypes DEF TypeOK
<1>2. CASE Stop(r) \/ HandlerFails(r) \/ CommitFails(r)
  BY <1>2, ExitPicture DEF Stop, HandlerFails, CommitFails
<1>5. CASE Crash(r) \/ Leave(r)
  <2>1. Wipe(r)
    BY <1>5 DEF Crash, Leave, Depart
  <2>2. changed'[r] = <<>> /\ astray'[r] = {}
    BY <1>1, <2>1 DEF Wipe, FlushTypeOK, StateTypeOK
  <2> QED
    BY <1>1, <2>1, <2>2, WipeKeeps, StoppedPicture
<1>6. CASE LastRecord(r) \/ LastShow(r) \/ LastFlushFails(r)
  <2>1. /\ closing[r] # "no" /\ closing'[r] # "no"
        /\ UNCHANGED <<queue, stage, inflight, revoked, changed, astray, strayed, tracks>>
    BY <1>1, <1>6 DEF LastRecord, LastShow, LastFlushFails, CloseTypeOK, flushVars, stateVars,
       taskVars, ghostVars
  <2>2. changed'[r] = <<>>
    BY <1>1, <2>1 DEF ClosingOf
  <2> QED
    BY <1>1, <2>1, <2>2, ClosingPicture DEF Unhandled, Queued, Awaiting, Holds, PictureOf
<1>3. CASE Start(r)
  <2>1. /\ ~Running(r) /\ stage[r] \notin {"publishing", "recording", "showing", "forgetting"}
        /\ UNCHANGED <<queue, changed, astray, strayed, tracks>>
    BY <1>3 DEF Start, Running, flushVars, stateVars, ghostVars
  <2>2. queue[r] = <<>> /\ changed[r] = <<>> /\ \A a \in Aircraft : tracks[r][a] = NoTrack
    BY <1>1, <2>1 DEF BufferOf, OwnershipOf, NothingOutside
  <2> QED
    BY <1>1, <2>1, <2>2, StoppedPicture DEF PictureOf
<1>4. CASE SweepFails(r) \/ ReleaseFails(r)
  <2>1. /\ Awaiting(r) /\ LeaveLock(r) /\ UNCHANGED <<inflight, tracks, revoked>>
        /\ faults' = faults + 1
    BY <1>4 DEF SweepFails, ReleaseFails, Fault, stateVars
  <2>2. changed'[r] = <<>>
    BY <1>1, <1>4 DEF SweepFails, ReleaseFails, BufferOf, FlushTypeOK
  <2>3. astray'[r] \subseteq strayed'
    BY <1>1, <1>4 DEF SweepFails, ReleaseFails, Stray, PictureOf, StateTypeOK
  <2>4. faults' # 0 /\ faults' \in Nat /\ faults <= faults' /\ queue[r] # <<>>
    BY <1>1, <2>1 DEF EnvTypeOK, BufferOf
  <2>5. Remembers(r)
    BY <2>1 DEF Remembers
  <2> QED
    BY <2>1, <2>2, <2>3, <2>4, <2>5, LeavePicture
<1> QED
  BY <1>2, <1>3, <1>4, <1>5, <1>6 DEF Close, Fail

\* Every step of a replica keeps what it says true.
LEMMA StepSpoken ==
    ASSUME NEW r \in Replica, Seen(r), ReplicaStep(r)
    PROVE  /\ Spoken(r)
           /\ KeepsHanding(r) \/ HandleReport(r) \/ \E p \in Partition : Receive(r, p)
BY ConsumePicture, ProceedPicture, SweepPicture, RebalancePicture, FailPicture DEF ReplicaStep

-----------------------------------------------------------------------------
(* The order of the reports.                                               *)

\* No time passes in a step of a replica.
LEMMA ClockStays ==
    ASSUME NEW r \in Replica, ReplicaStep(r)
    PROVE  now' = now
<1> USE DEF envVars
<1>1. CASE Consume(r)
  BY <1>1 DEF Consume, Receive, DiscardReport, HandleReport, Commit
<1>2. CASE Proceed(r)
  BY <1>2 DEF Proceed, Publish, Record, Show, ForgetTerminated
<1>3. CASE SweepStep(r)
  BY <1>3 DEF SweepStep, SweepTimer, SweepNothing, SweepChanged
<1>4. CASE RebalanceStep(r) \/ Close(r) \/ Start(r)
  BY <1>4 DEF RebalanceStep, Rejoin, ReleasePartitions, Learn, ClaimPartitions, Close,
     LastRecord, LastShow, Leave, Start
<1>5. CASE Stop(r) \/ Crash(r) \/ Fail(r)
  BY <1>5 DEF Stop, Crash, Fail, Fault, HandlerFails, SweepFails, ReleaseFails, CommitFails,
     LastFlushFails
<1> QED
  BY <1>1, <1>2, <1>3, <1>4, <1>5 DEF ReplicaStep

\* What is followed, and not astray, is of a partition the replica owns.
LEMMA FollowedIsOwned ==
    ASSUME NEW r \in Replica, OwnershipOf(r), astray[r] \subseteq strayed
    PROVE  /\ \A a \in Followed(r) : /\ a \in Aircraft /\ a \in Held(r)
                                     /\ PartitionFor[a] \in Partition /\ owner[PartitionFor[a]] = r
           /\ Unhandled(r) /\ inflight[r] \in Report \cup {NoReport} =>
                /\ inflight[r] \in Report /\ r \notin joined
                /\ PartitionFor[inflight[r].ac] \in Partition
                /\ owner[PartitionFor[inflight[r].ac]] = r
<1>1. ASSUME NEW a \in Followed(r)
      PROVE  /\ a \in Aircraft /\ a \in Held(r)
             /\ PartitionFor[a] \in Partition /\ owner[PartitionFor[a]] = r
  BY <1>1, ServiceAssumption DEF Followed, Known, Held, OwnershipOf, HeldIsOwned
<1>2. ASSUME Unhandled(r), inflight[r] \in Report \cup {NoReport}
      PROVE  /\ inflight[r] \in Report /\ r \notin joined
             /\ PartitionFor[inflight[r].ac] \in Partition
             /\ owner[PartitionFor[inflight[r].ac]] = r
  BY <1>2, ServiceAssumption DEF Unhandled, OwnershipOf, WaitingIsOwned, Report
<1> QED
  BY <1>1, <1>2

\* As long as no report is taken or handled, the order stays.
LEMMA HandingStays ==
    ASSUME TypeOK, NEW r \in Replica, OwnershipOf(r), PictureOf(r), KeepsHanding(r),
           strayed \subseteq strayed', log' = log,
           \A p \in Partition : owner[p] = r => position'[p] = position[p]
    PROVE  HandedLast(r)' /\ BehindOf(r)'
<1>1. HandedLast(r) /\ BehindOf(r) /\ astray[r] \subseteq strayed /\ inflight[r] \in Report \cup {NoReport}
  BY DEF PictureOf, TypeOK, TaskTypeOK
<1>2. HandedLast(r)'
  BY <1>1, FollowedIsOwned DEF HandedLast, KeepsHanding
<1>3. ASSUME NEW a \in Followed(r)'
      PROVE  /\ a \in Followed(r) /\ tracks'[r][a].last = tracks[r][a].last
             /\ position'[PartitionFor[a]] = position[PartitionFor[a]]
  <2>1. a \in Followed(r) /\ tracks'[r][a].last = tracks[r][a].last
    BY <1>3 DEF KeepsHanding, Remembers, Followed, Known
  <2> QED
    BY <1>1, <2>1, FollowedIsOwned
<1>4. BehindOf(r)'
  BY <1>1, <1>3 DEF BehindOf, KeepsHanding
<1> QED
  BY <1>2, <1>4

\* The next report of a partition is taken.
LEMMA ReceiveHanding ==
    ASSUME Inv, NEW r \in Replica, PictureOf(r), NEW p \in Partition, Receive(r, p)
    PROVE  HandedLast(r)' /\ BehindOf(r)'
<1> DEFINE report == log[p][position[p] + 1]
<1>1. /\ TaskTypeOK /\ BrokerTypeOK /\ StateTypeOK /\ WellPlaced /\ OwnershipOf(r) /\ BehindOf(r)
      /\ astray[r] \subseteq strayed
  BY DEF Inv, TypeOK, OwnershipInv, PictureOf
<1>2. /\ UNCHANGED <<log, tracks, strayed, revoked>>
      /\ inflight'[r] = report /\ position[p] < Len(log[p])
      /\ position' = [position EXCEPT ![p] = @ + 1]
  BY <1>1 DEF Receive, HandOut, ghostVars, TaskTypeOK
<1>3. /\ log[p] \in Seq(Report) /\ position[p] \in Nat /\ position[p] + 1 \in DOMAIN log[p]
      /\ report \in Report /\ PartitionFor[report.ac] = p
      /\ position'[p] = position[p] + 1
      /\ \A q \in Partition : q # p => position'[q] = position[q]
  BY <1>1, <1>2 DEF BrokerTypeOK, WellPlaced
<1>4. HandedLast(r)'
  BY <1>2, <1>3 DEF HandedLast
<1>5. ASSUME NEW a \in Followed(r)
      PROVE  /\ \A i \in DOMAIN log[PartitionFor[a]] :
                   i > position'[PartitionFor[a]] /\ log[PartitionFor[a]][i].ac = a
                      => tracks[r][a].last < log[PartitionFor[a]][i].at
             /\ report.ac = a => tracks[r][a].last < report.at
  <2>1. /\ PartitionFor[a] \in Partition
        /\ \A i \in DOMAIN log[PartitionFor[a]] :
              i > position[PartitionFor[a]] /\ log[PartitionFor[a]][i].ac = a
                 => tracks[r][a].last < log[PartitionFor[a]][i].at
    BY <1>1, <1>5, FollowedIsOwned DEF BehindOf
  <2>2. CASE PartitionFor[a] = p
    <3>1. /\ \A i \in DOMAIN log[p] : i > position[p] /\ log[p][i].ac = a => tracks[r][a].last < log[p][i].at
      BY <2>1, <2>2
    <3>2. \A i \in DOMAIN log[p] : i > position[p] + 1 => i > position[p]
      BY <1>3
    <3>3. position[p] + 1 > position[p]
      BY <1>3
    <3> HIDE DEF report
    <3>4. report.ac = a => tracks[r][a].last < report.at
      BY <1>3, <3>1, <3>3 DEF report
    <3> QED
      BY <1>3, <2>2, <3>1, <3>2, <3>4
  <2>3. CASE PartitionFor[a] # p
    BY <1>3, <2>1, <2>3
  <2> QED
    BY <2>2, <2>3
<1>6. BehindOf(r)'
  <2> HIDE DEF report
  <2>1. Followed(r)' = Followed(r)
    BY <1>2 DEF Followed
  <2> QED
    BY <1>1, <1>2, <1>5, <2>1 DEF BehindOf
<1> QED
  BY <1>4, <1>6

\* A report is handled: its track is as old as it.
LEMMA HandleHanding ==
    ASSUME NEW r \in Replica, Seen(r), OrderedLog, HandleReport(r)
    PROVE  HandedLast(r)' /\ BehindOf(r)'
<1> DEFINE report == inflight[r]
           p      == PartitionFor[report.ac]
<1>1. /\ Before(r) /\ TypeOK /\ TaskTypeOK /\ StateTypeOK /\ BrokerTypeOK /\ OwnershipOf(r)
      /\ HandedLast(r) /\ BehindOf(r) /\ astray[r] \subseteq strayed
  BY SeenTypes DEF PictureOf
<1>2. /\ Enters(r, "handle") /\ p \notin revoked[r]
      /\ UNCHANGED <<log, position, strayed, revoked, queue, inflight>>
      /\ stage'[r] = "publishing" /\ tracks'[r] = OnReport(tracks[r], report)
  BY <1>1 DEF HandleReport, TaskTypeOK, StateTypeOK, ghostVars, brokerVars
<1>3. Queued(r, "handle") /\ Holds(r, "handle") /\ ~Awaiting(r)
  BY <1>1, <1>2, EntersEmpty
<1>4. ~Unhandled(r)' /\ Unhandled(r)
  BY <1>2, <1>3 DEF Unhandled, Awaiting, Holds
<1>5. report \in Report /\ p \in Partition /\ tracks[r] \in Tracks
  BY <1>1, <1>4, FollowedIsOwned DEF TaskTypeOK, StateTypeOK
<1>6. /\ position[p] \in DOMAIN log[p] /\ log[p][position[p]] = report
      /\ \A i \in DOMAIN log[p] : i > position[p] /\ log[p][i].ac = report.ac => report.at < log[p][i].at
  BY <1>1, <1>4, <1>5 DEF HandedLast, OrderedLog, BrokerTypeOK
<1>7. BehindOf(r)'
  <2> SUFFICES ASSUME NEW a \in Followed(r)'
               PROVE  LET pa == PartitionFor[a]
                      IN  /\ \E i \in DOMAIN log[pa] : log[pa][i] = [ac |-> a, at |-> tracks'[r][a].last]
                          /\ \A i \in DOMAIN log[pa] :
                                i > position[pa] /\ log[pa][i].ac = a => tracks'[r][a].last < log[pa][i].at
    BY <1>2, <1>4 DEF BehindOf
  <2>1. CASE a = report.ac
    <3>1. tracks'[r][a].last = report.at
      BY <1>2, <2>1, HandledAt DEF Followed
    <3>2. report = [ac |-> a, at |-> tracks'[r][a].last]
      BY <1>5, <2>1, <3>1 DEF Report
    <3> QED
      BY <1>6, <2>1, <3>1, <3>2
  <2>2. CASE a # report.ac
    <3>1. a \in Aircraft /\ tracks'[r][a] = tracks[r][a]
      BY <1>2, <1>5, <2>2, OnReportType DEF Followed, Known
    <3>2. a \in Followed(r)
      BY <1>2, <3>1 DEF Followed, Known
    <3> QED
      BY <1>1, <3>1, <3>2 DEF BehindOf
  <2> QED
    BY <2>1, <2>2
<1> QED
  BY <1>4, <1>7 DEF HandedLast

-----------------------------------------------------------------------------
(* The others, the environment, and the theorems.                          *)

\* While nothing fails, a replica writes only what it serves or what is astray.
LEMMA LiveStays ==
    ASSUME NEW r \in Replica, Seen(r), ReplicaStep(r), faults = 0,
           NEW a \in Aircraft, a \notin strayed, a \notin overwritten',
           owner[PartitionFor[a]] # r
    PROVE  live'[a] = live[a]
<1>1. /\ TypeOK /\ StoreTypeOK /\ PlaceOf(r) /\ a \notin astray[r] /\ ~Serves(r, a)
      /\ ~Active(r, a) /\ ~(faults > 0)
  BY SeenTypes DEF PictureOf, Serves, Active
<1>2. stage[r] \in {"recording", "showing"} => a \notin Addressed(batch[r])
  BY <1>1 DEF PlaceOf, BatchOwned
<1>4. CASE Show(r)
  BY <1>2, <1>4, WrittenNone DEF Show
<1>5. CASE ForgetTerminated(r)
  <2>1. /\ stage[r] = "forgetting" /\ Holds(r, "sweep")
        /\ a \notin Departed(changed[r]) => live'[a] = live[a]
    BY <1>5 DEF ForgetTerminated
  <2>2. Awaiting(r) /\ ~Holds(r, "handle")
    BY <1>1, <2>1, HoldsIsQueued DEF Awaiting
  <2>3. a \notin Addressed(changed[r])
    BY <1>1, <2>2 DEF PlaceOf, SweptOwned
  <2>4. \A i \in DOMAIN changed[r] : changed[r][i].ac # a
    BY <2>3, AddressedOf
  <2> QED
    BY <2>1, <2>4 DEF Departed, Range
<1>6. CASE LastShow(r)
  <2>1. a \notin Addressed(rest[r])
    BY <1>6 DEF LastShow, Addressed
  <2> QED
    BY <1>6, <2>1, WrittenNone DEF LastShow
<1> USE DEF storeVars
<1>7. CASE Consume(r) \/ SweepStep(r) \/ Start(r) \/ Stop(r) \/ Crash(r)
  BY <1>7 DEF Consume, Receive, DiscardReport, HandleReport, Commit, SweepStep, SweepTimer,
     SweepNothing, SweepChanged, Start, Stop, Crash, Depart, Exit
<1>8. CASE RebalanceStep(r) \/ Fail(r)
  BY <1>8 DEF RebalanceStep, Rejoin, ReleasePartitions, Learn, ClaimPartitions, Fail, HandlerFails,
     SweepFails, ReleaseFails, CommitFails, LastFlushFails, Exit
<1>9. CASE Publish(r) \/ Record(r) \/ LastRecord(r) \/ Leave(r)
  BY <1>9 DEF Publish, Record, LastRecord, Leave, Depart
<1> QED
  BY <1>4, <1>5, <1>6, <1>7, <1>8, <1>9 DEF ReplicaStep, Proceed, Close

\* The replica that acts.
LEMMA OwnPicture ==
    ASSUME Inv, OrderedLog, NEW r \in Replica, Seen(r), ReplicaStep(r)
    PROVE  PictureOf(r)'
<1>1. /\ TypeOK /\ OwnershipOf(r) /\ PictureOf(r)
  BY SeenTypes
<1>2. Spoken(r)
  BY StepSpoken
<1>3. HandedLast(r)' /\ BehindOf(r)'
  <2>1. CASE HandleReport(r)
    BY <2>1, HandleHanding
  <2>2. CASE \E p \in Partition : Receive(r, p)
    BY <1>1, <2>2, ReceiveHanding
  <2>3. CASE KeepsHanding(r) /\ ~(\E p \in Partition : Receive(r, p))
    <3>1. log' = log /\ strayed \subseteq strayed'
      BY <1>1, StepApart, GhostsGrow DEF Apart
    <3>2. position' = position
      BY <2>3, StepOffsets DEF Commit
    <3> QED
      BY <1>1, <2>3, <3>1, <3>2, HandingStays
  <2> QED
    BY <2>1, <2>2, <2>3, StepSpoken
<1> QED
  BY <1>2, <1>3 DEF PictureOf, Spoken

\* A step that is not the replica's, and leaves it, its partitions and the live entries
\* it speaks for alone.
LEMMA ApartPicture ==
    ASSUME TypeOK, NEW q \in Replica, PictureOf(q), SameBuffers(q), Local(q)' = Local(q),
           faults <= faults', faults' \in Nat, strayed \subseteq strayed',
           closing'[q] = closing[q], overwritten \subseteq overwritten',
           faults = 0 => \A a \in Told(q)' : live'[a] = live[a]
    PROVE  KeepsHanding(q) /\ Spoken(q)
<1>1. /\ queue'[q] = queue[q] /\ stage'[q] = stage[q] /\ leaving'[q] = leaving[q]
      /\ tracks'[q] = tracks[q] /\ astray'[q] = astray[q] /\ revoked'[q] = revoked[q]
      /\ inflight'[q] = inflight[q]
  BY DEF Local
<1>2. KeepsHanding(q)
  BY <1>1 DEF KeepsHanding, Remembers, Unhandled, Queued, Awaiting, Holds
<1>3. ChangedOf(q)'
  BY <1>1 DEF PictureOf, ChangedOf, Distinct, SameBuffers
<1>4. CurrentOf(q)'
  <2> SUFFICES ASSUME faults' = 0, NEW a \in Told(q)'
               PROVE  /\ Newest(q, a)'.state = tracks'[q][a].state
                      /\ Newest(q, a)'.at >= tracks'[q][a].last
    BY DEF CurrentOf
  <2>1. faults = 0
    BY DEF TypeOK, EnvTypeOK
  <2>2. Newest(q, a)' = Newest(q, a)
    BY <1>1, <2>1 DEF Newest, Unshown, Unbuffered, SameBuffers
  <2>3. a \in Told(q)
    BY <1>1, ToldBefore
  <2> QED
    BY <1>1, <2>1, <2>2, <2>3 DEF PictureOf, CurrentOf
<1> QED
  BY <1>1, <1>2, <1>3, <1>4 DEF PictureOf, Spoken

\* The replicas that do not act.
LEMMA OtherPicture ==
    ASSUME Inv, NEW r \in Replica, Seen(r), ReplicaStep(r), faults' \in Nat,
           NEW q \in Replica, q # r, PictureOf(q)
    PROVE  PictureOf(q)'
<1>1. /\ TypeOK /\ OwnershipOf(q) /\ astray[q] \subseteq strayed
      /\ SameBuffers(q) /\ Untouched(q) /\ log' = log
      /\ faults <= faults' /\ strayed \subseteq strayed'
      /\ closing'[q] = closing[q] /\ overwritten \subseteq overwritten'
  BY StepApart, StepUntouched, GhostsGrow DEF Inv, OwnershipInv, Apart, SameClose, PictureOf
<1>2. ASSUME faults = 0, NEW a \in Told(q)' PROVE live'[a] = live[a]
  <2>1. a \in Followed(q)
    BY <1>1, <1>2 DEF Told, Followed, Live, Known, Untouched, Local
  <2>2. a \in Aircraft /\ a \notin strayed /\ a \notin overwritten' /\ owner[PartitionFor[a]] = q
    BY <1>1, <1>2, <2>1, FollowedIsOwned DEF Followed, Told
  <2> QED
    BY <1>2, <2>2, LiveStays
<1>3. KeepsHanding(q) /\ Spoken(q)
  BY <1>1, <1>2, ApartPicture DEF Untouched
<1>4. \A p \in Partition : owner[p] = q => position'[p] = position[p]
  <2>1. ASSUME NEW k \in Partition, Receive(r, k), NEW p \in Partition, owner[p] = q
        PROVE  position'[p] = position[p]
    BY <1>1, <2>1 DEF Receive, HandOut, TypeOK, BrokerTypeOK
  <2>2. Commit(r) => position' = position
    BY DEF Commit
  <2> QED
    BY <2>1, <2>2, StepOffsets
<1>5. HandedLast(q)' /\ BehindOf(q)'
  BY <1>1, <1>3, <1>4, HandingStays
<1> QED
  BY <1>3, <1>5 DEF Spoken, PictureOf

\* A new report is the latest, and later than the track of its aircraft.
LEMMA EnvironmentOrder ==
    ASSUME TypeOK, OrderedLog, Environment
    PROVE  /\ OrderedLog'
           /\ \A p \in Partition :
                 /\ DOMAIN log[p] \subseteq DOMAIN log'[p]
                 /\ \A i \in DOMAIN log[p] : log'[p][i] = log[p][i]
                 /\ \A i \in DOMAIN log'[p], j \in DOMAIN log[p] :
                       i \notin DOMAIN log[p] /\ log'[p][i].ac = log[p][j].ac => log[p][j].at < log'[p][i].at
<1>1. now \in Nat /\ log \in [Partition -> Seq(Report)]
  BY DEF TypeOK, EnvTypeOK, BrokerTypeOK
<1>2. CASE UNCHANGED log /\ now <= now' /\ now' \in Nat
  <2>1. ASSUME NEW p \in Partition, NEW i \in DOMAIN log[p] PROVE log[p][i].at \in Nat
    <3>1. log[p] \in Seq(Report)
      BY <1>1
    <3>2. log[p][i] \in Report
      BY <3>1
    <3> QED
      BY <3>2 DEF Report
  <2>2. \A p \in Partition : \A i \in DOMAIN log[p] : log[p][i].at <= now'
    BY <1>1, <1>2, <2>1 DEF OrderedLog
  <2> QED
    BY <1>2, <2>2 DEF OrderedLog
<1>3. ASSUME NEW a \in Aircraft, Produce(a)
      PROVE  /\ OrderedLog'
             /\ \A p \in Partition :
                   /\ DOMAIN log[p] \subseteq DOMAIN log'[p]
                   /\ \A i \in DOMAIN log[p] : log'[p][i] = log[p][i]
                   /\ \A i \in DOMAIN log'[p], j \in DOMAIN log[p] :
                         i \notin DOMAIN log[p] /\ log'[p][i].ac = log[p][j].ac => log[p][j].at < log'[p][i].at
  <2> DEFINE report == [ac |-> a, at |-> now]
             pa     == PartitionFor[a]
  <2>1. /\ pa \in Partition /\ report \notin Range(log[pa]) /\ now' = now
        /\ log' = [log EXCEPT ![pa] = Append(@, report)]
    BY <1>3, ServiceAssumption DEF Produce, Reported, envVars
  <2>2. /\ \A p \in Partition : p # pa => log'[p] = log[p]
        /\ log'[pa] = Append(log[pa], report) /\ log[pa] \in Seq(Report)
    BY <1>1, <2>1
  <2>3. /\ DOMAIN log'[pa] = DOMAIN log[pa] \cup {Len(log[pa]) + 1}
        /\ DOMAIN log[pa] = 1..Len(log[pa]) /\ Len(log[pa]) \in Nat
        /\ \A i \in DOMAIN log[pa] : log'[pa][i] = log[pa][i] /\ log[pa][i] \in Report
        /\ log'[pa][Len(log[pa]) + 1] = report
    BY <2>2
  <2>4. ASSUME NEW j \in DOMAIN log[pa], log[pa][j].ac = a PROVE log[pa][j].at < now
    <3>1. log[pa][j] # report /\ log[pa][j] \in Report
      BY <2>1, <2>3 DEF Range
    <3>2. log[pa][j].at # now
      BY <2>4, <3>1 DEF Report
    <3>3. log[pa][j].at <= now
      BY <2>1 DEF OrderedLog
    <3> QED
      BY <1>1, <3>1, <3>2, <3>3 DEF Report
  <2>5. ASSUME NEW p \in Partition
        PROVE  /\ DOMAIN log[p] \subseteq DOMAIN log'[p]
               /\ \A i \in DOMAIN log[p] : log'[p][i] = log[p][i]
               /\ \A i \in DOMAIN log'[p], j \in DOMAIN log[p] :
                     i \notin DOMAIN log[p] /\ log'[p][i].ac = log[p][j].ac => log[p][j].at < log'[p][i].at
    <3>1. CASE p = pa
      BY <2>3, <2>4, <3>1
    <3>2. CASE p # pa
      BY <2>2, <3>2
    <3> QED
      BY <3>1, <3>2
  <2>6. ASSUME NEW p \in Partition
        PROVE  /\ \A i, j \in DOMAIN log'[p] :
                     i < j /\ log'[p][i].ac = log'[p][j].ac => log'[p][i].at < log'[p][j].at
               /\ \A i \in DOMAIN log'[p] : log'[p][i].at <= now
    <3>1. CASE p = pa
      <4>1. \A i \in DOMAIN log'[pa] : log'[pa][i].at <= now
        BY <1>1, <2>1, <2>3 DEF OrderedLog
      <4>2. ASSUME NEW i \in DOMAIN log'[pa], NEW j \in DOMAIN log'[pa],
                   i < j, log'[pa][i].ac = log'[pa][j].ac
            PROVE  log'[pa][i].at < log'[pa][j].at
        <5>1. i \in DOMAIN log[pa]
          BY <2>3, <4>2
        <5>2. CASE j \in DOMAIN log[pa]
          BY <2>1, <2>3, <4>2, <5>1, <5>2 DEF OrderedLog
        <5>3. CASE j \notin DOMAIN log[pa]
          BY <2>1, <2>3, <2>5, <4>2, <5>1, <5>3
        <5> QED
          BY <5>2, <5>3
      <4> QED
        BY <3>1, <4>1, <4>2
    <3>2. CASE p # pa
      BY <2>2, <3>2 DEF OrderedLog
    <3> QED
      BY <3>1, <3>2
  <2>7. OrderedLog'
    BY <2>1, <2>6 DEF OrderedLog
  <2> QED
    BY <2>5, <2>7
<1>4. \/ UNCHANGED log /\ now <= now' /\ now' \in Nat
      \/ \E a \in Aircraft : Produce(a)
  BY <1>1 DEF Environment, vars, Tick, StartRebalance, AssignAny, Assign, brokerVars, envVars
<1> QED
  BY <1>2, <1>3, <1>4

\* What the environment and the broker do.
LEMMA EnvironmentPicture ==
    ASSUME PictureInv, Environment, NEW q \in Replica
    PROVE  PictureOf(q)'
<1>1. /\ DeliveryInv /\ Inv /\ TypeOK /\ TaskTypeOK /\ BrokerTypeOK /\ OwnershipOf(q)
      /\ PictureOf(q) /\ OrderedLog /\ faults \in Nat /\ astray[q] \subseteq strayed
  BY DEF PictureInv, PlaceInv, DeliveryInv, Inv, TypeOK, EnvTypeOK, OwnershipInv, PictureOf
<1>2. /\ SameBuffers(q) /\ Local(q)' = Local(q) /\ UNCHANGED <<live, joined, strayed, closing, overwritten>>
      /\ faults <= faults' /\ faults' \in Nat /\ strayed \subseteq strayed'
  BY <1>1, EnvironmentApart
<1>3. KeepsHanding(q) /\ Spoken(q)
  BY <1>1, <1>2, ApartPicture
<1>4. ASSUME NEW a \in Followed(q)' PROVE a \in Followed(q) /\ tracks'[q] = tracks[q]
  BY <1>2, <1>4 DEF Followed, Local
<1>5. CASE AssignAny
  <2>1. Members \subseteq joined /\ inflight[q] \in Report \cup {NoReport}
    BY <1>1, <1>5 DEF AssignAny, Assign, TaskTypeOK
  <2>2. stage[q] = "down" \/ q \in joined
    BY <2>1 DEF Members, Running
  <2>3. ~Unhandled(q) /\ Held(q) = {}
    <3>1. CASE stage[q] = "down"
      BY <1>1, <3>1 DEF OwnershipOf, NothingOutside, Running, Unhandled, Queued, Range, Held
    <3>2. CASE q \in joined
      BY <1>1, <2>1, <3>2, FollowedIsOwned DEF OwnershipOf, RejoinedIsEmpty
    <3> QED
      BY <2>2, <3>1, <3>2
  <2>4. Followed(q)' = {} /\ ~Unhandled(q)'
    BY <1>1, <1>3, <1>4, <2>3, FollowedIsOwned DEF KeepsHanding
  <2> QED
    BY <1>3, <2>4 DEF Spoken, PictureOf, HandedLast, BehindOf
<1>6. CASE ~AssignAny
  <2>1. position' = position
    BY <1>6 DEF Environment, Tick, StartRebalance, Produce, vars, brokerVars
  <2>2. HandedLast(q)'
    <3> SUFFICES ASSUME Unhandled(q)'
                 PROVE  LET p == PartitionFor[inflight[q].ac]
                        IN  position[p] \in DOMAIN log'[p] /\ log'[p][position[p]] = inflight[q]
      BY <1>3, <2>1 DEF HandedLast, KeepsHanding
    <3> QED
      <4> DEFINE p == PartitionFor[inflight[q].ac]
      <4>1. Unhandled(q) /\ inflight[q] \in Report \cup {NoReport} /\ HandedLast(q)
        BY <1>1, <1>3 DEF KeepsHanding, PictureOf, TaskTypeOK
      <4>2. p \in Partition /\ position[p] \in DOMAIN log[p] /\ log[p][position[p]] = inflight[q]
        BY <1>1, <4>1, FollowedIsOwned DEF HandedLast
      <4>3. DOMAIN log[p] \subseteq DOMAIN log'[p] /\ \A i \in DOMAIN log[p] : log'[p][i] = log[p][i]
        BY <1>1, <4>2, EnvironmentOrder
      <4> QED
        BY <4>2, <4>3
  <2>3. BehindOf(q)'
    <3> SUFFICES ASSUME NEW a \in Followed(q)'
                 PROVE  LET p == PartitionFor[a]
                        IN  /\ \E i \in DOMAIN log'[p] : log'[p][i] = [ac |-> a, at |-> tracks'[q][a].last]
                            /\ \A i \in DOMAIN log'[p] :
                                  i > position[p] /\ log'[p][i].ac = a => tracks'[q][a].last < log'[p][i].at
                            /\ Unhandled(q)' /\ inflight'[q].ac = a => tracks'[q][a].last < inflight'[q].at
      BY <2>1 DEF BehindOf
    <3> DEFINE p == PartitionFor[a]
    <3>1. a \in Followed(q) /\ tracks'[q] = tracks[q] /\ p \in Partition
      BY <1>1, <1>4, FollowedIsOwned
    <3>2. PICK i \in DOMAIN log[p] : log[p][i] = [ac |-> a, at |-> tracks[q][a].last]
      BY <1>1, <3>1 DEF PictureOf, BehindOf
    <3>3. i \in DOMAIN log'[p] /\ log'[p][i] = [ac |-> a, at |-> tracks'[q][a].last]
      BY <1>1, <3>1, <3>2, EnvironmentOrder
    <3>4. ASSUME NEW j \in DOMAIN log'[p], j > position[p], log'[p][j].ac = a
          PROVE  tracks'[q][a].last < log'[p][j].at
      <4>1. CASE j \in DOMAIN log[p]
        <5>1. log'[p][j] = log[p][j]
          BY <1>1, <3>1, <4>1, EnvironmentOrder
        <5> QED
          BY <1>1, <3>1, <3>4, <4>1, <5>1 DEF PictureOf, BehindOf
      <4>2. CASE j \notin DOMAIN log[p]
        <5>1. log[p][i].ac = a /\ log[p][i].at = tracks[q][a].last
          BY <3>2
        <5> QED
          BY <1>1, <3>1, <3>4, <4>2, <5>1, EnvironmentOrder
      <4> QED
        BY <4>1, <4>2
    <3>5. Unhandled(q)' /\ inflight'[q].ac = a => tracks'[q][a].last < inflight'[q].at
      BY <1>1, <1>3, <3>1 DEF KeepsHanding, PictureOf, BehindOf
    <3> QED
      BY <3>3, <3>4, <3>5
  <2> QED
    BY <1>3, <2>2, <2>3 DEF Spoken, PictureOf
<1> QED
  BY <1>5, <1>6

\* Nothing is held and nothing shown at the beginning.
LEMMA PictureInit ==
    ASSUME Init
    PROVE  PictureInv
<1>1. PlaceInv
  BY PlaceInit
<1>2. OrderedLog
  BY DEF Init, OrderedLog
<1>3. ASSUME NEW r \in Replica PROVE PictureOf(r)
  <2>1. /\ queue[r] = <<>> /\ changed[r] = <<>> /\ astray[r] = {}
        /\ \A a \in Aircraft : tracks[r][a] = NoTrack
    BY DEF Init
  <2>2. ~Unhandled(r) /\ Followed(r) = {} /\ Told(r) = {}
    BY <2>1 DEF Unhandled, Queued, Range, Followed, Told, Live, Known
  <2> QED
    BY <2>1, <2>2 DEF PictureOf, HandedLast, BehindOf, ChangedOf, CurrentOf, Distinct
<1> QED
  BY <1>1, <1>2, <1>3 DEF PictureInv

\* Every step of a replica, the group and the environment preserves the picture invariant.
LEMMA PictureStep ==
    ASSUME PictureInv, PlaceInv', [Next]_vars
    PROVE  PictureInv'
<1>1. DeliveryInv /\ Inv /\ TypeOK /\ OrderedLog /\ faults' \in Nat
  BY DEF PictureInv, PlaceInv, DeliveryInv, Inv, TypeOK, EnvTypeOK
<1>2. CASE Environment
  BY <1>1, <1>2, EnvironmentOrder, EnvironmentPicture DEF PictureInv
<1>3. ASSUME NEW r \in Replica, ReplicaStep(r) PROVE PictureInv'
  <2>1. Seen(r)
    BY DEF Seen, Placed, Before, PictureInv, PlaceInv, DeliveryInv
  <2>2. OrderedLog'
    <3>1. log' = log /\ now' = now
      BY <1>1, <1>3, StepApart, ClockStays DEF Apart
    <3> QED
      BY <1>1, <3>1 DEF OrderedLog
  <2>3. ASSUME NEW q \in Replica PROVE PictureOf(q)'
    <3>1. CASE q = r
      BY <1>1, <1>3, <2>1, <3>1, OwnPicture
    <3>2. CASE q # r
      BY <1>1, <1>3, <2>1, <3>2, OtherPicture DEF PictureInv
    <3> QED
      BY <3>1, <3>2
  <2> QED
    BY <2>2, <2>3 DEF PictureInv
<1> QED
  BY <1>2, <1>3 DEF Next, Environment, ReplicaStep

\* The picture invariant -- reports come in order, a track is older than those to come,
\* and while nothing fails the live entry of a track agrees with its owner once what
\* the owner has on its way is written -- holds in every reachable state.
THEOREM PictureCorrect == Spec => []PictureInv
<1>1. Init => PictureInv
  BY PictureInit
<1>2. PictureInv /\ PlaceInv' /\ [Next]_vars => PictureInv'
  BY PictureStep
<1> QED
  BY <1>1, <1>2, PlaceCorrect, PTL DEF Spec

\* runner.py's _flush, sweep_now and release_partitions: once its owner has nothing left
\* to write, the live entry of a track is the owner's own, neither older nor removed --
\* unless the aircraft went astray, or the last flush of a replica that was stopping wrote
\* it when the partition was no longer its own.
THEOREM LiveIsCurrentCorrect == Spec => []LiveIsCurrent
<1>1. PictureInv => LiveIsCurrent
  <2> SUFFICES ASSUME PictureInv, NEW a \in Aircraft, NEW r, r = owner[PartitionFor[a]],
                      r # NoReplica, faults = 0, stage[r] = "idle", closing[r] = "no",
                      a \in Live(tracks[r]), \A i \in DOMAIN pending[r] : pending[r][i].ac # a,
                      a \notin strayed, a \notin overwritten
               PROVE  live[a].state = tracks[r][a].state /\ live[a].at >= tracks[r][a].last
    BY DEF LiveIsCurrent
  <2>1. r \in Replica
    BY ServiceAssumption DEF PictureInv, PlaceInv, DeliveryInv, Inv, TypeOK, BrokerTypeOK
  <2>2. a \notin leaving[r]
    BY <2>1 DEF PictureInv, PlaceInv, DeliveryInv, Inv, OwnershipInv, OwnershipOf, ReleaseIsWhole,
       Awaiting
  <2>3. Newest(r, a) = live[a]
    <3>1. a \notin Addressed(pending[r])
      BY AddressedOf
    <3> QED
      BY <2>1, <3>1, QuietNewest, WrittenNone
  <2>4. a \in Told(r)
    BY <2>2 DEF Told
  <2> QED
    BY <2>1, <2>3, <2>4 DEF PictureInv, PictureOf, CurrentOf
<1> QED
  BY <1>1, PictureCorrect, PTL

=============================================================================
