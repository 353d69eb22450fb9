---------------------------- MODULE TrackService ----------------------------
(***************************************************************************)
(* The sharded tracker: replicas of TrackRunner (services/track/runner.py) *)
(* in one Kafka consumer group, the surveillance topic they read, and the  *)
(* three places they write to: the track-update topic, the Postgres        *)
(* history and the Redis live picture.                                     *)
(*                                                                         *)
(* A replica is one event loop with three tasks: the consumer, the sweeper *)
(* and Kafka's rebalance callback.  A task runs alone from one await to    *)
(* the next, so an action here is the code between two awaits, and the     *)
(* asyncio lock is the FIFO queue of the tasks that asked for it: the head *)
(* holds it.  stage[r] names what the holder is awaiting.                  *)
(***************************************************************************)
EXTENDS TrackLifecycle, FiniteSets, SequencesExt

CONSTANTS
    Replica,
    Partition,        \* partitions of the surveillance topic
    PartitionFor,     \* the broker's placement of each aircraft's reports
    NoReplica, NoAircraft,
    BatchSize,        \* updates that force a flush
    MaxTime, MaxReports, MaxRebalances, MaxCrashes, MaxFaults, MaxStops  \* bounds

ASSUME ServiceAssumption ==
    /\ PartitionFor \in [Aircraft -> Partition]
    /\ NoReplica \notin Replica
    /\ IsFiniteSet(Aircraft) /\ NoAircraft \notin Aircraft
    /\ BatchSize \in Nat \ {0}
    /\ MaxTime \in Nat /\ MaxReports \in Nat /\ MaxRebalances \in Nat
    /\ MaxCrashes \in Nat /\ MaxFaults \in Nat /\ MaxStops \in Nat

VARIABLES
    \* the broker
    log,        \* the surveillance topic, one sequence of reports per partition
    committed,  \* the group's committed offsets
    position,   \* the owner's fetch position
    owner,      \* the current assignment
    group,      \* "stable", or "revoking" until every member has rejoined
    joined,     \* members that rejoined and have not learned their assignment yet
    \* one TrackRunner per replica
    tracks,     \* _estimator
    mapped,     \* the domain of _partition_of
    revoked,    \* _revoked
    pending,    \* _pending
    queue,      \* tasks that hold or wait for _lock
    stage,      \* what the holder awaits
    inflight,   \* the report the consumer task is handling
    clock,      \* the time the sweep under way was called with, 0 without one
    outbox,     \* updates the holder has still to publish
    changed,    \* updates the holder adds to _pending once they are published
    batch,      \* updates taken out of _pending by the flush under way
    leaving,    \* addresses the rebalance callback is giving up
    closing,    \* how far run() is in its finally clause, "no" before
    rest,       \* updates run()'s last flush took out of _pending
    \* the stores
    topic,      \* tracks.updates.v1
    history,    \* the (track, observation time) rows of track_points
    live,       \* the Redis entry of each track
    \* the environment
    now, rebalances, crashes, faults, stops,
    \* history variables
    discarded,  \* reports dropped because their partition was revoked
    lost,       \* buffered updates that died with a crash or a failed write
    astray,     \* aircraft a replica holds but can no longer release
    strayed,    \* aircraft that ever went astray
    overwritten \* aircraft a last flush wrote when another replica had the partition

brokerVars == <<log, committed, position, owner, group, joined>>
stateVars  == <<tracks, mapped, revoked>>
flushVars  == <<pending, outbox, changed, batch, leaving>>
taskVars   == <<queue, stage, inflight, clock>>
closeVars  == <<closing, rest, overwritten>>
storeVars  == <<topic, history, live>>
envVars    == <<now, rebalances, crashes, faults, stops>>
ghostVars  == <<discarded, lost, astray, strayed>>

vars == <<brokerVars, stateVars, flushVars, taskVars, closeVars, storeVars, envVars, ghostVars>>

NoReport == [ac |-> NoAircraft, at |-> 0]
NoUpdate == [ac |-> NoAircraft, at |-> 0, state |-> "NONE"]

Task  == {"handle", "sweep", "release", "claim"}
Stage == {"down", "idle", "entered", "publishing", "recording", "showing", "forgetting"}

\* The last flush holds no lock: the callbacks of a rebalance still run beside it.
Closing == {"no", "recording", "showing", "leaving"}

Running(r) == stage[r] # "down"
Members    == {r \in Replica : Running(r)}
Owned(r)   == {p \in Partition : owner[p] = r}

Queued(r, task) == task \in Range(queue[r])
Holds(r, task)  == queue[r] # <<>> /\ Head(queue[r]) = task

\* acquire() on a free lock returns without suspending: the task is "entered",
\* and no other task of the replica runs before it.  Otherwise the task waits,
\* and is handed the lock at some later turn of the event loop.
Acquire(r, task) ==
    /\ queue' = [queue EXCEPT ![r] = Append(@, task)]
    /\ stage' = [stage EXCEPT ![r] = IF queue[r] = <<>> THEN "entered" ELSE @]

Enters(r, task) == stage[r] \in {"idle", "entered"} /\ Holds(r, task)

Awaiting(r) == stage[r] \in {"publishing", "recording", "showing", "forgetting"}

\* The event loop may turn to another task of the replica.
Loops(r) == Running(r) /\ stage[r] # "entered"

\* The consumer and the sweeper have not been stopped.
Works(r) == Loops(r) /\ closing[r] = "no"

\* The first waiter is woken.  After a handler it runs next, because the
\* consumer task goes on to await the broker's answer to its commit.
LeaveLock(r) ==
    /\ queue' = [queue EXCEPT ![r] = Tail(@)]
    /\ stage' = [stage EXCEPT ![r] =
                     IF Holds(r, "handle") /\ Len(queue[r]) > 1 THEN "entered" ELSE "idle"]

Key(update) == [ac |-> update.ac, at |-> update.at]
Keys(updates) == {Key(u) : u \in Range(updates)}

-----------------------------------------------------------------------------
(* The environment: aircraft report, time passes. *)

Reported(p) == Range(log[p])

ReportCount(p) == Len(log[p])

Total == MapThenSumSet(ReportCount, Partition)

\* The feed emits one report per aircraft and instant, keyed by its address.
Produce(a) ==
    LET report == [ac |-> a, at |-> now]
        p      == PartitionFor[a]
    IN  /\ Total < MaxReports
        /\ report \notin Reported(p)
        /\ log' = [log EXCEPT ![p] = Append(@, report)]
        /\ UNCHANGED <<committed, position, owner, group, joined>>
        /\ UNCHANGED <<stateVars, flushVars, taskVars, storeVars, closeVars, envVars, ghostVars>>

Tick ==
    /\ now < MaxTime
    /\ now' = now + 1
    /\ UNCHANGED <<rebalances, crashes, faults, stops>>
    /\ UNCHANGED <<brokerVars, stateVars, flushVars, taskVars, storeVars, closeVars, ghostVars>>

-----------------------------------------------------------------------------
(* _flush and what its callers do after it. *)

\* What a flush may put into the live picture (exclude_from_live).
ShowableAll(r) == DOMAIN batch[r]
Showable(r) == {i \in DOMAIN batch[r] : batch[r][i].ac \notin leaving[r]}

\* Later updates of a batch overwrite earlier ones.
WrittenUnlessKnown(old, updates, a) ==
    LET mine == {i \in DOMAIN updates : updates[i].ac = a}
    IN  IF old = NoUpdate /\ mine # {} THEN updates[CHOOSE i \in mine : TRUE] ELSE old
Written(old, updates, a) ==
    LET mine == {i \in DOMAIN updates : updates[i].ac = a}
    IN  IF \E i \in mine : \A j \in mine : j <= i
        THEN updates[CHOOSE i \in mine : \A j \in mine : j <= i]
        ELSE old

StartFlushNewest(r, updates) ==
    /\ pending' = [pending EXCEPT ![r] = <<>>]
    /\ batch' = [batch EXCEPT ![r] = changed[r]]
    /\ stage' = [stage EXCEPT ![r] = "recording"]

StartFlush(r, updates) ==
    /\ pending' = [pending EXCEPT ![r] = <<>>]
    /\ batch' = [batch EXCEPT ![r] = updates]
    /\ stage' = [stage EXCEPT ![r] = "recording"]

\* Nobody will tell the replica to give these up.
Stray(r, addresses) ==
    /\ astray' = [astray EXCEPT ![r] = @ \cup addresses]
    /\ strayed' = strayed \cup addresses

\* _forget_pruned, the end of a sweep.  It also drops the map entry of an
\* aircraft whose first report is still waiting for the lock: that aircraft
\* goes astray.
ForgetPruned(r) ==
    LET kept  == Pruned(tracks[r], clock[r])
        stray == {a \in Aircraft :
                     /\ Queued(r, "handle")
                     /\ a = inflight[r].ac
                     /\ kept[a] = NoTrack}
    IN  /\ tracks' = [tracks EXCEPT ![r] = kept]
        /\ mapped' = [mapped EXCEPT ![r] = @ \cap Known(kept)]
        /\ clock' = [clock EXCEPT ![r] = 0]
        /\ Stray(r, stray)

Departed(updates) == {u.ac : u \in {v \in Range(updates) : v.state = "TERMINATED"}}

FinishHandle(r) ==
    /\ Holds(r, "handle")
    /\ LeaveLock(r)
    /\ changed' = [changed EXCEPT ![r] = <<>>]
    /\ UNCHANGED <<tracks, mapped, clock, astray, strayed, leaving, joined>>

FinishSweep(r) ==
    /\ Holds(r, "sweep")
    /\ UNCHANGED <<leaving, joined>>
    /\ IF Departed(changed[r]) # {}
       THEN /\ stage' = [stage EXCEPT ![r] = "forgetting"]
            /\ UNCHANGED <<queue, changed, tracks, mapped, clock, astray, strayed>>
       ELSE /\ LeaveLock(r)
            /\ changed' = [changed EXCEPT ![r] = <<>>]
            /\ ForgetPruned(r)

\* The aircraft are dropped without a word, and the callback is over.
DropMapOnly(r, addresses) ==
    /\ UNCHANGED tracks
    /\ mapped' = [mapped EXCEPT ![r] = @ \ addresses]
    /\ joined' = joined \cup {r}
Drop(r, addresses) ==
    /\ tracks' = [tracks EXCEPT ![r] = Released(@, addresses)]
    /\ mapped' = [mapped EXCEPT ![r] = @ \ addresses]
    /\ joined' = joined \cup {r}

FinishRelease(r) ==
    /\ Holds(r, "release")
    /\ LeaveLock(r)
    /\ Drop(r, leaving[r])
    /\ leaving' = [leaving EXCEPT ![r] = {}]
    /\ UNCHANGED <<changed, clock, astray, strayed>>

FinishFlush(r) ==
    /\ batch' = [batch EXCEPT ![r] = <<>>]
    /\ FinishHandle(r) \/ FinishSweep(r) \/ FinishRelease(r)

Record(r) ==
    /\ stage[r] = "recording"
    /\ history' = history \cup Keys(batch[r])
    /\ IF Showable(r) # {}
       THEN /\ stage' = [stage EXCEPT ![r] = "showing"]
            /\ UNCHANGED <<batch, queue, changed, leaving, joined>>
            /\ UNCHANGED <<tracks, mapped, clock, astray, strayed>>
       ELSE FinishFlush(r)
    /\ UNCHANGED <<log, committed, position, owner, group>>
    /\ UNCHANGED <<revoked, pending, outbox, inflight, topic, live, discarded, lost>>
    /\ UNCHANGED <<closeVars, envVars>>

Show(r) ==
    /\ stage[r] = "showing"
    /\ live' = [a \in Aircraft |->
                   IF a \in leaving[r] THEN live[a]
                   ELSE Written(live[a], batch[r], a)]
    /\ FinishFlush(r)
    /\ UNCHANGED <<log, committed, position, owner, group>>
    /\ UNCHANGED <<revoked, pending, outbox, inflight, topic, history, discarded, lost>>
    /\ UNCHANGED <<closeVars, envVars>>

-----------------------------------------------------------------------------
(* The consumer task: stream() and _handle. *)

\* run() notes the partition before it asks for the lock.  That brings back an
\* aircraft that went astray, unless the callback has already made its list.
NoteNothing(r, report) == UNCHANGED <<mapped, astray>>
Note(r, report) ==
    /\ mapped' = [mapped EXCEPT ![r] = @ \cup {report.ac}]
    /\ astray' = [astray EXCEPT ![r] =
                      IF PartitionFor[report.ac] \in revoked[r] THEN @ ELSE @ \ {report.ac}]

\* A message is handed out without committing it.
HandOutCommitted(p) ==
    /\ position' = [position EXCEPT ![p] = @ + 1]
    /\ committed' = [committed EXCEPT ![p] = position[p] + 1]
HandOut(p) ==
    /\ position' = [position EXCEPT ![p] = @ + 1]
    /\ UNCHANGED committed

Receive(r, p) ==
    /\ Works(r) /\ owner[p] = r
    /\ r \notin joined /\ ~Queued(r, "claim")
    /\ inflight[r] = NoReport
    /\ position[p] < Len(log[p])
    /\ LET report == log[p][position[p] + 1]
       IN  /\ inflight' = [inflight EXCEPT ![r] = report]
           /\ Note(r, report)
    /\ HandOut(p)
    /\ Acquire(r, "handle")
    /\ UNCHANGED <<log, owner, group, joined, tracks, revoked, clock>>
    /\ UNCHANGED <<discarded, lost, strayed>>
    /\ UNCHANGED <<flushVars, storeVars, closeVars, envVars>>

DiscardReport(r) ==
    /\ Enters(r, "handle")
    /\ PartitionFor[inflight[r].ac] \in revoked[r]
    /\ discarded' = discarded \cup {inflight[r]}
    /\ LeaveLock(r)
    /\ UNCHANGED <<inflight, clock, lost, astray, strayed>>
    /\ UNCHANGED <<brokerVars, stateVars, flushVars, storeVars, closeVars, envVars>>

HandleReport(r) ==
    /\ Enters(r, "handle")
    /\ PartitionFor[inflight[r].ac] \notin revoked[r]
    /\ LET folded == OnReport(tracks[r], inflight[r])
           update == ToUpdate(folded, inflight[r].ac, inflight[r].at)
       IN  /\ tracks' = [tracks EXCEPT ![r] = folded]
           /\ outbox' = [outbox EXCEPT ![r] = <<update>>]
           /\ changed' = [changed EXCEPT ![r] = <<update>>]
    /\ stage' = [stage EXCEPT ![r] = "publishing"]
    /\ UNCHANGED <<mapped, revoked, pending, batch, leaving, queue, inflight, clock>>
    /\ UNCHANGED <<brokerVars, storeVars, closeVars, envVars, ghostVars>>

\* After the last publish the updates are buffered; a handler flushes when the
\* buffer is full or the flush interval is over, a sweep always.  The interval
\* is real time, so it may be over at any handling.
BufferChanged(r) ==
    LET buffered == pending[r] \o changed[r]
    IN  \/ /\ StartFlush(r, buffered)
           /\ UNCHANGED <<queue, changed>>
        \/ /\ Holds(r, "handle") /\ Len(buffered) < BatchSize
           /\ pending' = [pending EXCEPT ![r] = buffered]
           /\ changed' = [changed EXCEPT ![r] = <<>>]
           /\ LeaveLock(r)
           /\ UNCHANGED batch

Publish(r) ==
    /\ stage[r] = "publishing" /\ outbox[r] # <<>>
    /\ topic' = topic \cup {Head(outbox[r])}
    /\ outbox' = [outbox EXCEPT ![r] = Tail(@)]
    /\ IF Len(outbox[r]) = 1
       THEN BufferChanged(r)
       ELSE UNCHANGED <<stage, queue, changed, pending, batch>>
    /\ UNCHANGED <<leaving, inflight, clock, history, live>>
    /\ UNCHANGED <<brokerVars, stateVars, closeVars, envVars, ghostVars>>

\* commit() names no offset: it commits what was handed out of every partition
\* assigned at the time, whatever became of it.
Commit(r) ==
    /\ Works(r) /\ ~(group = "stable" /\ r \in joined)
    /\ inflight[r] # NoReport /\ ~Queued(r, "handle")
    /\ committed' = [p \in Partition |->
                        IF owner[p] = r THEN position[p] ELSE committed[p]]
    /\ inflight' = [inflight EXCEPT ![r] = NoReport]
    /\ UNCHANGED <<log, position, owner, group, joined, queue, stage, clock>>
    /\ UNCHANGED <<stateVars, flushVars, storeVars, closeVars, envVars, ghostVars>>

-----------------------------------------------------------------------------
(* The sweeper task: _sweep_forever and sweep_now. *)

\* The clock is read before the lock is asked for.
SweepTimer(r) ==
    /\ Works(r) /\ ~Queued(r, "sweep")
    /\ clock' = [clock EXCEPT ![r] = now]
    /\ Acquire(r, "sweep")
    /\ UNCHANGED inflight
    /\ UNCHANGED <<brokerVars, stateVars, flushVars, storeVars, closeVars, envVars, ghostVars>>

SweepNothingKeepsLock(r) ==
    /\ Enters(r, "sweep")
    /\ Changing(tracks[r], clock[r]) = {}
    /\ stage' = [stage EXCEPT ![r] = "publishing"] /\ UNCHANGED queue
    /\ ForgetPruned(r)
    /\ UNCHANGED <<revoked, inflight, discarded, lost>>
    /\ UNCHANGED <<brokerVars, flushVars, storeVars, closeVars, envVars>>

SweepNothing(r) ==
    /\ Enters(r, "sweep")
    /\ Changing(tracks[r], clock[r]) = {}
    /\ LeaveLock(r)
    /\ ForgetPruned(r)
    /\ UNCHANGED <<revoked, inflight, discarded, lost>>
    /\ UNCHANGED <<brokerVars, flushVars, storeVars, closeVars, envVars>>

\* The records are published in the order of the dict, here any order.
SweepChanged(r) ==
    /\ Enters(r, "sweep")
    /\ Changing(tracks[r], clock[r]) # {}
    /\ LET swept == Swept(tracks[r], clock[r])
       IN  /\ tracks' = [tracks EXCEPT ![r] = swept]
           /\ \E order \in SetToSeqs(Changing(tracks[r], clock[r])) :
                 LET updates == [i \in DOMAIN order |-> ToUpdate(swept, order[i], clock[r])]
                 IN  /\ outbox' = [outbox EXCEPT ![r] = updates]
                     /\ changed' = [changed EXCEPT ![r] = updates]
    /\ stage' = [stage EXCEPT ![r] = "publishing"]
    /\ UNCHANGED <<mapped, revoked, pending, batch, leaving, queue, inflight, clock>>
    /\ UNCHANGED <<brokerVars, storeVars, closeVars, envVars, ghostVars>>

ForgetTerminated(r) ==
    /\ stage[r] = "forgetting" /\ Holds(r, "sweep")
    /\ live' = [a \in Aircraft |->
                   IF a \in Departed(changed[r]) THEN NoUpdate ELSE live[a]]
    /\ changed' = [changed EXCEPT ![r] = <<>>]
    /\ LeaveLock(r)
    /\ ForgetPruned(r)
    /\ UNCHANGED <<revoked, pending, outbox, batch, leaving, inflight>>
    /\ UNCHANGED <<topic, history, discarded, lost>>
    /\ UNCHANGED <<brokerVars, closeVars, envVars>>

-----------------------------------------------------------------------------
(* The rebalance: the broker's side, release_partitions, claim_partitions. *)

\* Bounded, except that a partition without an owner always gets one.
StartRebalance ==
    /\ group = "stable" /\ joined = {} /\ Members # {}
    /\ rebalances < MaxRebalances \/ \E p \in Partition : owner[p] = NoReplica
    /\ group' = "revoking"
    /\ rebalances' = IF rebalances < MaxRebalances THEN rebalances + 1 ELSE rebalances
    /\ UNCHANGED <<log, committed, position, owner, joined, now, crashes, faults, stops>>
    /\ UNCHANGED <<stateVars, flushVars, taskVars, storeVars, closeVars, ghostVars>>

\* A member learns of the rebalance.  The callback is skipped when it owned
\* nothing (_RebalanceListener).
Rejoin(r) ==
    /\ group = "revoking" /\ Loops(r) /\ r \notin joined
    /\ ~Queued(r, "release") /\ ~Queued(r, "claim")
    /\ IF Owned(r) = {}
       THEN joined' = joined \cup {r} /\ UNCHANGED <<queue, stage>>
       ELSE Acquire(r, "release") /\ UNCHANGED joined
    /\ UNCHANGED <<log, committed, position, owner, group, inflight, clock>>
    /\ UNCHANGED <<stateVars, flushVars, storeVars, closeVars, envVars, ghostVars>>

\* release_partitions adds what it gives up to _revoked, claim_partitions takes
\* out what is assigned.
RevokeNothing(r) == UNCHANGED revoked
Revoke(r) == revoked' = [revoked EXCEPT ![r] = @ \cup Owned(r)]
Reclaim(r) == revoked' = [revoked EXCEPT ![r] = @ \ Owned(r)]

ReleasePartitions(r) ==
    LET addresses == {a \in mapped[r] : PartitionFor[a] \in Owned(r)}
    IN  /\ Enters(r, "release")
        /\ Revoke(r)
        /\ IF pending[r] = <<>>
           THEN /\ LeaveLock(r)
                /\ Drop(r, addresses)
                /\ UNCHANGED <<pending, batch, leaving>>
           ELSE /\ StartFlush(r, pending[r])
                /\ leaving' = [leaving EXCEPT ![r] = addresses]
                /\ UNCHANGED <<queue, tracks, mapped, joined>>
        /\ UNCHANGED <<log, committed, position, owner, group, outbox, changed, inflight, clock>>
        /\ UNCHANGED <<storeVars, closeVars, envVars, ghostVars>>

\* Every member has rejoined: a new assignment, read from the committed offsets.
Assign(newOwner) ==
    /\ group = "revoking" /\ Members # {} /\ Members \subseteq joined
    /\ owner' = newOwner
    /\ position' = committed
    /\ group' = "stable"
    /\ UNCHANGED <<log, committed, joined>>
    /\ UNCHANGED <<stateVars, flushVars, taskVars, storeVars, closeVars, envVars, ghostVars>>

\* A member learns its assignment; the callback is skipped when it is empty.
Learn(r) ==
    /\ group = "stable" /\ r \in joined /\ Loops(r)
    /\ joined' = joined \ {r}
    /\ IF Owned(r) = {} THEN UNCHANGED <<queue, stage>> ELSE Acquire(r, "claim")
    /\ UNCHANGED <<log, committed, position, owner, group, inflight, clock>>
    /\ UNCHANGED <<stateVars, flushVars, storeVars, closeVars, envVars, ghostVars>>

ClaimPartitions(r) ==
    /\ Enters(r, "claim")
    /\ Reclaim(r)
    /\ LeaveLock(r)
    /\ UNCHANGED <<tracks, mapped, inflight, clock>>
    /\ UNCHANGED <<brokerVars, flushVars, storeVars, closeVars, envVars, ghostVars>>

-----------------------------------------------------------------------------
(* Failures, shutdown, crash, start. *)

\* What the replica remembers is gone.
Wipe(r) ==
    /\ tracks' = [tracks EXCEPT ![r] = [a \in Aircraft |-> NoTrack]]
    /\ mapped' = [mapped EXCEPT ![r] = {}]
    /\ revoked' = [revoked EXCEPT ![r] = {}]
    /\ pending' = [pending EXCEPT ![r] = <<>>]
    /\ queue' = [queue EXCEPT ![r] = <<>>]
    /\ inflight' = [inflight EXCEPT ![r] = NoReport]
    /\ clock' = [clock EXCEPT ![r] = 0]
    /\ outbox' = [outbox EXCEPT ![r] = <<>>]
    /\ changed' = [changed EXCEPT ![r] = <<>>]
    /\ batch' = [batch EXCEPT ![r] = <<>>]
    /\ leaving' = [leaving EXCEPT ![r] = {}]
    /\ rest' = [rest EXCEPT ![r] = <<>>]
    /\ astray' = [astray EXCEPT ![r] = {}]
    /\ UNCHANGED <<strayed, overwritten>>

\* The replica leaves the group; its partitions wait for the next rebalance.
Depart(r) ==
    /\ Wipe(r)
    /\ stage' = [stage EXCEPT ![r] = "down"]
    /\ closing' = [closing EXCEPT ![r] = "no"]
    /\ owner' = [p \in Partition |-> IF owner[p] = r THEN NoReplica ELSE owner[p]]
    /\ joined' = joined \ {r}
    /\ UNCHANGED <<log, committed, position, group, storeVars, discarded>>

\* What the holder of the lock, and the last flush, have not recorded yet.
Unrecorded(r) ==
    IF stage[r] \in {"publishing", "recording"} THEN Keys(batch[r]) \cup Keys(changed[r]) ELSE {}
Unsaved(r) == IF closing[r] = "recording" THEN Keys(rest[r]) ELSE {}

\* A callback waits for the lock or holds it; there is one at most.
Callbacks(r) ==
    CASE Queued(r, "release") -> <<"release">>
      [] Queued(r, "claim")   -> <<"claim">>
      [] OTHER                -> <<>>

\* run() is left: the consumer and the sweeper end wherever they are, and a flush
\* of theirs is not resumed.  What is in the buffer becomes the last flush.  The
\* callback belongs to Kafka's client: it goes on, and so does its flush.
Exit(r) ==
    LET releases == Awaiting(r) /\ Holds(r, "release")
    IN  /\ queue' = [queue EXCEPT ![r] = Callbacks(r)]
        /\ stage' = [stage EXCEPT ![r] = IF releases THEN @ ELSE "idle"]
        /\ batch' = [batch EXCEPT ![r] = IF releases THEN @ ELSE <<>>]
        /\ lost' = IF releases THEN lost ELSE lost \cup Unrecorded(r)
        /\ outbox' = [outbox EXCEPT ![r] = <<>>]
        /\ changed' = [changed EXCEPT ![r] = <<>>]
        /\ inflight' = [inflight EXCEPT ![r] = NoReport]
        /\ clock' = [clock EXCEPT ![r] = 0]
        /\ pending' = [pending EXCEPT ![r] = <<>>]
        /\ rest' = [rest EXCEPT ![r] = pending[r]]
        /\ closing' = [closing EXCEPT ![r] = IF pending[r] = <<>> THEN "leaving" ELSE "recording"]
        /\ UNCHANGED <<leaving, discarded, astray, strayed, overwritten>>
        /\ UNCHANGED <<brokerVars, stateVars, storeVars>>

\* Cancellation reaches the consumer wherever it is waiting.
Stop(r) ==
    /\ Works(r) /\ stops < MaxStops
    /\ stops' = stops + 1
    /\ Exit(r)
    /\ UNCHANGED <<now, rebalances, crashes, faults>>

LastRecord(r) ==
    /\ Loops(r) /\ closing[r] = "recording"
    /\ history' = history \cup Keys(rest[r])
    /\ closing' = [closing EXCEPT ![r] = "showing"]
    /\ UNCHANGED <<rest, overwritten, topic, live>>
    /\ UNCHANGED <<brokerVars, stateVars, flushVars, taskVars, envVars, ghostVars>>

\* Nothing is left out of the live picture, whatever was revoked meanwhile.
LastShow(r) ==
    /\ Loops(r) /\ closing[r] = "showing"
    /\ live' = [a \in Aircraft |-> Written(live[a], rest[r], a)]
    /\ overwritten' = overwritten
           \cup {a \in {key.ac : key \in Keys(rest[r])} : owner[PartitionFor[a]] # r}
    /\ rest' = [rest EXCEPT ![r] = <<>>]
    /\ closing' = [closing EXCEPT ![r] = "leaving"]
    /\ UNCHANGED <<topic, history>>
    /\ UNCHANGED <<brokerVars, stateVars, flushVars, taskVars, envVars, ghostVars>>

\* The client waits for its callback to end before it leaves the group.
Leave(r) ==
    /\ Loops(r) /\ closing[r] = "leaving" /\ queue[r] = <<>>
    /\ Depart(r)
    /\ UNCHANGED <<lost, envVars>>

Crash(r) ==
    /\ Running(r) /\ crashes < MaxCrashes
    /\ crashes' = crashes + 1
    /\ lost' = lost \cup Unrecorded(r) \cup Unsaved(r) \cup Keys(pending[r])
    /\ Depart(r)
    /\ UNCHANGED <<now, rebalances, faults, stops>>

Start(r) ==
    /\ stage[r] = "down"
    /\ stage' = [stage EXCEPT ![r] = "idle"]
    /\ UNCHANGED <<queue, inflight, clock>>
    /\ UNCHANGED <<brokerVars, stateVars, flushVars, storeVars, closeVars, envVars, ghostVars>>

Fault ==
    /\ faults < MaxFaults
    /\ faults' = faults + 1
    /\ UNCHANGED <<now, rebalances, crashes, stops>>

\* The operation a handler awaits raises: the consumer task ends.
HandlerFails(r) ==
    /\ Fault /\ Awaiting(r) /\ Holds(r, "handle")
    /\ Exit(r)

\* The sweeper catches whatever its sweep raises and waits for the next period.
SweepFails(r) ==
    /\ Fault /\ Awaiting(r) /\ Holds(r, "sweep")
    /\ LeaveLock(r)
    /\ outbox' = [outbox EXCEPT ![r] = <<>>]
    /\ changed' = [changed EXCEPT ![r] = <<>>]
    /\ batch' = [batch EXCEPT ![r] = <<>>]
    /\ lost' = lost \cup Unrecorded(r)
    /\ clock' = [clock EXCEPT ![r] = 0]
    /\ UNCHANGED <<pending, leaving, inflight, discarded, astray, strayed>>
    /\ UNCHANGED <<brokerVars, stateVars, storeVars, closeVars>>

\* The callback raises out of its flush, before it has dropped anything; the
\* client logs that and rejoins.
ReleaseFails(r) ==
    /\ Fault /\ Awaiting(r) /\ Holds(r, "release")
    /\ LeaveLock(r)
    /\ joined' = joined \cup {r}
    /\ batch' = [batch EXCEPT ![r] = <<>>]
    /\ leaving' = [leaving EXCEPT ![r] = {}]
    /\ lost' = lost \cup Unrecorded(r)
    /\ Stray(r, leaving[r])
    /\ UNCHANGED <<log, committed, position, owner, group>>
    /\ UNCHANGED <<pending, outbox, changed, inflight, clock, discarded>>
    /\ UNCHANGED <<stateVars, storeVars, closeVars>>

\* The broker refuses the commit of a member that is out of the generation.
CommitFails(r) ==
    /\ Fault /\ Works(r) /\ r \in joined
    /\ inflight[r] # NoReport /\ ~Queued(r, "handle")
    /\ Exit(r)

\* The client and the group are left all the same.
LastFlushFails(r) ==
    /\ Fault /\ Loops(r) /\ closing[r] \in {"recording", "showing"}
    /\ closing' = [closing EXCEPT ![r] = "leaving"]
    /\ rest' = [rest EXCEPT ![r] = <<>>]
    /\ lost' = lost \cup Unsaved(r)
    /\ UNCHANGED <<overwritten, discarded, astray, strayed>>
    /\ UNCHANGED <<brokerVars, stateVars, flushVars, taskVars, storeVars>>

-----------------------------------------------------------------------------

Init ==
    /\ log = [p \in Partition |-> <<>>]
    /\ committed = [p \in Partition |-> 0]
    /\ position = [p \in Partition |-> 0]
    /\ stage \in [Replica -> {"down", "idle"}]
    /\ owner \in [Partition -> Replica] /\ \A p \in Partition : stage[owner[p]] = "idle"
    /\ group = "stable" /\ joined = {}
    /\ tracks = [r \in Replica |-> [a \in Aircraft |-> NoTrack]]
    /\ mapped = [r \in Replica |-> {}]
    /\ revoked = [r \in Replica |-> {}]
    /\ pending = [r \in Replica |-> <<>>]
    /\ queue = [r \in Replica |-> <<>>]
    /\ inflight = [r \in Replica |-> NoReport]
    /\ clock = [r \in Replica |-> 0]
    /\ outbox = [r \in Replica |-> <<>>]
    /\ changed = [r \in Replica |-> <<>>]
    /\ batch = [r \in Replica |-> <<>>]
    /\ leaving = [r \in Replica |-> {}]
    /\ closing = [r \in Replica |-> "no"]
    /\ rest = [r \in Replica |-> <<>>]
    /\ topic = {} /\ history = {}
    /\ live = [a \in Aircraft |-> NoUpdate]
    /\ now = 0 /\ rebalances = 0 /\ crashes = 0 /\ faults = 0 /\ stops = 0
    /\ discarded = {} /\ lost = {}
    /\ astray = [r \in Replica |-> {}]
    /\ strayed = {} /\ overwritten = {}

Consume(r) ==
    \/ \E p \in Partition : Receive(r, p)
    \/ DiscardReport(r) \/ HandleReport(r) \/ Commit(r)

\* What the holder of the lock does once its await is over.
Proceed(r) == Publish(r) \/ Record(r) \/ Show(r) \/ ForgetTerminated(r)

SweepStep(r) == SweepTimer(r) \/ SweepNothing(r) \/ SweepChanged(r)

RebalanceStep(r) == Rejoin(r) \/ ReleasePartitions(r) \/ Learn(r) \/ ClaimPartitions(r)

Close(r) == LastRecord(r) \/ LastShow(r) \/ Leave(r)

Fail(r) == HandlerFails(r) \/ SweepFails(r) \/ ReleaseFails(r) \/ CommitFails(r) \/ LastFlushFails(r)

AssignAny == \E newOwner \in [Partition -> Members] : Assign(newOwner)

Next ==
    \/ \E a \in Aircraft : Produce(a)
    \/ Tick
    \/ StartRebalance \/ AssignAny
    \/ \E r \in Replica :
          \/ Consume(r) \/ Proceed(r) \/ SweepStep(r) \/ RebalanceStep(r)
          \/ Close(r) \/ Stop(r) \/ Crash(r) \/ Start(r) \/ Fail(r)

Spec == Init /\ [][Next]_vars

\* The ready queue of the event loop is FIFO: a task that keeps becoming ready
\* runs, even when another one runs in between (strong fairness of the consumer
\* and of the callback).  The broker completes the rebalance it began and
\* replaces an owner that left, and an orchestrator restarts what went down.
Fairness ==
    /\ WF_vars(StartRebalance /\ \E p \in Partition : owner[p] = NoReplica)
    /\ WF_vars(AssignAny) /\ WF_vars(Tick)
    /\ \A r \in Replica :
          /\ SF_vars(Consume(r)) /\ SF_vars(RebalanceStep(r))
          /\ WF_vars(Proceed(r)) /\ WF_vars(SweepStep(r)) /\ WF_vars(Close(r)) /\ WF_vars(Start(r))

FairSpec == Spec /\ Fairness

-----------------------------------------------------------------------------

BrokerTypeOK ==
    /\ log \in [Partition -> Seq(Report)]
    /\ committed \in [Partition -> Nat]
    /\ position \in [Partition -> Nat]
    /\ owner \in [Partition -> Replica \cup {NoReplica}]
    /\ group \in {"stable", "revoking"}
    /\ joined \subseteq Replica

StateTypeOK ==
    /\ tracks \in [Replica -> Tracks]
    /\ mapped \in [Replica -> SUBSET Aircraft]
    /\ revoked \in [Replica -> SUBSET Partition]
    /\ leaving \in [Replica -> SUBSET Aircraft]
    /\ astray \in [Replica -> SUBSET Aircraft] /\ strayed \subseteq Aircraft

TaskTypeOK ==
    /\ queue \in [Replica -> Seq(Task)]
    /\ stage \in [Replica -> Stage]
    /\ inflight \in [Replica -> Report \cup {NoReport}]
    /\ clock \in [Replica -> Nat]

FlushTypeOK ==
    /\ pending \in [Replica -> Seq(TrackUpdate)]
    /\ outbox \in [Replica -> Seq(TrackUpdate)]
    /\ changed \in [Replica -> Seq(TrackUpdate)]
    /\ batch \in [Replica -> Seq(TrackUpdate)]

CloseTypeOK ==
    /\ closing \in [Replica -> Closing]
    /\ rest \in [Replica -> Seq(TrackUpdate)]
    /\ overwritten \subseteq Aircraft

StoreTypeOK ==
    /\ topic \subseteq TrackUpdate
    /\ history \subseteq Report
    /\ live \in [Aircraft -> TrackUpdate \cup {NoUpdate}]
    /\ discarded \subseteq Report
    /\ lost \subseteq Report

EnvTypeOK ==
    /\ now \in Nat /\ rebalances \in Nat
    /\ crashes \in Nat /\ faults \in Nat /\ stops \in Nat

TypeOK ==
    /\ BrokerTypeOK /\ StateTypeOK /\ TaskTypeOK /\ FlushTypeOK
    /\ CloseTypeOK /\ StoreTypeOK /\ EnvTypeOK

\* ADR 0011: a track is held by the replica that owns its partition and by no
\* other, through every rebalance, crash and shutdown -- unless the aircraft
\* went astray: its map entry was pruned, or the release of it failed.
SoleOwner ==
    \A r \in Replica, a \in Aircraft :
        tracks[r][a] # NoTrack /\ a \notin astray[r] => owner[PartitionFor[a]] = r

\* The tasks queue at most once each, and a handler never waits behind the
\* assignment callback: its partition was judged under the old assignment.
WellQueued(tasks) ==
    /\ \A i, j \in DOMAIN tasks : i # j => tasks[i] # tasks[j]
    /\ \A i, j \in DOMAIN tasks : i < j /\ tasks[i] = "claim" => tasks[j] # "handle"

Held(r) == {a \in Aircraft : tracks[r][a] # NoTrack /\ a \notin astray[r]}

\* Why SoleOwner holds, as an inductive invariant of five parts per replica.
\* Memory goes with the group membership.
NothingOutside(r) ==
    ~Running(r) => /\ queue[r] = <<>> /\ leaving[r] = {}
                   /\ \A a \in Aircraft : tracks[r][a] = NoTrack

\* A held track is mapped, owned, and either not revoked or about to be dropped.
HeldIsOwned(r) ==
    \A a \in Held(r) :
        /\ a \in mapped[r] /\ owner[PartitionFor[a]] = r
        /\ PartitionFor[a] \in revoked[r] => a \in leaving[r]

\* A member that rejoined holds nothing, and is in no callback.
RejoinedIsEmpty(r) ==
    r \in joined => Held(r) = {} /\ ~Queued(r, "claim") /\ ~Queued(r, "release")

\* A report that waits for the lock is of a partition owned, or else revoked.
WaitingIsOwned(r) ==
    Queued(r, "handle") =>
        /\ inflight[r] # NoReport
        /\ PartitionFor[inflight[r].ac] \in revoked[r]
           \/ /\ inflight[r].ac \in mapped[r] \cup astray[r]
              /\ owner[PartitionFor[inflight[r].ac]] = r
              /\ r \notin joined

\* The callbacks do not overlap, and the one that releases has revoked all.
ReleaseIsWhole(r) ==
    /\ Queued(r, "release") => ~Queued(r, "claim")
    /\ Awaiting(r) /\ Holds(r, "release") => Owned(r) \subseteq revoked[r]
    /\ leaving[r] # {} => Awaiting(r) /\ Holds(r, "release")
    /\ \A a \in leaving[r] : PartitionFor[a] \in revoked[r]

OwnershipOf(r) ==
    /\ WellQueued(queue[r])
    /\ NothingOutside(r) /\ HeldIsOwned(r) /\ RejoinedIsEmpty(r)
    /\ WaitingIsOwned(r) /\ ReleaseIsWhole(r)

OwnershipInv == \A r \in Replica : OwnershipOf(r)

\* A flush under the lock never writes into the live picture an aircraft whose
\* partition has been taken from the replica -- unless the aircraft went astray, or
\* its track had been pruned with an update still in the buffer, which takes a
\* failed sweep.
ReleasedNotShown ==
    \A r \in Replica :
        stage[r] = "showing" =>
            \A i \in Showable(r) :
                LET a == batch[r][i].ac
                IN  \/ PartitionFor[a] \notin revoked[r]
                    \/ a \in astray[r]
                    \/ faults > 0 /\ tracks[r][a] = NoTrack

\* A partition given (back) to a replica is not in its discard set: once the
\* assignment callback is over its reports are processed.
OwnerListens ==
    \A p \in Partition :
        /\ owner[p] # NoReplica /\ group = "stable"
        /\ owner[p] \notin joined /\ ~Queued(owner[p], "claim")
        => p \notin revoked[owner[p]]

CommittedReports == UNION {{log[p][i] : i \in 1..committed[p]} : p \in Partition}

\* At-least-once: an offset is committed only after its report's update is on
\* the update topic, or the report was discarded.
CommittedIsPublished ==
    \A report \in CommittedReports :
        report \in discarded \/ \E u \in topic : Key(u) = report

Buffered ==
    UNION {Keys(pending[r]) \cup Keys(batch[r]) \cup Keys(changed[r]) \cup Keys(rest[r]) :
               r \in Replica}

\* Every committed report is in the history or on its way there, or is one of
\* the reports discarded, or died in a buffer with a crash, a failed write or
\* an interrupted flush: nothing else loses a track point.
CommittedIsRecordedOrLost ==
    CommittedReports \subseteq history \cup Buffered \cup discarded \cup lost

\* Once its owner has nothing left to write, a live track's entry in the shared
\* picture is the owner's own, neither older nor removed by anybody else -- unless
\* the aircraft went astray, or the last flush of a replica that was stopping wrote
\* it when the partition was another's.
LiveIsCurrent ==
    \A a \in Aircraft :
        LET r == owner[PartitionFor[a]]
        IN  /\ r # NoReplica /\ faults = 0
            /\ stage[r] = "idle" /\ closing[r] = "no" /\ a \in Live(tracks[r])
            /\ \A i \in DOMAIN pending[r] : pending[r][i].ac # a
            /\ a \notin strayed /\ a \notin overwritten
            => live[a].state = tracks[r][a].state /\ live[a].at >= tracks[r][a].last

\* Every report fed to the topic is eventually handled by some replica: its
\* update is published, or it was discarded.
EveryReportHandled ==
    \A p \in Partition :
        [](Len(log[p]) > 0 =>
              <>(\A report \in Range(log[p]) :
                    report \in discarded \/ \E u \in topic : Key(u) = report))

\* A rebalance that was started is completed.
RebalanceCompletes == (group = "revoking") ~> (group = "stable")

-----------------------------------------------------------------------------
(* What the documentation says and the code does not keep. *)

\* runner.py 276-279: after a revocation a replica is no longer entitled to write
\* what it has buffered of those aircraft into the live picture.
RevokedNotOverwritten ==
    \A r \in Replica :
        closing[r] = "showing" =>
            \A i \in DOMAIN rest[r] : PartitionFor[rest[r][i].ac] \notin revoked[r]

\* ADR 0011: zero is the correct number of TERMINATED messages to publish for
\* an aircraft whose partition went to another replica.
RevokedNotTerminated ==
    \A r \in Replica : \A i \in DOMAIN outbox[r] :
        outbox[r][i].state = "TERMINATED"
            => PartitionFor[outbox[r][i].ac] \notin revoked[r]

=============================================================================
