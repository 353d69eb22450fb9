--------------------------- MODULE TrackLifecycle ---------------------------
(***************************************************************************)
(* The lifecycle part of the tracker's estimator                           *)
(* (services/track/estimator.py) as operators: what one report, one sweep, *)
(* one prune and one release do to the per-aircraft records.  The filter   *)
(* is left out here; TrackEstimator adds the one fact about it that the    *)
(* lifecycle disturbs, the instant it has been propagated to.              *)
(*                                                                         *)
(* Time is counted in sweep periods, so the thresholds 5 s, 30 s and       *)
(* 10 min become small naturals in the same order.                         *)
(***************************************************************************)
EXTENDS Naturals

CONSTANTS
    Aircraft,             \* ICAO addresses; the track id is derived from it
    CoastAfter,           \* silence after which a track coasts
    TerminateAfter,       \* silence after which a track is terminated
    ConfirmationUpdates,  \* accepted reports a track needs to be confirmed
    PruneAfter            \* silence after which a terminated track is dropped

ASSUME LifecycleAssumption ==
    /\ CoastAfter \in Nat \ {0}
    /\ TerminateAfter \in Nat /\ CoastAfter < TerminateAfter
    /\ PruneAfter \in Nat /\ TerminateAfter <= PruneAfter
    /\ ConfirmationUpdates \in Nat \ {0}

TrackState == {"INITIATING", "CONFIRMED", "COASTING", "TERMINATED"}

\* What the lifecycle reads of a TrackRecord.  update_count is only compared
\* with the confirmation threshold, so it saturates there.
TrackRecord ==
    [last : Nat, count : 1..ConfirmationUpdates, state : TrackState]

NoTrack == [last |-> 0, count |-> 0, state |-> "NONE"]

Tracks == [Aircraft -> TrackRecord \cup {NoTrack}]

Report == [ac : Aircraft, at : Nat]

TrackUpdate == [ac : Aircraft, at : Nat, state : TrackState]

Terminated(record) == record.state = "TERMINATED"

Known(tracks) == {a \in Aircraft : tracks[a] # NoTrack}

Live(tracks) == {a \in Known(tracks) : ~Terminated(tracks[a])}

-----------------------------------------------------------------------------
(* One report. *)

InitiateUncounted(at) == [last |-> at, count |-> 0, state |-> "INITIATING"]
Initiate(at) == [last |-> at, count |-> 1, state |-> "INITIATING"]

Accepted(record, at) ==
    LET enough == record.count + 1 >= ConfirmationUpdates
    IN  [last  |-> at,
         count |-> IF enough THEN ConfirmationUpdates ELSE record.count + 1,
         state |-> IF enough THEN "CONFIRMED" ELSE "INITIATING"]

\* A report no newer than the last one is dropped: the record stays as it is.
UpdateAnyOrder(record, at) == Accepted(record, at)
UpdateRepeated(record, at) == IF at < record.last THEN record ELSE Accepted(record, at)
Update(record, at) == IF at <= record.last THEN record ELSE Accepted(record, at)

Starts(tracks, report) ==
    tracks[report.ac] = NoTrack \/ Terminated(tracks[report.ac])

Folded(tracks, report) ==
    IF Starts(tracks, report)
    THEN Initiate(report.at)
    ELSE Update(tracks[report.ac], report.at)

OnReport(tracks, report) ==
    [tracks EXCEPT ![report.ac] = Folded(tracks, report)]

ToUpdate(tracks, a, at) == [ac |-> a, at |-> at, state |-> tracks[a].state]

-----------------------------------------------------------------------------
(* The sweep. *)

\* last_report_at may be ahead of the sweep's clock: the silence is then
\* negative and no threshold is reached.
Silent(record, now, limit) == record.last + limit <= now

StateAtCoastFirst(record, now) ==
    IF Silent(record, now, CoastAfter) THEN "COASTING"
    ELSE IF Silent(record, now, TerminateAfter) THEN "TERMINATED"
    ELSE record.state
StateAt(record, now) ==
    IF Silent(record, now, TerminateAfter) THEN "TERMINATED"
    ELSE IF Silent(record, now, CoastAfter) THEN "COASTING"
    ELSE record.state

ChangingEverySweep(tracks, now) ==
    {a \in Live(tracks) : StateAt(tracks[a], now) \in {"COASTING", "TERMINATED"}}
Changing(tracks, now) ==
    {a \in Live(tracks) : StateAt(tracks[a], now) # tracks[a].state}

Swept(tracks, now) ==
    [a \in Aircraft |->
        IF a \in Changing(tracks, now)
        THEN [tracks[a] EXCEPT !.state = StateAt(tracks[a], now)]
        ELSE tracks[a]]

-----------------------------------------------------------------------------
(* Forgetting. *)

Pruned(tracks, now) ==
    [a \in Aircraft |->
        IF a \in Known(tracks) /\ Terminated(tracks[a])
           /\ tracks[a].last + PruneAfter < now
        THEN NoTrack
        ELSE tracks[a]]

Released(tracks, addresses) ==
    [a \in Aircraft |-> IF a \in addresses THEN NoTrack ELSE tracks[a]]

=============================================================================
