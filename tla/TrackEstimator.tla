--------------------------- MODULE TrackEstimator ---------------------------
(***************************************************************************)
(* One TrackEstimator (services/track/estimator.py) driven by any sequence *)
(* of reports, sweeps, prunes and releases.  Reports may be late or        *)
(* duplicated: nothing in the class assumes otherwise.                     *)
(*                                                                         *)
(* Of the Kalman filter only its time is kept.  A TrackFilter holds no     *)
(* clock: predict(dt) moves its state dt forward from wherever it is, so   *)
(* the instant the state describes is the sum of what it was asked to      *)
(* predict.  filterTime is that sum.                                       *)
(***************************************************************************)
EXTENDS TrackLifecycle, Sequences, FiniteSets

CONSTANTS
    MaxTime   \* bound on the clock

ASSUME TimeAssumption == MaxTime \in Nat

VARIABLES
    tracks,      \* _tracks
    filterTime,  \* the instant each track's filter state describes
    now,         \* the wall clock the sweep reads
    told,        \* history: states the sweeps announced since the last accepted report
    seen         \* history: the observation times accepted since initiation

vars == <<tracks, filterTime, now, told, seen>>

Init ==
    /\ tracks = [a \in Aircraft |-> NoTrack]
    /\ filterTime = [a \in Aircraft |-> 0]
    /\ now = 0
    /\ told = [a \in Aircraft |-> <<>>]
    /\ seen = [a \in Aircraft |-> {}]

-----------------------------------------------------------------------------

Accepts(report) ==
    Starts(tracks, report) \/ tracks[report.ac].last < report.at

\* _initiate builds the filter at the report; _update predicts the time since
\* the last *report*, wherever the filter was left.
FilterAfterReport(report) ==
    IF Starts(tracks, report) THEN report.at
    ELSE IF Accepts(report)
         THEN filterTime[report.ac] + (report.at - tracks[report.ac].last)
         ELSE filterTime[report.ac]

HandleReport(report) ==
    /\ tracks' = OnReport(tracks, report)
    /\ filterTime' = [filterTime EXCEPT ![report.ac] = FilterAfterReport(report)]
    /\ IF Accepts(report)
       THEN /\ told' = [told EXCEPT ![report.ac] = <<>>]
            /\ seen' = [seen EXCEPT ![report.ac] =
                           IF Starts(tracks, report) THEN {report.at}
                           ELSE @ \cup {report.at}]
       ELSE UNCHANGED <<told, seen>>
    /\ UNCHANGED now

\* Publishing a changed track predicts the whole silence again (_to_update).
FilterAfterSweep(a) == filterTime[a] + (now - tracks[a].last)

Sweep ==
    LET changing == Changing(tracks, now)
    IN  /\ tracks' = Swept(tracks, now)
        /\ filterTime' = [a \in Aircraft |->
                             IF a \in changing THEN FilterAfterSweep(a)
                             ELSE filterTime[a]]
        /\ told' = [a \in Aircraft |->
                       IF a \in changing THEN Append(told[a], tracks'[a].state)
                       ELSE told[a]]
        /\ UNCHANGED <<now, seen>>

Forget(kept) ==
    /\ tracks' = kept
    /\ filterTime' = [a \in Aircraft |->
                         IF kept[a] = NoTrack THEN 0 ELSE filterTime[a]]
    /\ told' = [a \in Aircraft |-> IF kept[a] = NoTrack THEN <<>> ELSE told[a]]
    /\ seen' = [a \in Aircraft |-> IF kept[a] = NoTrack THEN {} ELSE seen[a]]
    /\ UNCHANGED now

PruneTerminated == Forget(Pruned(tracks, now))

Release(addresses) == Forget(Released(tracks, addresses))

Tick ==
    /\ now < MaxTime
    /\ now' = now + 1
    /\ UNCHANGED <<tracks, filterTime, told, seen>>

Next ==
    \/ \E a \in Aircraft, at \in 0..now : HandleReport([ac |-> a, at |-> at])
    \/ Sweep
    \/ PruneTerminated
    \/ \E addresses \in SUBSET Aircraft : Release(addresses)
    \/ Tick

\* The sweep is a timer of its own task and time passes; nothing obliges a
\* report, a prune or a rebalance to happen.
Spec == Init /\ [][Next]_vars /\ WF_vars(Sweep) /\ WF_vars(Tick)

-----------------------------------------------------------------------------

TypeOK ==
    /\ tracks \in Tracks
    /\ filterTime \in [Aircraft -> Nat]
    /\ now \in 0..MaxTime
    /\ told \in [Aircraft -> Seq(TrackState)]
    /\ seen \in [Aircraft -> SUBSET (0..MaxTime)]

\* A silence is announced at most once as coasting and once as terminated, in
\* that order, however many sweeps look at it.
AnnouncedOnce ==
    \A a \in Aircraft :
        told[a] \in {<<>>, <<"COASTING">>, <<"TERMINATED">>,
                     <<"COASTING", "TERMINATED">>}

\* A confirmed track has been seen at ConfirmationUpdates different instants
\* since it was initiated: redelivered and late reports do not count.
ConfirmedBySeveralReports ==
    \A a \in Aircraft :
        tracks[a].state = "CONFIRMED" => Cardinality(seen[a]) >= ConfirmationUpdates

\* The record's last report is the newest one accepted since initiation, so a
\* silence is measured from the newest observation and not from the one that
\* happened to arrive last.
LastIsNewest ==
    \A a \in Known(tracks) :
        tracks[a].last \in seen[a] /\ \A t \in seen[a] : t <= tracks[a].last

\* Whoever has been silent for the termination time is declared terminated,
\* unless a report or a release comes first.
SilenceEndsTrack ==
    \A a \in Aircraft :
        (a \in Live(tracks) /\ Silent(tracks[a], now, TerminateAfter))
            ~> ~(a \in Live(tracks) /\ Silent(tracks[a], now, TerminateAfter))

\* estimator.py calls the innovation "how far the aircraft was from where
\* constant-velocity physics said it would be": the filter must then stand at
\* the report's time whenever a report has just been folded in.
FilterStandsAtReport ==
    \A a \in Known(tracks) :
        tracks[a].state \in {"INITIATING", "CONFIRMED"}
            => filterTime[a] = tracks[a].last

=============================================================================
