------------------------------- MODULE Replay -------------------------------
(***************************************************************************)
(* The evaluation's replay (replay in eval/run_conflict_eval.py and in     *)
(* eval/run_conformance_eval.py): the simulator's truth, the reports that  *)
(* get through, the conformance runner with its two detectors and its      *)
(* alert manager, and the scores.  One step is one turn of the loop, in    *)
(* which nothing suspends.  The analysis of false alerts                   *)
(* (eval/analyse_false_alerts.py) and the dataset of the trajectory models *)
(* (ml/dataset.py) run the same loop and keep something else of it.        *)
(*                                                                         *)
(* A track is what the last report said (the tracker's filter is taken to  *)
(* follow a noiseless sensor).                                             *)
(***************************************************************************)
EXTENDS Separation, Rules, Simulation, ConformanceMonitor, ConflictTruth, Dataset

CONSTANTS
    Aircraft,
    Worlds,           \* the scenarios: functions from aircraft to their specs
    Duration,
    StaleAfter,       \* the age at which a track leaves the picture
    ClearAfter, SustainInterval,
    MaxDropouts,
    Finest,           \* instants per step at which properties sample a flight
    Variances         \* uncertainties the properties try

ASSUME ReplayAssumption ==
    /\ Duration \in Nat /\ MaxDropouts \in Nat
    /\ Finest \in Nat \ {0} /\ Variances \subseteq Nat
    /\ StaleAfter \in Nat /\ ClearAfter \in Nat \ {0} /\ SustainInterval \in Nat \ {0}
    /\ IsFiniteSet(Aircraft) /\ Cardinality(Aircraft) = 2
    /\ Worlds \subseteq [Aircraft -> AircraftSpec]
    /\ \A w \in Worlds : \A a \in Aircraft : w[a].entry < Duration
    /\ ConfirmAfter <= MinUpdates

VARIABLES
    world,
    elapsed,
    truth,            \* aircraft -> its true state
    update_count,     \* aircraft -> reports the tracker folded in, as far as they count
    picture,          \* aircraft on the scanner's picture -> its last update
    pending,          \* aircraft -> its predictions
    active,           \* the alert manager
    told,             \* condition -> the severity last published, while it is active
    dropped,          \* reports lost so far
    path,             \* aircraft -> its true states, by instant
    updates,          \* aircraft -> the updates of its confirmed track
    violations,       \* instants at which separation was truly lost
    closest,          \* the closest the pair came
    raised,           \* condition -> when it was first raised
    advisories,       \* aircraft -> when an advisory about it was raised
    outcome,          \* the scores, once the scenario is over
    fresh             \* history: the scans that saw every aircraft as it was

vars == <<world, elapsed, truth, update_count, picture, pending, active, told, dropped,
          path, updates, violations, closest, raised, advisories, outcome, fresh>>

Conflict(pair) == [kind |-> "predicted_conflict", about |-> pair]
Alone(kind, a) == [kind |-> kind, about |-> {a}]
Deviation(a) == Alone("non_conformance", a)

Conflicts == {Conflict(pair) : pair \in kSubset(2, Aircraft)}
Condition ==
    Conflicts \cup {Alone(kind, a) :
        kind \in {"non_conformance", "emergency_squawk", "excessive_descent"}, a \in Aircraft}

Manager == INSTANCE AlertLifecycle WITH
    Track <- Aircraft, About <- [c \in Condition |-> c.about]
NotTold == "NONE"

NotRaised == Duration + 1
NotScored == [events |-> {}]

-----------------------------------------------------------------------------
(* One turn of the loop, in which the true state moves first. *)

Moved == [a \in Aircraft |-> Advanced(truth[a], world[a], elapsed, 1)]
Flying(now) == {a \in Aircraft : now[a].airborne}

\* The finder looks at the exact state of the pairs that fly.
TrueBetween(now, a, b) == Relative(Seen(now[a]), Seen(now[b]))
DistanceSquared(r) == r.east * r.east + r.north * r.north
TooClose(r) == DistanceSquared(r) < Horizontal * Horizontal /\ Size(r.altitude) < Vertical
Violating(now) == \E a, b \in Flying(now) : a # b /\ TooClose(TrueBetween(now, a, b))

Closest(now) ==
    LET a == CHOOSE a \in Aircraft : TRUE
        r == TrueBetween(now, a, CHOOSE b \in Aircraft : b # a)
    IN  IF Flying(now) # Aircraft THEN closest
        ELSE Approached(closest, DistanceSquared(r), Size(r.altitude), TooClose(r))

CountedOn(n) == n + 1
Counted(n) == IF n < MinUpdates THEN n + 1 ELSE n

Update(now, a) ==
    LET seen == Seen(now[a])
    IN  [at |-> elapsed + 1, update_count |-> Counted(update_count[a]),
         east |-> seen.east, north |-> seen.north, altitude |-> seen.altitude,
         heading |-> seen.heading, squawk |-> seen.squawk,
         v_east |-> seen.v_east, v_north |-> seen.v_north, v_altitude |-> seen.v_altitude]

\* absorb, for the reports that got through.
Absorbed(now, reporting) ==
    [a \in DOMAIN picture \cup reporting |->
        IF a \in reporting THEN Update(now, a) ELSE picture[a]]

Stale(known) == {a \in DOMAIN known : known[a].at + StaleAfter < elapsed + 1}
Deviating(known, reporting) == {a \in reporting : IsFinding(pending[a], known[a])}

\* The severity of a pair's conflict, by the time to closest approach.
ConflictSeverity(known, pair) ==
    SeverityFor({n \in {WarningTime, CautionTime} :
                    \E i, j \in pair : /\ i # j
                                       /\ ~ Earlier(Instant(n), Report(Relative(known[i], known[j])).time)})

\* What a picture alone gives cause for.
Detected(known) ==
    {[key |-> Conflict(pair), severity |-> ConflictSeverity(known, pair)] : pair \in Scan(known)}
    \cup UNION {{[key |-> Alone(f.kind, a), severity |-> f.severity] : f \in Findings(known[a])} :
                   a \in DOMAIN known}

Detections(known, reporting) ==
    Detected(known)
        \cup {[key |-> Deviation(a), severity |-> "ADVISORY"] : a \in Deviating(known, reporting)}

\* scan_now: what is known, who is gone, what is detected.
Scanned(known, gone, detections) ==
    LET before == Manager!Older(active, 1)
        current == {d.key : d \in detections}
        alerts == Manager!ReconcileAlerts(before, current)
        Published(c, states) == \E alert \in alerts : alert.key = c /\ alert.state \in states
        New(c) == Published(c, {"NEW"})
    IN  /\ active' = Manager!Forgotten(Manager!Reconciled(before, current), gone)
        /\ told' = [c \in Condition |->
                       IF active'[c] = Manager!NotActive THEN NotTold
                       ELSE IF Published(c, {"NEW", "SUSTAINED"})
                       THEN (CHOOSE d \in detections : d.key = c).severity
                       ELSE told[c]]
        /\ raised' = [c \in Condition |->
                         IF New(c) /\ raised[c] = NotRaised THEN elapsed + 1 ELSE raised[c]]
        /\ advisories' = [a \in Aircraft |->
                             IF New(Deviation(a)) THEN advisories[a] \cup {elapsed + 1}
                             ELSE advisories[a]]
        /\ picture' = [a \in DOMAIN known \ gone |-> known[a]]

\* What the dataset keeps: the truth by whole instants, and the updates of
\* confirmed tracks.
Recorded(now) ==
    [a \in Aircraft |->
        IF now[a].airborne
        THEN [t \in DOMAIN path[a] \cup {elapsed + 1} |->
                 IF t = elapsed + 1 THEN now[a] ELSE path[a][t]]
        ELSE path[a]]
Collected(known, reporting) ==
    [a \in Aircraft |->
        IF a \in reporting /\ Confirmed(known[a])
        THEN Append(updates[a], known[a]) ELSE updates[a]]

Step(now, reporting) ==
    LET known == Absorbed(now, reporting)
        gone == Stale(known)
        current == [a \in DOMAIN known \ gone |-> known[a]]
        lost == Cardinality(Flying(now) \ reporting)
    IN  /\ elapsed < Duration
        /\ reporting \subseteq Flying(now)
        /\ dropped + lost <= MaxDropouts
        /\ elapsed' = elapsed + 1
        /\ truth' = now
        /\ path' = Recorded(now)
        /\ violations' = IF Violating(now) THEN violations \cup {elapsed + 1} ELSE violations
        /\ closest' = Closest(now)
        /\ update_count' = [a \in Aircraft |->
                               IF a \in reporting THEN Counted(update_count[a])
                               ELSE update_count[a]]
        /\ updates' = Collected(known, reporting)
        /\ pending' = [a \in Aircraft |->
                          IF a \in gone THEN <<>>
                          ELSE IF a \in reporting THEN Observed(pending[a], known[a])
                          ELSE pending[a]]
        /\ Scanned(known, gone, Detections(current, reporting))
        /\ dropped' = dropped + lost
        /\ fresh' = IF reporting = Aircraft THEN fresh \cup {elapsed + 1} ELSE fresh
        /\ UNCHANGED <<world, outcome>>

\* Commands after the end of the scenario are in the plan all the same.
Manoeuvres(a) == {world[a].plan[i].at : i \in DOMAIN world[a].plan}
Alerts == {raised[c] : c \in Conflicts} \ {NotRaised}

Score ==
    /\ elapsed >= Duration
    /\ outcome = NotScored
    /\ outcome' =
        [events |-> Events(violations),
         detected |-> DetectedEvents(Events(violations), Alerts),
         false_alerts |-> FalseAlerts(Events(violations), Alerts),
         lead_times |-> {LeadTime(Events(violations), t) :
                            t \in {u \in Alerts : Foretold(Events(violations), u) # {}}},
         noticed |-> [a \in Aircraft |-> DetectedManoeuvres(Manoeuvres(a), advisories[a])],
         lags |-> [a \in Aircraft |->
                      {Lag(Manoeuvres(a), advisories[a], t) :
                          t \in DetectedManoeuvres(Manoeuvres(a), advisories[a])}],
         unattributed |-> [a \in Aircraft |->
                              {t \in advisories[a] : Causes(Manoeuvres(a), t) = {}}],
         near |-> NearAlerts(closest, Alerts, Horizontal),
         vertical_only |-> VerticalOnlyAlerts(closest, Alerts, Horizontal, Vertical),
         samples |-> [a \in Aircraft |-> SamplesFrom(updates[a], path[a], Horizon)]]
    /\ UNCHANGED <<world, elapsed, truth, update_count, picture, pending, active, told, dropped,
                   path, updates, violations, closest, raised, advisories, fresh>>

Init ==
    /\ world \in Worlds
    /\ elapsed = 0
    /\ truth = [a \in Aircraft |-> InitialTruth(world[a])]
    /\ update_count = [a \in Aircraft |-> 0]
    /\ picture = <<>>
    /\ pending = [a \in Aircraft |-> <<>>]
    /\ active = [c \in Condition |-> Manager!NotActive]
    /\ told = [c \in Condition |-> NotTold]
    /\ dropped = 0
    /\ path = [a \in Aircraft |-> <<>>]
    /\ updates = [a \in Aircraft |-> <<>>]
    /\ violations = {} /\ closest = NeverSeen
    /\ raised = [c \in Condition |-> NotRaised]
    /\ advisories = [a \in Aircraft |-> {}]
    /\ outcome = NotScored
    /\ fresh = {}

Next == (\E reporting \in SUBSET Aircraft : Step(Moved, reporting)) \/ Score

Spec == Init /\ [][Next]_vars

-----------------------------------------------------------------------------
(* Properties. *)

\* A prediction leaves the queue by being compared in its window or by having
\* missed it, never for lack of room; what waits is in order and not overdue.
PredictionsKept ==
    \A a \in Aircraft :
        /\ Len(pending[a]) < MaxPending
        /\ \A i \in DOMAIN pending[a] :
              /\ pending[a][i] \in Prediction
              /\ a \in DOMAIN picture => pending[a][i].valid_at - Tolerance > picture[a].at
              /\ i > 1 => pending[a][i - 1].valid_at < pending[a][i].valid_at

\* Everything has its type, and the queues of predictions are kept.
TypeOK ==
    /\ world \in Worlds /\ elapsed \in 0..Duration /\ dropped \in 0..MaxDropouts
    /\ update_count \in [Aircraft -> 0..MinUpdates]
    /\ DOMAIN picture \subseteq Aircraft
    /\ PredictionsKept
    /\ active \in Manager!Manager
    /\ told \in [Condition -> Severity \cup {NotTold}]
    /\ \A a \in Aircraft : DOMAIN path[a] \subseteq 1..Duration /\ Len(updates[a]) <= Duration
    /\ closest.conflicted \in BOOLEAN
    /\ violations \subseteq 1..Duration /\ fresh \subseteq 1..Duration
    /\ raised \in [Condition -> 1..NotRaised]
    /\ advisories \in [Aircraft -> SUBSET (1..Duration)]

Between(i, j) == Relative(picture[i], picture[j])

\* Both standards are breached n / m steps from now, if everyone flies straight.
BreachAt(r, n, m, horizontal) ==
    LET east == r.east * m + r.v_east * n
        north == r.north * m + r.v_north * n
    IN  /\ east * east + north * north < horizontal * horizontal
        /\ Size(r.altitude * m + r.v_altitude * n) < Vertical * m

\* No pair of the picture that straight flight would bring below both standards
\* at one instant of the lookahead is left out of a scan: not by the grid, not
\* by the vertical rejection, not by the windows.  With uncertainties, of a pair
\* that is rejected early a breach of the vertical standard is impossible.
BreachIsScanned(i, j) ==
    (\E n \in 0..(Lookahead * Finest) :
        BreachAt(Between(i, j), n, Finest, Horizontal * Finest))
    => {i, j} \in Scan(picture)
RejectionIsExact(r, now, rate) ==
    LET t == Report(r).time
    IN  RejectedVertically(r, now, rate) =>
            Impossible(Size(r.altitude * t.q + r.v_altitude * t.p), Vertical * t.q,
                       ProjectedVariance(now, rate, t.p, t.q))
NoConflictMissed ==
    \A i, j \in Eligible(picture) : i # j =>
        /\ BreachIsScanned(i, j)
        /\ \A now, rate \in Variances : RejectionIsExact(Between(i, j), now, rate)

\* What a scan reports does come about in straight flight: at some sampled
\* instant the pair is as close as both can be half a sample from a breach.
NearBreach(r, n) ==
    LET m == 2 * Finest
        slack == Size(r.v_east) + Size(r.v_north)
        east == r.east * m + r.v_east * 2 * n
        north == r.north * m + r.v_north * 2 * n
        within == Horizontal * m + slack
    IN  /\ east * east + north * north < within * within
        /\ Size(r.altitude * m + r.v_altitude * 2 * n) < Vertical * m + Size(r.v_altitude)
NoConflictInvented ==
    \A i, j \in Eligible(picture) :
        i # j /\ {i, j} \in Scan(picture) =>
            \E n \in 0..(Lookahead * Finest) : NearBreach(Between(i, j), n)

\* A loss of separation in straight flight is foretold by the first scan that
\* saw both aircraft as they were, knew them long enough, and looked that far.
Straight == \A a \in Aircraft : world[a].plan = <<>>
StraightFlightIsForetold ==
    Straight =>
        \A e \in outcome.events : \A s \in fresh :
            /\ s <= e.started /\ e.started <= s + Lookahead
            /\ Cardinality(fresh \cap 1..s) >= MinUpdates
            => /\ e \in outcome.detected
               /\ \A c \in Conflicts : raised[c] <= s

\* The monitor does not cry wolf: every advisory follows a manoeuvre of its
\* aircraft, however many reports are lost.
AdvisoriesHaveACause ==
    outcome # NotScored => \A a \in Aircraft : outcome.unattributed[a] = {}

\* How far an aircraft was at one instant from where straight flight from another
\* would have taken it in a horizon.
Drift(was, then) ==
    LET east == (was.east + Horizon * was.v_east) - then.east
        north == (was.north + Horizon * was.v_north) - then.north
    IN  east * east + north * north
DriftSquared(a, from, at) == Drift(Seen(path[a][from]), path[a][at])

\* A manoeuvre that takes an aircraft off its straight course is noticed: who is
\* farther than the threshold from where a course before it led, from the moment a
\* prediction may be compared until it is due, is advised of and the advisory is
\* credited to it, if the reports got through and no other command falls before
\* its horizon is over.
Lone(a, at) == \A other \in Manoeuvres(a) \ {at} : other > at + Horizon
Strayed(a, from) ==
    /\ from \in DOMAIN path[a]
    /\ \A at \in (from + Horizon - Tolerance)..(from + Horizon) :
          DriftSquared(a, from, at) > Threshold * Threshold
StrayingIsNoticed ==
    (outcome # NotScored /\ dropped = 0) =>
        \A a \in Aircraft : \A at \in Manoeuvres(a) :
            Lone(a, at) /\ at + Horizon <= Duration
                    /\ (\E from \in 1..(at - 1) : Strayed(a, from)) =>
                at \in outcome.noticed[a]

\* What gives cause for an alert in the picture as it stands has one, and the
\* controller knows how urgent it is but for the last interval: an escalation is
\* told by the heartbeat, not at once, and no missed detection puts it off.
SeverityIsFresh ==
    \A d \in Detected(picture) :
        /\ active[d.key] # Manager!NotActive
        /\ told[d.key] = d.severity \/ active[d.key].since < SustainInterval

\* How near the analysis says a pair came is how near it came: the pair of an
\* alert raised in straight flight that was seen as it was comes nearer than the standard
\* and what both fly in a step, even if separation was not lost at any whole step.
StraightAlertsAreNear ==
    (Straight /\ outcome # NotScored /\ dropped = 0) =>
        \A t \in Alerts : t + Lookahead <= Duration =>
            \A a, b \in Aircraft : a # b =>
                LET r == Relative(Seen(InitialTruth(world[a])), Seen(InitialTruth(world[b])))
                    within == Horizontal + Size(r.v_east) + Size(r.v_north)
                IN  closest # NeverSeen /\ closest.horizontal_sq < within * within

\* A correction learnt from a sample is the one that makes the prediction true:
\* applied to the baseline of the window's last update it gives the position the
\* aircraft had a horizon later.  Of straight flight there is nothing to learn.
SamplesReconstruct ==
    outcome # NotScored => \A a \in Aircraft : \A sample \in outcome.samples[a] :
        LET update == Last(sample.window)
            then == path[a][update.at + Horizon]
        IN  /\ Corrected(DeadReckoned(update, Horizon), sample.target, update.heading)
                    = [east |-> then.east, north |-> then.north, altitude |-> then.altitude]
            /\ world[a].plan = <<>> =>
                   sample.target = [along |-> 0, cross |-> 0, altitude |-> 0]

=============================================================================
