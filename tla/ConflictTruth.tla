--------------------------- MODULE ConflictTruth ----------------------------
(***************************************************************************)
(* How the evaluation scores the detectors: eval/conflict_truth.py turns   *)
(* the instants at which a pair had lost separation into events,           *)
(* eval/run_conflict_eval.py compares events with alerts, and              *)
(* eval/run_conformance_eval.py compares manoeuvres with advisories;       *)
(* eval/analyse_false_alerts.py asks how near a pair genuinely came.       *)
(***************************************************************************)
EXTENDS Integers, FiniteSets, Sequences, SequencesExt, FiniteSetsExt

CONSTANTS
    Bridge,           \* the longest gap within one event
    Attribution       \* how long after a manoeuvre an advisory is due to it

ASSUME TruthAssumption == Bridge \in Nat /\ Attribution \in Nat

-----------------------------------------------------------------------------
(* Losses of separation. *)

Extended(events, at) ==
    IF events # <<>> /\ at - events[Len(events)].ended <= Bridge
    THEN [events EXCEPT ![Len(events)].ended = at]
    ELSE Append(events, [started |-> at, ended |-> at])

\* The events of one pair from the instants of its violations, in their order: the
\* latest of them is folded in last.
Events(violations) ==
    ToSet(MapThenFoldSet(LAMBDA at, events : Extended(events, at), <<>>,
                         LAMBDA at : at, Max, violations))

\* An alert counts for an event if it was raised no later than it began.
Candidates(event, alerts) == {at \in alerts : at <= event.started}

DetectedEvents(events, alerts) == {e \in events : Candidates(e, alerts) # {}}

\* One that came too late is no false alarm: the pair did conflict.
FalseAlerts(events, alerts) == IF events = {} THEN alerts ELSE {}

\* The events one alert counts for; its lead time is taken before the last.
Foretold(events, alert) == {e \in events : alert <= e.started}

LeadTime(events, alert) == Max({e.started : e \in Foretold(events, alert)}) - alert

-----------------------------------------------------------------------------
(* The closest a pair came, in squares of horizontal separation. *)

NeverSeen == [horizontal_sq |-> -1, vertical |-> 0, conflicted |-> FALSE]

LatestApproach(closest, horizontal_sq, vertical, lost) ==
    [horizontal_sq |-> horizontal_sq, vertical |-> vertical,
     conflicted |-> closest.conflicted \/ lost]
Approached(closest, horizontal_sq, vertical, lost) ==
    LET nearer == closest = NeverSeen \/ horizontal_sq < closest.horizontal_sq
    IN  [horizontal_sq |-> IF nearer THEN horizontal_sq ELSE closest.horizontal_sq,
         vertical |-> IF nearer THEN vertical ELSE closest.vertical,
         conflicted |-> closest.conflicted \/ lost]

\* False alerts of a pair that at least came within twice the standard, and of
\* one that breached one standard and, at its closest, not the other.
NearAlerts(closest, alerts, horizontal) ==
    IF ~ closest.conflicted /\ closest # NeverSeen
       /\ closest.horizontal_sq < 4 * horizontal * horizontal
    THEN alerts ELSE {}
VerticalOnlyAlerts(closest, alerts, horizontal, vertical) ==
    IF ~ closest.conflicted /\ closest # NeverSeen
       /\ closest.horizontal_sq < horizontal * horizontal /\ closest.vertical >= vertical
    THEN alerts ELSE {}

-----------------------------------------------------------------------------
(* Manoeuvres, given by the instants at which they begin. *)

Causes(manoeuvres, advisory) ==
    {at \in manoeuvres : at <= advisory /\ advisory <= at + Attribution}

\* Each advisory is credited to the most recent manoeuvre before it.
Credited(manoeuvres, advisories, at) ==
    {t \in advisories : Causes(manoeuvres, t) # {} /\ Max(Causes(manoeuvres, t)) = at}

DetectedManoeuvres(manoeuvres, advisories) ==
    {at \in manoeuvres : Credited(manoeuvres, advisories, at) # {}}

Lag(manoeuvres, advisories, at) == Min(Credited(manoeuvres, advisories, at)) - at

=============================================================================
