----------------------------- MODULE Generator ------------------------------
(***************************************************************************)
(* The scenario generator (sim/generator.py): the staged encounters of two *)
(* aircraft a family can produce.  A draw from a range is any value of a   *)
(* set.  Background traffic is left out, and so is the probability of a    *)
(* manoeuvre: an aircraft has a full plan or none.                         *)
(***************************************************************************)
EXTENDS Simulation

CONSTANTS
    SpeedRange, FlightLevels,
    MissDistances,          \* how close the pair is aimed at passing
    CrossingAngles,         \* between the two tracks, in headings
    VerticalOffsets,
    MeetTimes,              \* until the pair reaches the meeting point
    FirstTrack,             \* of the first aircraft
    FirstTimes, Gaps,       \* instants of manoeuvres
    ManoeuvresPerAircraft,
    TurnChanges, LevelChanges, SpeedChanges,
    LowestLevel, HighestLevel, LowestSpeed

ASSUME GeneratorAssumption ==
    /\ Circle % 4 = 0
    /\ FirstTrack \subseteq Heading /\ CrossingAngles \subseteq Int
    /\ SpeedRange \subseteq Nat /\ FlightLevels \subseteq Nat
    /\ MissDistances \subseteq Nat /\ VerticalOffsets \subseteq Nat
    /\ MeetTimes \subseteq Nat \ {0}
    /\ ManoeuvresPerAircraft \in Nat \ {0}

-----------------------------------------------------------------------------
(* Geometry. *)

\* The point a distance away from another, along a heading.
DestinationPoint(from, heading, distance) ==
    [east |-> from.east + distance * Unit[heading].east,
     north |-> from.north + distance * Unit[heading].north]

Centre == [east |-> 0, north |-> 0]
TurnedBy(heading, change) == (heading + change) % Circle
Opposite(heading) == TurnedBy(heading, Circle \div 2)
RightOf(heading) == TurnedBy(heading, Circle \div 4)

-----------------------------------------------------------------------------
(* Manoeuvres. *)

Clamped(x, low, high) == IF x < low THEN low ELSE IF x > high THEN high ELSE x

OneManoeuvre(at, track, level, speed) ==
    {[at |-> at, kind |-> "turn", target |-> TurnedBy(track, change), rate |-> 1] :
        change \in TurnChanges}
    \cup
    {[at |-> at, kind |-> "climb",
      target |-> Clamped(level + change, LowestLevel, HighestLevel), rate |-> 2] :
        change \in LevelChanges}
    \cup
    {[at |-> at, kind |-> "speed",
      target |-> IF speed + change < LowestSpeed THEN LowestSpeed ELSE speed + change,
      rate |-> 1] : change \in SpeedChanges}

\* The heading later turns start from: that of the latest turn, the first
\* manoeuvre not counted.
PlannedHeading(commands, track) ==
    LET turns == SelectSeq(Tail(commands), LAMBDA c : c.kind = "turn")
    IN  IF turns = <<>> THEN track ELSE turns[Len(turns)].target

\* The instants of manoeuvres are drawn one by one, in no order.
Plans(track, level, speed) ==
    LET First == UNION {OneManoeuvre(at, track, level, speed) : at \in FirstTimes}
        Later(commands, n) ==
            UNION {OneManoeuvre(1 + n * gap, PlannedHeading(commands, track), level, speed) :
                      gap \in Gaps}
        planned[n \in 1..ManoeuvresPerAircraft] ==
            IF n = 1 THEN {<<c>> : c \in First}
            ELSE UNION {{Append(p, c) : c \in Later(p, n - 1)} : p \in planned[n - 1]}
    IN  {<<>>} \cup planned[ManoeuvresPerAircraft]

-----------------------------------------------------------------------------
(* Encounters. *)

Draw ==
    [speed_a : SpeedRange, speed_b : SpeedRange, level : FlightLevels,
     offset : VerticalOffsets, miss : MissDistances, crossing : CrossingAngles,
     time_to_meet : MeetTimes, track_a : FirstTrack]

Aircrafts(start, level, track, speed, plan) ==
    [east |-> start.east, north |-> start.north, altitude |-> level, heading |-> track,
     speed |-> speed, v_altitude |-> 0, squawk |-> 0, entry |-> 0, plan |-> plan]

TrackB(draw) == TurnedBy(draw.track_a, draw.crossing)

\* Both are aimed at the centre; the second is then displaced across its track.
StartA(draw) ==
    DestinationPoint(Centre, Opposite(draw.track_a), draw.speed_a * draw.time_to_meet)
StartB(draw) ==
    DestinationPoint(
        DestinationPoint(Centre, Opposite(TrackB(draw)), draw.speed_b * draw.time_to_meet),
        RightOf(TrackB(draw)), draw.miss)

SpecA(draw, plan) ==
    Aircrafts(StartA(draw), draw.level, draw.track_a, draw.speed_a, plan)
SpecB(draw, plan) ==
    Aircrafts(StartB(draw), draw.level + draw.offset, TrackB(draw), draw.speed_b, plan)

PlansA(draw) == Plans(draw.track_a, draw.level, draw.speed_a)
PlansB(draw) == Plans(TrackB(draw), draw.level + draw.offset, draw.speed_b)

=============================================================================
