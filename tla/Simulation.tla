----------------------------- MODULE Simulation -----------------------------
(***************************************************************************)
(* The simulator (sim/engine.py, sim/scenario.py) as operators on the true *)
(* state of one aircraft: what a step of dt does to it.                    *)
(*                                                                         *)
(* The plane is a grid with Circle headings, Unit[h] being one unit of     *)
(* distance along h; a heading, a level and a speed are reached at bounded *)
(* rates as in the code.  Sensor noise is left out, dropouts are not.      *)
(***************************************************************************)
EXTENDS Integers, Sequences

CONSTANTS
    Circle,           \* the number of headings, which are 0..(Circle - 1)
    Unit,             \* the unit vector of each heading
    Ceiling           \* a level above all others

ASSUME SimulationAssumption ==
    /\ Circle \in Nat /\ Circle > 1
    /\ Unit \in [0..(Circle - 1) -> [east : Int, north : Int]]
    /\ Ceiling \in Nat

Heading == 0..(Circle - 1)

\* A scripted manoeuvre: from the instant at on, kind is driven to target at rate;
\* the transponder code changes at once.
Command == [at : Nat, kind : {"turn", "climb", "speed", "squawk"}, target : Int, rate : Nat]

\* Where an aircraft is, and what it pursues at what rate.
Pursuit == [target : Int, rate : Int]
AircraftTruth ==
    [east : Int, north : Int, altitude : Int, heading : Heading, speed : Int,
     v_altitude : Int, squawk : Int, airborne : BOOLEAN,
     turn : Pursuit, climb : Pursuit, pace : Pursuit]

\* How an aircraft begins, when it enters, and what it is told to do.
AircraftSpec ==
    [east : Int, north : Int, altitude : Nat, heading : Heading, speed : Nat,
     v_altitude : Int, squawk : Nat, entry : Nat, plan : Seq(Command)]

-----------------------------------------------------------------------------
(* Bearings and bounded pursuit. *)

\* The signed shortest turn, in (-Circle/2, Circle/2].
BearingDifference(from, to) ==
    LET delta == ((to - from + Circle \div 2) % Circle) - Circle \div 2
    IN  IF 2 * delta <= -Circle THEN delta + Circle ELSE delta

\* The step toward a target difference away, at most limit long.
Within(difference, limit) ==
    IF difference > limit THEN limit
    ELSE IF difference < -limit THEN -limit ELSE difference

-----------------------------------------------------------------------------
(* One aircraft. *)

InitialTruth(spec) ==
    [east |-> spec.east, north |-> spec.north, altitude |-> spec.altitude,
     heading |-> spec.heading, speed |-> spec.speed, v_altitude |-> spec.v_altitude,
     squawk |-> spec.squawk, airborne |-> spec.entry = 0,
     turn |-> [target |-> spec.heading, rate |-> 1],
     climb |-> IF spec.v_altitude = 0 THEN [target |-> spec.altitude, rate |-> 1]
               ELSE [target |-> IF spec.v_altitude > 0 THEN Ceiling ELSE 0,
                     rate |-> IF spec.v_altitude > 0 THEN spec.v_altitude
                              ELSE -spec.v_altitude],
     pace |-> [target |-> spec.speed, rate |-> 1]]

\* The commands of a kind that fall into (from, to] take effect in the order of the
\* plan, so that the last of them stands.
Standing(plan, kind, from, to) ==
    LET due == {i \in DOMAIN plan : plan[i].kind = kind /\ from < plan[i].at /\ plan[i].at <= to}
    IN  {plan[i] : i \in {j \in due : \A k \in due : k <= j}}

Aim(commands, current) ==
    IF commands = {} THEN current
    ELSE LET c == CHOOSE c \in commands : TRUE IN [target |-> c.target, rate |-> c.rate]

Commanded(state, plan, from, to) ==
    [state EXCEPT !.turn = Aim(Standing(plan, "turn", from, to), @),
                  !.climb = Aim(Standing(plan, "climb", from, to), @),
                  !.pace = Aim(Standing(plan, "speed", from, to), @),
                  !.squawk = Aim(Standing(plan, "squawk", from, to), [target |-> @]).target]

\* Positions advance along the mean of the headings and speeds at both ends.
Flown(state, dt) ==
    LET turn == Within(BearingDifference(state.heading, state.turn.target), state.turn.rate * dt)
        mid == (state.heading + (turn \div 2)) % Circle
        speed == state.speed + Within(state.pace.target - state.speed, state.pace.rate * dt)
        distance == ((state.speed + speed) * dt) \div 2
        climb == Within(state.climb.target - state.altitude, state.climb.rate * dt)
    IN  [east |-> state.east + distance * Unit[mid].east,
         north |-> state.north + distance * Unit[mid].north,
         altitude |-> IF state.altitude + climb < 0 THEN 0 ELSE state.altitude + climb,
         heading |-> (state.heading + turn) % Circle,
         speed |-> speed,
         v_altitude |-> climb \div dt,
         squawk |-> state.squawk, airborne |-> TRUE,
         turn |-> state.turn, climb |-> state.climb, pace |-> state.pace]

Advanced(state, spec, from, dt) ==
    LET commanded == Commanded(state, spec.plan, from, from + dt)
    IN  IF from + dt >= spec.entry THEN Flown(commanded, dt)
        ELSE [commanded EXCEPT !.airborne = FALSE]

\* What a report or the tracker's update says of an aircraft.
Seen(state) ==
    [east |-> state.east, north |-> state.north, altitude |-> state.altitude,
     heading |-> state.heading, squawk |-> state.squawk,
     v_east |-> state.speed * Unit[state.heading].east,
     v_north |-> state.speed * Unit[state.heading].north,
     v_altitude |-> state.v_altitude]

=============================================================================
