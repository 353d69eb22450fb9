------------------------------ MODULE MCReplay ------------------------------
(***************************************************************************)
(* Replay for TLC: every encounter of two aircraft in straight flight on a *)
(* small grid, and manoeuvres of one of them.                              *)
(***************************************************************************)
EXTENDS StagedReplay, TLC

CONSTANTS ac1, ac2

Compass == [h \in 0..3 |-> [east |-> <<0, 1, 0, -1>>[h + 1], north |-> <<1, 0, -1, 0>>[h + 1]]]

Spec0 == [east |-> 0, north |-> 0, altitude |-> 4, heading |-> 1, speed |-> 2,
          v_altitude |-> 0, squawk |-> 0, entry |-> 0, plan |-> <<>>]

Turn(at, target) == [at |-> at, kind |-> "turn", target |-> target, rate |-> 1]
Climb(at, target) == [at |-> at, kind |-> "climb", target |-> target, rate |-> 2]
Squawk(at, code) == [at |-> at, kind |-> "squawk", target |-> code, rate |-> 1]
Pace(at, target) == [at |-> at, kind |-> "speed", target |-> target, rate |-> 1]

\* The second comes from anywhere, level or not, and may appear later.
Encounters ==
    {ac1 :> Spec0 @@ ac2 :> [Spec0 EXCEPT !.east = e, !.north = n, !.altitude = 4 + h,
                                      !.heading = c, !.speed = s, !.v_altitude = v, !.entry = t] :
        e \in {1, 5}, n \in {-3, 2}, h \in {-3, 1, 4}, c \in {0, 2, 3},
        s \in {1, 2}, v \in {-1, 0}, t \in {0, 2}}

Far == {ac1 :> Spec0 @@ ac2 :> [Spec0 EXCEPT !.east = 14, !.heading = 3, !.speed = s] : s \in {1, 2}}

\* The first manoeuvres, next to the second or far from it.
Excursions == {<<Climb(2, 7), Climb(at, 4)>> : at \in 4..7}
Manoeuvred ==
    {ac1 :> [Spec0 EXCEPT !.plan = p] @@ ac2 :> [Spec0 EXCEPT !.north = n, !.speed = s] :
        p \in Excursions \cup {<<Turn(3, 0)>>, <<Turn(4, 2)>>, <<Turn(3, 3)>>, <<Pace(3, 0)>>,
                               <<Turn(1, 0), Turn(5, 1)>>, <<Pace(2, 0), Pace(5, 2)>>,
                               <<Squawk(2, 7700), Climb(2, 0), Squawk(6, 0)>>},
        n \in {1, 20}, s \in {1, 2}}

\* A slow one that is told to turn, with the ratio of speed and threshold that a fast
\* airliner has, and at once to climb.
Turning ==
    {ac1 :> [Spec0 EXCEPT !.speed = 1, !.plan = p] @@ ac2 :> [Spec0 EXCEPT !.north = 20] :
        p \in {<<Turn(3, 0)>>, <<Turn(4, 3), Climb(4, 6)>>}}

\* Slower, but not slower than the slowest.
Slowdowns == {-2}

\* What the generator stages: in straight flight, and with manoeuvres of one.
Staged(draw, plan_a, plan_b) == ac1 :> SpecA(draw, plan_a) @@ ac2 :> SpecB(draw, plan_b)
Straights == {Staged(d, <<>>, <<>>) : d \in Draw}
Generated ==
    Straights
        \cup UNION {{Staged(d, p, <<>>) : p \in PlansA(d)} :
                       d \in {e \in Draw : e.miss = 1 /\ e.offset = 1 /\ e.speed_a = 2 /\ e.speed_b = 1}}

MCWorlds == Encounters \cup Far \cup Manoeuvred \cup Turning \cup Generated

=============================================================================
