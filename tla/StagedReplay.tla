---------------------------- MODULE StagedReplay ----------------------------
(***************************************************************************)
(* The replay of what the generator stages: how near the evaluation finds  *)
(* the aircraft of a scenario to have come, against how near they were     *)
(* aimed at coming.                                                        *)
(***************************************************************************)
EXTENDS Replay, Generator

\* What a scenario may have been staged as: two aircraft of it, in straight flight, are
\* the pair of a draw.
Staging == [first : Aircraft, second : Aircraft, draw : Draw]

Stagings ==
    [w \in Worlds |->
        {s \in Staging : /\ s.first # s.second
                         /\ w[s.first] = SpecA(s.draw, <<>>)
                         /\ w[s.second] = SpecB(s.draw, <<>>)}]

\* A staged pair that flies straight is as far apart as it was aimed at passing
\* when it reaches the meeting point, so it conflicts if that is too close, and
\* the analysis of the alerts knows of nothing farther.
StagedPairMeets ==
    \A s \in Stagings[world] : elapsed >= s.draw.time_to_meet =>
        LET here == path[s.first][s.draw.time_to_meet]
            there == path[s.second][s.draw.time_to_meet]
            r == Relative(Seen(here), Seen(there))
            miss == s.draw.miss
        IN  /\ DistanceSquared(r) = miss * miss /\ r.altitude = s.draw.offset
            /\ closest # NeverSeen /\ closest.horizontal_sq <= miss * miss
            /\ miss < Horizontal /\ s.draw.offset < Vertical => closest.conflicted

\* What is said of how near a pair came is right: of a staged pair that it came as near
\* as it was aimed at, and of the pair of an alert that it came near.
NearnessIsTrue == StagedPairMeets /\ StraightAlertsAreNear

=============================================================================
