--------------------------- MODULE MCLivePicture ---------------------------
(* LivePicture for TLC: a scenario whose commands fall on and between the   *)
(* steps, two of them between the same two.                                 *)
EXTENDS LivePicture

CONSTANTS r

Compass == [h \in 0..3 |-> [east |-> <<0, 1, 0, -1>>[h + 1], north |-> <<1, 0, -1, 0>>[h + 1]]]

Flight == [east |-> 0, north |-> 0, altitude |-> 2, heading |-> 1, speed |-> 2, v_altitude |-> 0, squawk |-> 0,
           entry |-> 1,
           plan |-> <<[at |-> 1, kind |-> "turn", target |-> 2, rate |-> 1],
                      [at |-> 2, kind |-> "turn", target |-> 0, rate |-> 1],
                      [at |-> 3, kind |-> "climb", target |-> 5, rate |-> 1],
                      [at |-> 5, kind |-> "speed", target |-> 1, rate |-> 1]>>]

=============================================================================
