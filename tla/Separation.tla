----------------------------- MODULE Separation -----------------------------
(***************************************************************************)
(* SeparationMonitor (services/conformance/separation.py), the cut-offs of *)
(* probability.py and the rules of rules.py, as operators on tracks.       *)
(*                                                                         *)
(* Positions, altitudes and velocities are integers in one plane, so the   *)
(* detector's arithmetic can be exact: an instant is a number of the form  *)
(* (p + k sqrt(d)) / q, which is what the ends of its windows are, and     *)
(* instants are compared without rounding.  The curvature of the earth and *)
(* floating point are left out.                                            *)
(***************************************************************************)
EXTENDS Integers, FiniteSets, FiniteSetsExt

CONSTANTS
    Horizontal,       \* the separation standards
    Vertical,
    Lookahead,        \* how far ahead straight flight is assumed
    MaxClosing,       \* the fastest two aircraft are supposed to close
    MinUpdates,       \* updates before a track is tested
    SigmaCutoff       \* standard deviations beyond which nothing is likely

ASSUME SeparationAssumption ==
    /\ Horizontal \in Nat \ {0}
    /\ Vertical \in Nat \ {0}
    /\ Lookahead \in Nat \ {0}
    /\ MaxClosing \in Nat
    /\ MinUpdates \in Nat
    /\ SigmaCutoff \in Nat

Size(x) == IF x < 0 THEN -x ELSE x

-----------------------------------------------------------------------------
(* Instants, and open intervals of them. *)

\* (p + k sqrt(d)) / q with q >= 0; q = 0 is infinity with the sign of p.
Ratio(n, m) ==
    [p |-> IF m < 0 THEN -n ELSE n, k |-> 0, d |-> 0, q |-> Size(m)]
Instant(n) == Ratio(n, 1)
Always == [low |-> Ratio(-1, 0), high |-> Ratio(1, 0)]
Never == [low |-> Instant(1), high |-> Instant(0)]

\* a < k sqrt(d)
BelowRoot(a, k, d) ==
    \/ k > 0 /\ (a < 0 \/ a * a < k * k * d)
    \/ k <= 0 /\ a < 0 /\ a * a > k * k * d

\* Two instants with a root in them have the same one.
Earlier(x, y) ==
    BelowRoot(x.p * y.q - y.p * x.q, y.k * x.q - x.k * y.q,
              IF x.k # 0 THEN x.d ELSE y.d)

\* min and max, of two that are equal the first.
Sooner(x, y) == IF Earlier(y, x) THEN y ELSE x
Later(x, y) == IF Earlier(x, y) THEN y ELSE x

IsSome(interval) == Earlier(interval.low, interval.high)

\* offset + rate t, and its magnitude and square, at the instant t.
At(offset, rate, t) ==
    [t EXCEPT !.p = offset * t.q + rate * t.p, !.k = rate * t.k]
Magnitude(x) == IF Earlier(x, Instant(0)) THEN [x EXCEPT !.p = -@, !.k = -@] ELSE x
Square(x) == [p |-> x.p * x.p + x.k * x.k * x.d, k |-> 2 * x.p * x.k,
              d |-> x.d, q |-> x.q * x.q]
Plus(x, y) == [x EXCEPT !.p = @ + y.p, !.k = @ + y.k]

\* The instants t with a t^2 + b t + c < 0.
QuadraticBelow(a, b, c) ==
    LET discriminant == b * b - 4 * a * c
        Root(sign) == [p |-> -b, k |-> sign, d |-> discriminant, q |-> 2 * a]
    IN  IF a = 0
        THEN IF b = 0 THEN IF c < 0 THEN Always ELSE Never
             ELSE IF b > 0 THEN [Always EXCEPT !.high = Ratio(-c, b)]
             ELSE [Always EXCEPT !.low = Ratio(-c, b)]
        ELSE IF discriminant <= 0 THEN Never
        ELSE [low |-> Root(-1), high |-> Root(1)]

\* The instants t with |offset + rate t| < limit.
LinearWithin(offset, rate, limit) ==
    LET low == Ratio(-limit - offset, rate)
        high == Ratio(limit - offset, rate)
    IN  IF rate = 0 THEN IF Size(offset) < limit THEN Always ELSE Never
        ELSE [low |-> Sooner(low, high), high |-> Later(low, high)]

\* An empty interval stays empty, so it stands for the code's None.
Overlap(first, second) ==
    [low |-> Later(Later(first.low, second.low), Instant(0)),
     high |-> Sooner(Sooner(first.high, second.high), Instant(Lookahead))]

-----------------------------------------------------------------------------
(* One pair. *)

Relative(first, second) ==
    [east |-> second.east - first.east, north |-> second.north - first.north,
     altitude |-> second.altitude - first.altitude,
     v_east |-> second.v_east - first.v_east, v_north |-> second.v_north - first.v_north,
     v_altitude |-> second.v_altitude - first.v_altitude]

\* However the rest of the geometry lies, the pair stays clear vertically.
VerticallyClear(r, slack) ==
    Size(r.altitude) - Size(r.v_altitude) * Lookahead - slack >= Vertical

ClosingSpeedSquared(r) == r.v_east * r.v_east + r.v_north * r.v_north
Approach(r) == r.east * r.v_east + r.north * r.v_north

ClosestApproach(r) ==
    IF ClosingSpeedSquared(r) = 0 THEN Instant(0)
    ELSE Later(Instant(0),
               Sooner(Instant(Lookahead), Ratio(-Approach(r), ClosingSpeedSquared(r))))

HorizontalWindow(r) ==
    QuadraticBelow(ClosingSpeedSquared(r), 2 * Approach(r),
                   r.east * r.east + r.north * r.north - Horizontal * Horizontal)
VerticalWindow(r) == LinearWithin(r.altitude, r.v_altitude, Vertical)

\* The vertical standard judged at horizontal closest approach only.
WindowAtClosestApproach(r) ==
    LET t == ClosestApproach(r)
    IN  IF Earlier(Magnitude(At(r.altitude, r.v_altitude, t)), Instant(Vertical))
        THEN Overlap(HorizontalWindow(r), Always) ELSE Never
WindowOfOneStandard(r) == Overlap(HorizontalWindow(r), Always)
Window(r) == Overlap(HorizontalWindow(r), VerticalWindow(r))

HorizontalAt(r, t) ==
    Plus(Square(At(r.east, r.v_east, t)), Square(At(r.north, r.v_north, t)))
VerticalAt(r, t) == Magnitude(At(r.altitude, r.v_altitude, t))

\* What is reported of a pair: when, the square of the least horizontal
\* separation, and the least vertical one.
Report(r) ==
    LET window == Window(r)
        time == IF IsSome(window)
                THEN Later(window.low, Sooner(window.high, ClosestApproach(r)))
                ELSE ClosestApproach(r)
    IN  [time |-> time,
         horizontal_sq |-> HorizontalAt(r, time),
         vertical |-> IF IsSome(window)
                      THEN Sooner(VerticalAt(r, window.low), VerticalAt(r, window.high))
                      ELSE VerticalAt(r, time)]

\* The verdict without probabilities, which is the default.
InConflict(first, second) ==
    LET r == Relative(first, second)
    IN  ~ VerticallyClear(r, 0) /\ IsSome(Window(r))

-----------------------------------------------------------------------------
(* All pairs of a picture, a function from its tracks to their states. *)

EligibleLater(picture) ==
    {i \in DOMAIN picture : picture[i].update_count > MinUpdates}
Eligible(picture) ==
    {i \in DOMAIN picture : picture[i].update_count >= MinUpdates}

InteractionRadius == MaxClosing * Lookahead + Horizontal

\* The sum of a coordinate over tracks.
Total(picture, tracks, axis) ==
    LET sum[some \in SUBSET tracks] ==
            IF some = {} THEN 0
            ELSE LET j == CHOOSE j \in some : TRUE
                 IN  picture[j][axis] + sum[some \ {j}]
    IN  sum[tracks]

\* The cell along an axis, relative to the mean over the eligible tracks.
Cell(picture, i, axis) ==
    LET n == Cardinality(Eligible(picture))
    IN  (n * picture[i][axis] - Total(picture, Eligible(picture), axis))
            \div (n * InteractionRadius)

Adjacent(picture, i, j) ==
    \A axis \in {"east", "north"} : Size(Cell(picture, i, axis) - Cell(picture, j, axis)) <= 1

CandidatePairs(picture) ==
    {pair \in kSubset(2, Eligible(picture)) :
        \A i, j \in pair : Adjacent(picture, i, j)}

Scan(picture) ==
    {pair \in CandidatePairs(picture) :
        \E i, j \in pair : i # j /\ InConflict(picture[i], picture[j])}

-----------------------------------------------------------------------------
(* Probabilities: only where they are none or certain. *)

\* The variance of a relative quantity after the time t = n / m, times m^2.
ProjectedVariance(now, rate, n, m) == now * m * m + rate * n * n

\* P(miss within limit) is nothing, for a miss and a limit times m and a
\* variance times m^2.
Impossible(miss, limit, variance) ==
    \/ limit <= 0
    \/ miss >= limit
       /\ (miss - limit) * (miss - limit) >= SigmaCutoff * SigmaCutoff * variance

\* The rejection widened by the uncertainty at the end of the lookahead.
SlackCovers(r, now, rate) ==
    LET spare == Size(r.altitude) - Size(r.v_altitude) * Lookahead - Vertical
    IN  spare >= 0 /\ spare * spare
            >= SigmaCutoff * SigmaCutoff * ProjectedVariance(now, rate, Lookahead, 1)
RejectedVertically(r, now, rate) == SlackCovers(r, now, rate)

=============================================================================
