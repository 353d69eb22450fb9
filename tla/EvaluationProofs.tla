-------------------------- MODULE EvaluationProofs --------------------------
(***************************************************************************)
(* Proofs about what the evaluation of StagedReplay scores, for any        *)
(* scenarios, standards, horizons and bounds, from what ReplayProofs shows *)
(* of the loop: a loss of separation is foretold in time, how near a pair  *)
(* is said to have come is right, every advisory about a deviation has a   *)
(* manoeuvre for a cause, and a manoeuvre that shows is noticed.           *)
(***************************************************************************)
EXTENDS StagedReplay, ReplayProofs

-----------------------------------------------------------------------------
(* Events. *)

\* The latest of some instants is one of them, and the others were before.
LEMMA LatestFits ==
    ASSUME NEW n \in Nat, NEW S, S \subseteq 0..n, S # {}
    PROVE  Max(S) \in S /\ \A t \in S : t <= Max(S)
<1> DEFINE Bounds == {m \in Nat : \A t \in S : t <= m}
<1>1. n \in Bounds
  OBVIOUS
<1>2. PICK m \in Bounds : \A k \in Bounds : m <= k
  BY <1>1, Least
<1>3. m \in S
  <2> SUFFICES ASSUME m \notin S PROVE FALSE
    OBVIOUS
  <2>1. \A t \in S : t \in Nat /\ t < m
    BY <1>2
  <2>2. m > 0 /\ m - 1 \in Nat
    <3>1. PICK t \in S : TRUE
      OBVIOUS
    <3>2. t \in Nat /\ t < m /\ m \in Nat
      BY <1>2, <2>1, <3>1
    <3> QED
      BY <3>2
  <2>3. m - 1 \in Bounds
    BY <2>1, <2>2
  <2> QED
    BY <1>2, <2>2, <2>3
<1>4. m \in S /\ \A t \in S : m >= t
  BY <1>2, <1>3
<1>5. Max(S) \in S /\ \A t \in S : Max(S) >= t
  BY <1>4 DEF Max
<1> QED
  BY <1>5

\* An event begins at one instant and ends at one.
EventAt(S) == [started : S, ended : Nat]

\* A violation is the end of the last event or begins one.
LEMMA ExtendedFits ==
    ASSUME NEW S, NEW T, S \subseteq T, NEW events \in Seq(EventAt(S)), NEW at \in T, at \in Nat
    PROVE  Extended(events, at) \in Seq(EventAt(T))
<1>1. events \in Seq(EventAt(T))
  <2>1. EventAt(S) \subseteq EventAt(T)
    BY DEF EventAt
  <2> QED
    BY <2>1
<1> DEFINE last == events[Len(events)]
<1>2. CASE events # <<>> /\ at - last.ended <= Bridge
  <2>1. Len(events) \in DOMAIN events /\ last \in EventAt(T)
    BY <1>1, <1>2
  <2>2. [last EXCEPT !.ended = at] \in EventAt(T)
    BY <2>1 DEF EventAt
  <2>3. Extended(events, at) = [events EXCEPT ![Len(events)] = [last EXCEPT !.ended = at]]
    BY <1>2, <2>1 DEF Extended, EventAt
  <2> DEFINE l == Len(events)
             y == [last EXCEPT !.ended = at]
  <2>4. l \in DOMAIN events /\ y \in EventAt(T) /\ Extended(events, at) = [events EXCEPT ![l] = y]
    BY <2>1, <2>2, <2>3
  <2> HIDE DEF y, l
  <2> QED
    BY <1>1, <2>4
<1>3. CASE ~ (events # <<>> /\ at - last.ended <= Bridge)
  <2>1. Extended(events, at) = Append(events, [started |-> at, ended |-> at])
    BY <1>3 DEF Extended
  <2>2. [started |-> at, ended |-> at] \in EventAt(T)
    BY DEF EventAt
  <2> QED
    BY <1>1, <2>1, <2>2
<1> QED
  BY <1>2, <1>3

\* Every event begins with a violation.
LEMMA EventsBegin ==
    ASSUME NEW n \in Nat, NEW V, V \subseteq 0..n
    PROVE  \A e \in Events(V) : e.started \in V
<1> DEFINE Body(f, some) ==
               IF some = {} THEN <<>> ELSE LET x == Max(some) IN Extended(f[some \ {x}], x)
           Before(m) == {some \in SUBSET V : \A t \in some : t < m}
           IsList(f, m) ==
               \A some \in Before(m) : f[some] = Body(f, some) /\ f[some] \in Seq(EventAt(V))
           Listed(m) == \E f : IsList(f, m)
           list == CHOOSE f : f = [some \in SUBSET V |-> Body(f, some)]
<1>1. ASSUME NEW m \in Nat, NEW some \in Before(m), some # {}
      PROVE  /\ m > 0 /\ some \ {Max(some)} \in Before(m - 1) /\ some \ {Max(some)} \in Before(m)
             /\ Max(some) \in V /\ Max(some) \in Nat
  <2>1. some \subseteq 0..n
    OBVIOUS
  <2> DEFINE x == Max(some)
  <2>2. x \in some /\ \A t \in some : t <= x
    BY <1>1, <2>1, LatestFits
  <2>3. some \in SUBSET V /\ \A t \in some : t < m
    OBVIOUS
  <2> HIDE DEF x
  <2>4. x \in Nat /\ x < m /\ x \in V
    BY <2>1, <2>2, <2>3
  <2>5. \A t \in some \ {x} : t < m - 1 /\ t < m
    <3>1. \A t \in some \ {x} : t \in Nat /\ t <= x /\ t # x
      BY <2>1, <2>2
    <3> QED
      BY <2>4, <3>1
  <2>6. some \ {x} \in SUBSET V
    BY <2>3
  <2>7. m > 0
    BY <2>4
  <2> QED
    BY <2>4, <2>5, <2>6, <2>7 DEF x
<1>2. Listed(0)
  <2>1. ASSUME NEW some \in Before(0) PROVE some = {}
    <3> HIDE DEF Before
    <3>1. 0 \in Nat /\ ~ (0 > 0)
      OBVIOUS
    <3> QED
      BY <1>1, <2>1, <3>1
  <2> DEFINE f == [some \in Before(0) |-> <<>>]
  <2>2. IsList(f, 0)
    BY <2>1
  <2> QED
    BY <2>2
<1>3. ASSUME NEW m \in Nat, m > 0, Listed(m - 1) PROVE Listed(m)
  <2>1. PICK f : IsList(f, m - 1)
    BY <1>3
  <2> DEFINE g == [some \in Before(m) |-> Body(f, some)]
  <2>2. ASSUME NEW some \in Before(m)
        PROVE  Body(f, some) \in Seq(EventAt(V)) /\ Body(g, some) = Body(f, some)
    <3>1. CASE some = {}
      BY <3>1
    <3>2. CASE some # {}
      <4> DEFINE x == Max(some)
                 rest == some \ {x}
      <4>1. rest \in Before(m - 1) /\ rest \in Before(m) /\ x \in V /\ x \in Nat
        BY <1>1, <3>2
      <4>2. f[rest] = Body(f, rest) /\ f[rest] \in Seq(EventAt(V))
        BY <2>1, <4>1
      <4>3. g[rest] = f[rest]
        BY <4>1, <4>2
      <4>4. Body(f, some) = Extended(f[rest], x) /\ Body(g, some) = Extended(g[rest], x)
        BY <3>2
      <4> HIDE DEF g, x, rest
      <4>5. Extended(f[rest], x) \in Seq(EventAt(V))
        BY <4>1, <4>2, ExtendedFits
      <4> QED
        BY <4>3, <4>4, <4>5
    <3> QED
      BY <3>1, <3>2
  <2>3. \A some \in Before(m) : g[some] = Body(f, some)
    OBVIOUS
  <2> HIDE DEF Before, Body, g
  <2>4. IsList(g, m)
    BY <2>2, <2>3
  <2> QED
    BY <2>4
<1>4. ASSUME NEW m \in Nat PROVE Listed(m)
  <2> DEFINE Without == {k \in Nat : ~ Listed(k)}
  <2> SUFFICES ASSUME Without # {} PROVE FALSE
    BY <1>4
  <2> HIDE DEF Listed
  <2>1. PICK k \in Without : \A l \in Without : k <= l
    BY Least
  <2>2. k > 0 /\ k - 1 \in Nat
    BY <1>2, <2>1
  <2>3. Listed(k - 1)
    BY <2>1, <2>2
  <2> QED
    BY <1>3, <2>1, <2>2, <2>3
<1>5. \A some \in SUBSET V : some \in Before(n + 1)
  BY DEF Before
<1>6. PICK f : \A some \in SUBSET V : f[some] = Body(f, some)
  <2>1. n + 1 \in Nat
    OBVIOUS
  <2> HIDE DEF Body, Before
  <2> QED
    BY <1>4, <1>5, <2>1
<1> DEFINE g == [some \in SUBSET V |-> f[some]]
<1>7. ASSUME NEW some \in SUBSET V PROVE Body(g, some) = Body(f, some)
  <2>1. some \ {Max(some)} \in SUBSET V
    OBVIOUS
  <2>2. g[some \ {Max(some)}] = f[some \ {Max(some)}]
    BY <2>1
  <2> HIDE DEF g
  <2> QED
    BY <2>2
<1>8. g = [some \in SUBSET V |-> Body(g, some)]
  <2> HIDE DEF Body
  <2> QED
    BY <1>6, <1>7
<1>9. list = [some \in SUBSET V |-> Body(list, some)]
  <2> HIDE DEF g
  <2> QED
    BY <1>8
<1>10. list[V] \in Seq(EventAt(V))
  <2> DEFINE Bad == {m \in Nat : \E some \in Before(m) : list[some] \notin Seq(EventAt(V))}
  <2> SUFFICES ASSUME n + 1 \in Bad PROVE FALSE
    <3> HIDE DEF list, Before
    <3> QED
      BY <1>5
  <2>1. PICK m \in Bad : \A k \in Bad : m <= k
    <3> HIDE DEF Bad
    <3>1. Bad # {}
      OBVIOUS
    <3>2. Bad \subseteq Nat
      BY DEF Bad
    <3> QED
      BY <3>1, <3>2, Least
  <2>2. PICK some \in Before(m) : list[some] \notin Seq(EventAt(V))
    BY <2>1
  <2>3. some \in SUBSET V /\ list[some] = Body(list, some)
    <3> HIDE DEF list, Body
    <3> QED
      BY <1>9, <2>2
  <2>4. CASE some = {}
    <3>1. Body(list, {}) = <<>> /\ <<>> \in Seq(EventAt(V))
      OBVIOUS
    <3> HIDE DEF list, Body
    <3> QED
      BY <2>2, <2>3, <2>4, <3>1
  <2>5. CASE some # {}
    <3> DEFINE x == Max(some)
               rest == some \ {x}
    <3>1. m > 0 /\ rest \in Before(m - 1) /\ x \in V /\ x \in Nat
      BY <1>1, <2>1, <2>5
    <3>2. list[some] = Extended(list[rest], x)
      <4> HIDE DEF list
      <4> QED
        BY <2>3, <2>5
    <3>3. m - 1 \notin Bad /\ m - 1 \in Nat
      <4>1. m \in Nat /\ ~ (m <= m - 1)
        BY <2>1
      <4> HIDE DEF Bad
      <4> QED
        BY <2>1, <3>1, <4>1
    <3> HIDE DEF list, x, rest, Before
    <3>4. list[rest] \in Seq(EventAt(V))
      BY <3>1, <3>3
    <3> QED
      BY <2>2, <3>1, <3>2, <3>4, ExtendedFits
  <2> QED
    BY <2>4, <2>5
<1>11. Events(V) = ToSet(list[V])
  BY DEF Events, MapThenFoldSet
<1> HIDE DEF list
<1>12. ASSUME NEW e \in Events(V) PROVE e.started \in V
  <2>1. PICK i \in DOMAIN list[V] : e = list[V][i]
    BY <1>11 DEF ToSet
  <2>2. e \in EventAt(V)
    BY <1>10, <2>1
  <2> QED
    BY <2>2 DEF EventAt
<1> QED
  BY <1>12

-----------------------------------------------------------------------------
(* Where straight flight is at an instant. *)

EastAt(spec, t) == spec.east + StepsAt(spec, t) * (spec.speed * Unit[spec.heading].east)
NorthAt(spec, t) == spec.north + StepsAt(spec, t) * (spec.speed * Unit[spec.heading].north)
LevelAt(spec, t) == spec.altitude + StepsAt(spec, t) * spec.v_altitude

\* Two aircraft are past each other's standards in flight, neither on the ground.
ApartBy(w, a, b, t) ==
    [east |-> EastAt(w[b], t) - EastAt(w[a], t), north |-> NorthAt(w[b], t) - NorthAt(w[a], t),
     altitude |-> LevelAt(w[b], t) - LevelAt(w[a], t)]
LossOf(w, a, b, t) ==
    /\ a # b
    /\ FirstStep(w[a]) <= t /\ FirstStep(w[b]) <= t
    /\ LevelAt(w[a], t) >= 0 /\ LevelAt(w[b], t) >= 0
    /\ TooClose(ApartBy(w, a, b, t))

\* Where straight flight is, is an integer.
LEMMA CourseFits ==
    ASSUME NEW spec \in AircraftSpec, NEW t \in Nat
    PROVE  /\ StepsAt(spec, t) \in Nat /\ FirstStep(spec) \in Nat
           /\ spec.speed * Unit[spec.heading].east \in Int
           /\ spec.speed * Unit[spec.heading].north \in Int
           /\ spec.east \in Int /\ spec.north \in Int /\ spec.altitude \in Nat
           /\ spec.v_altitude \in Int
           /\ EastAt(spec, t) \in Int /\ NorthAt(spec, t) \in Int /\ LevelAt(spec, t) \in Int
<1> DEFINE k == StepsAt(spec, t)
           ve == spec.speed * Unit[spec.heading].east
           vn == spec.speed * Unit[spec.heading].north
<1>1. /\ spec.heading \in Heading /\ spec.speed \in Int /\ spec.v_altitude \in Int
      /\ spec.altitude \in Nat /\ spec.east \in Int /\ spec.north \in Int /\ spec.entry \in Nat
  BY DEF AircraftSpec
<1>2. FirstStep(spec) \in Nat /\ k \in Nat
  BY <1>1 DEF FirstStep, StepsAt
<1>3. Unit[spec.heading].east \in Int /\ Unit[spec.heading].north \in Int
  BY <1>1, SimulationAssumption DEF Heading
<1>4. ve \in Int /\ vn \in Int
  BY <1>1, <1>3
<1>5. \A x \in Int : k * x \in Int
  BY <1>2
<1>6. /\ EastAt(spec, t) = spec.east + k * ve /\ NorthAt(spec, t) = spec.north + k * vn
      /\ LevelAt(spec, t) = spec.altitude + k * spec.v_altitude
  BY DEF EastAt, NorthAt, LevelAt
<1> HIDE DEF k, ve, vn
<1>7. k * ve \in Int /\ k * vn \in Int /\ k * spec.v_altitude \in Int
  BY <1>1, <1>4, <1>5
<1>8. EastAt(spec, t) \in Int /\ NorthAt(spec, t) \in Int /\ LevelAt(spec, t) \in Int
  BY <1>1, <1>6, <1>7
<1> QED
  BY <1>1, <1>2, <1>4, <1>8 DEF k, ve, vn

\* Of a flight that does not come down first, the update of an instant says where it is
\* later on.
LEMMA CourseIsTold ==
    ASSUME NEW spec \in AircraftSpec, NEW s \in AircraftTruth, NEW u,
           NEW t \in Nat, NEW n \in Nat, FirstStep(spec) <= t,
           StraightAt(s, spec, StepsAt(spec, t)), TellsOf(u, s), LevelAt(spec, t + n) >= 0
    PROVE  /\ u.east + u.v_east * n = EastAt(spec, t + n)
           /\ u.north + u.v_north * n = NorthAt(spec, t + n)
           /\ u.altitude + u.v_altitude * n = LevelAt(spec, t + n)
<1> DEFINE k == StepsAt(spec, t)
           ve == spec.speed * Unit[spec.heading].east
           vn == spec.speed * Unit[spec.heading].north
           v == spec.v_altitude
<1>1. /\ k \in Nat /\ ve \in Int /\ vn \in Int /\ v \in Int
      /\ spec.east \in Int /\ spec.north \in Int /\ spec.altitude \in Nat
      /\ FirstStep(spec) \in Nat
  BY CourseFits
<1>2. StepsAt(spec, t + n) = k + n
  BY <1>1 DEF StepsAt
<1>3. /\ EastAt(spec, t + n) = spec.east + (k + n) * ve
      /\ NorthAt(spec, t + n) = spec.north + (k + n) * vn
      /\ LevelAt(spec, t + n) = spec.altitude + (k + n) * v
  BY <1>2 DEF EastAt, NorthAt, LevelAt
<1>4. /\ u.east = spec.east + k * ve /\ u.north = spec.north + k * vn
      /\ u.v_east = ve /\ u.v_north = vn
      /\ u.altitude = s.altitude /\ u.v_altitude = s.v_altitude
  BY DEF TellsOf, StraightAt
<1>5. \A x, y \in Int : (x + k * y) + y * n = x + (k + n) * y
  BY <1>1
<1>6. s.altitude \in Int /\ s.v_altitude \in Int
  BY DEF AircraftTruth
<1>7. /\ v >= 0 => s.altitude = spec.altitude + k * v /\ s.v_altitude = v
      /\ v < 0 => /\ s.altitude = IF spec.altitude + k * v < 0 THEN 0 ELSE spec.altitude + k * v
                  /\ s.altitude > 0 => s.v_altitude = v
  BY DEF StraightAt
<1> HIDE DEF k, ve, vn, v
<1>8. CASE v >= 0
  BY <1>1, <1>3, <1>4, <1>5, <1>7, <1>8
<1>9. CASE v < 0
  <2> DEFINE now == spec.altitude + k * v
             later == spec.altitude + (k + n) * v
  <2>1. now \in Int /\ later = now + v * n /\ later >= 0
    BY <1>1, <1>3, <1>5
  <2>2. n = 0 \/ v * n < 0
    BY <1>1, <1>9
  <2>3. v * n \in Int /\ (n = 0 => v * n = 0 /\ s.v_altitude * n = 0)
    BY <1>1, <1>6
  <2>4. s.altitude = IF now < 0 THEN 0 ELSE now
    BY <1>7, <1>9
  <2>5. s.altitude > 0 => s.v_altitude * n = v * n
    BY <1>7, <1>9
  <2> HIDE DEF now, later
  <2>6. v * n <= 0
    BY <2>2, <2>3
  <2> DEFINE p == v * n
             q == s.v_altitude * n
  <2>7. now >= 0 /\ s.altitude = now
    <3> HIDE DEF p
    <3> QED
      BY <2>1, <2>3, <2>4, <2>6 DEF p
  <2>8. s.altitude + q = later
    <3>1. n # 0 => s.altitude > 0
      <4>1. p \in Int /\ later = now + p /\ later >= 0 /\ (n # 0 => p < 0)
        BY <2>1, <2>2, <2>3
      <4> HIDE DEF p, q
      <4> QED
        BY <2>1, <2>7, <4>1
    <3>2. q = p
      BY <2>3, <2>5, <3>1
    <3> HIDE DEF p, q
    <3>3. later = now + p
      BY <2>1 DEF p
    <3> QED
      BY <2>7, <3>2, <3>3
  <2>9. u.altitude + u.v_altitude * n = LevelAt(spec, t + n)
    BY <1>3, <1>4, <2>8 DEF later
  <2>10. /\ u.east + u.v_east * n = EastAt(spec, t + n)
         /\ u.north + u.v_north * n = NorthAt(spec, t + n)
    BY <1>1, <1>3, <1>4, <1>5
  <2> QED
    BY <2>9, <2>10
<1> QED
  BY <1>1, <1>8, <1>9

\* A loss of separation that lies ahead of two tracks is a breach of both standards,
\* however finely time is divided.
LEMMA LossIsBreach ==
    ASSUME SeparationAssumption, NEW r \in Geometry, NEW n \in Nat, NEW m \in Nat, m > 0, NEW d,
           d.east = r.east + r.v_east * n, d.north = r.north + r.v_north * n,
           d.altitude = r.altitude + r.v_altitude * n, TooClose(d)
    PROVE  LET east == r.east * m + r.v_east * (n * m)
               north == r.north * m + r.v_north * (n * m)
           IN  /\ east * east + north * north < (Horizontal * m) * (Horizontal * m)
               /\ Size(r.altitude * m + r.v_altitude * (n * m)) < Vertical * m
<1>1. /\ r.east \in Int /\ r.north \in Int /\ r.altitude \in Int
      /\ r.v_east \in Int /\ r.v_north \in Int /\ r.v_altitude \in Int
      /\ Horizontal \in Nat /\ Vertical \in Nat
  BY DEF Geometry, SeparationAssumption
<1>2. \A x, y \in Int : x * m + y * (n * m) = (x + y * n) * m
  OBVIOUS
<1>3. \A x, y \in Int : x + y * n \in Int
  OBVIOUS
<1>4. /\ r.east * m + r.v_east * (n * m) = d.east * m
      /\ r.north * m + r.v_north * (n * m) = d.north * m
      /\ r.altitude * m + r.v_altitude * (n * m) = d.altitude * m
  BY <1>1, <1>2
<1>5. d.east \in Int /\ d.north \in Int /\ d.altitude \in Int
  BY <1>1, <1>3
<1> DEFINE x == d.east
           y == d.north
           z == d.altitude
<1>6. /\ x * x + y * y < Horizontal * Horizontal
      /\ Size(z) < Vertical
  BY DEF TooClose, DistanceSquared
<1>7. x \in Int /\ y \in Int /\ z \in Int
  BY <1>5
<1> HIDE DEF x, y, z
<1>8. (x * m) * (x * m) + (y * m) * (y * m) < (Horizontal * m) * (Horizontal * m)
  <2> DEFINE A == x * x + y * y
             B == Horizontal * Horizontal
             M == m * m
  <2>1. A \in Int /\ B \in Int /\ M \in Int /\ M > 0 /\ A < B
    BY <1>1, <1>6, <1>7
  <2>2. (x * m) * (x * m) + (y * m) * (y * m) = A * M /\ (Horizontal * m) * (Horizontal * m) = B * M
    BY <1>1, <1>7
  <2> HIDE DEF A, B, M
  <2>3. A * M < B * M
    BY <2>1
  <2> QED
    BY <2>2, <2>3
<1>9. Size(z * m) < Vertical * m
  <2>1. z < Vertical /\ -z < Vertical
    BY <1>1, <1>6, <1>7 DEF Size
  <2>2. z * m < Vertical * m /\ (-z) * m < Vertical * m
    BY <1>1, <1>7, <2>1
  <2>3. (-z) * m = -(z * m) /\ z * m \in Int /\ Vertical * m \in Int
    BY <1>1, <1>7
  <2> DEFINE p == z * m
             q == Vertical * m
  <2>4. p < q /\ -p < q /\ p \in Int /\ q \in Int
    BY <2>2, <2>3
  <2> HIDE DEF p, q
  <2>5. Size(p) < q
    BY <2>4 DEF Size
  <2> QED
    BY <2>5 DEF p, q
<1> QED
  BY <1>4, <1>8, <1>9 DEF x, y, z

-----------------------------------------------------------------------------
(* StraightFlightIsForetold. *)

\* Who passes over one that came down straight to the ground stays above the vertical
\* standard: the detector does not know that the ground ends a descent.
GroundIsClear ==
    \A w \in Worlds : \A a, b \in Aircraft : \A t \in 1..Duration :
        (a # b /\ w[a].plan = <<>> /\ w[b].plan = <<>> /\ LevelAt(w[a], t) < 0)
            => LevelAt(w[b], t) >= Vertical

\* A track has as many reports as there were scans that saw everyone, if they count.
CountsKept ==
    /\ fresh \subseteq 1..elapsed
    /\ \A a \in Aircraft :
          update_count[a] >= MinUpdates \/ Cardinality(fresh) <= update_count[a]

\* What is active was raised before.
RaisedKept ==
    \A c \in Condition :
        /\ raised[c] = NotRaised \/ raised[c] <= elapsed
        /\ active[c] # Manager!NotActive => raised[c] # NotRaised

\* Separation is lost in straight flight where the scenario says.
ViolationsKept ==
    Straight => \A t \in violations : \E a, b \in Aircraft : LossOf(world, a, b, t)

\* A scan that saw everyone as they were, and knew them, raised what lay ahead.
ForetoldKept ==
    Straight =>
        \A s \in fresh : \A n \in 0..Lookahead : \A a, b \in Aircraft :
            (LossOf(world, a, b, s + n) /\ Cardinality(fresh \cap 1..s) >= MinUpdates)
                => \A c \in Conflicts : raised[c] <= s

\* What the score says of losses.
EventsKept ==
    outcome = NotScored
        \/ /\ elapsed >= Duration
           /\ outcome.events = Events(violations)
           /\ outcome.detected = DetectedEvents(Events(violations), Alerts)

ForetoldInv ==
    FlightsInv /\ CountsKept /\ RaisedKept /\ ViolationsKept /\ ForetoldKept /\ EventsKept

\* The reports of a scan that saw everyone are counted.
LEMMA CountsStep ==
    ASSUME Typed, CountsKept, NEW reporting \in SUBSET Aircraft, Step(Moved, reporting)
    PROVE  CountsKept'
<1>1. /\ elapsed \in Nat /\ elapsed' = elapsed + 1
      /\ update_count' = [a \in Aircraft |->
             IF a \in reporting THEN Counted(update_count[a]) ELSE update_count[a]]
      /\ fresh' = IF reporting = Aircraft THEN fresh \cup {elapsed + 1} ELSE fresh
  BY DEF Step, Typed, LoopTypeOK
<1>2. fresh \subseteq 1..elapsed /\ IsFiniteSet(fresh) /\ Cardinality(fresh) \in Nat
  <2>1. fresh \subseteq 1..elapsed /\ IsFiniteSet(1..elapsed)
    BY <1>1, FS_Interval DEF CountsKept
  <2> QED
    BY <2>1, FS_Subset, FS_CardinalityType
<1>3. fresh' \subseteq 1..elapsed'
  BY <1>1, <1>2
<1>4. Cardinality(fresh') = IF reporting = Aircraft THEN Cardinality(fresh) + 1 ELSE Cardinality(fresh)
  <2>1. elapsed + 1 \notin fresh
    BY <1>1, <1>2
  <2>2. Cardinality(fresh \cup {elapsed + 1}) = Cardinality(fresh) + 1
    BY <1>2, <2>1, FS_AddElement
  <2> QED
    BY <1>1, <2>2
<1>5. ASSUME NEW a \in Aircraft
      PROVE  update_count'[a] >= MinUpdates \/ Cardinality(fresh') <= update_count'[a]
  <2>1. update_count[a] \in Nat /\ MinUpdates \in Nat
    BY SeparationAssumption DEF Typed, LoopTypeOK
  <2>2. update_count[a] >= MinUpdates \/ Cardinality(fresh) <= update_count[a]
    BY DEF CountsKept
  <2>3. Counted(update_count[a]) = IF update_count[a] < MinUpdates THEN update_count[a] + 1
                                   ELSE update_count[a]
    BY DEF Counted
  <2>4. update_count'[a] = IF a \in reporting THEN Counted(update_count[a]) ELSE update_count[a]
    BY <1>1
  <2> DEFINE c == Cardinality(fresh)
             d == Cardinality(fresh')
  <2>5. /\ c \in Nat /\ ((d = c + 1 /\ reporting = Aircraft) \/ d = c)
        /\ update_count[a] >= MinUpdates \/ c <= update_count[a]
    BY <1>2, <1>4, <2>2
  <2> HIDE DEF c, d
  <2>6. update_count'[a] >= MinUpdates \/ d <= update_count'[a]
    BY <2>1, <2>3, <2>4, <2>5
  <2> QED
    BY <2>6 DEF d
<1> QED
  BY <1>3, <1>5 DEF CountsKept

\* What comes to be active is raised, and what was raised stays so.
LEMMA RaisedStep ==
    ASSUME Typed, RaisedKept, NEW reporting \in SUBSET Aircraft, Step(Moved, reporting)
    PROVE  /\ RaisedKept'
           /\ \A c \in Condition : raised[c] # NotRaised => raised'[c] = raised[c]
<1> DEFINE known == Absorbed(Moved, reporting)
           gone == Stale(known)
           current == [a \in DOMAIN known \ gone |-> known[a]]
           detections == Detections(current, reporting)
           keys == {d.key : d \in detections}
           before == Manager!Older(active, 1)
           alerts == Manager!ReconcileAlerts(before, keys)
           New(c) == \E alert \in alerts : alert.key = c /\ alert.state \in {"NEW"}
<1>1. Scanned(known, gone, detections) /\ elapsed' = elapsed + 1
  BY DEF Step
<1> HIDE DEF known, gone, current, detections
<1>2. /\ active' = Manager!Forgotten(Manager!Reconciled(before, keys), gone)
      /\ raised' = [c \in Condition |->
             IF New(c) /\ raised[c] = NotRaised THEN elapsed + 1 ELSE raised[c]]
  BY <1>1 DEF Scanned
<1>3. active \in Manager!Manager /\ elapsed \in Nat /\ raised \in [Condition -> 1..NotRaised]
      /\ elapsed < Duration /\ Duration \in Nat
  BY ReplayAssumption DEF Typed, LoopTypeOK, Step
<1>4. ASSUME NEW c \in Condition, active'[c] # Manager!NotActive
      PROVE  active[c] # Manager!NotActive \/ New(c)
  <2>1. Manager!Reconciled(before, keys)[c] # Manager!NotActive
    BY <1>2, <1>4 DEF Manager!Forgotten
  <2>2. CASE c \in Manager!Raised(before, keys)
    <3>1. [key |-> c, state |-> "NEW"] \in alerts
      BY <2>2, UpIsPublished
    <3> QED
      BY <3>1
  <2>3. CASE c \notin Manager!Raised(before, keys)
    <3>1. before[c] # Manager!NotActive
      <4>1. ASSUME before[c] = Manager!NotActive PROVE FALSE
        <5>1. c \notin Manager!Due(before, keys) /\ c \notin Manager!Missed(before, keys)
          BY <4>1 DEF Manager!Due, Manager!Missed, Manager!ActiveKeys
        <5>2. c \notin keys
          BY <2>3, <4>1 DEF Manager!Raised, Manager!ActiveKeys
        <5> HIDE DEF keys, before
        <5> QED
          BY <2>1, <2>3, <5>1, <5>2 DEF Manager!Reconciled
      <4> QED
        BY <4>1
    <3> QED
      BY <1>3, <3>1, OlderFits
  <2> QED
    BY <2>2, <2>3
<1> HIDE DEF keys, before, alerts, New
<1>5. ASSUME NEW c \in Condition
      PROVE  /\ raised'[c] = NotRaised \/ raised'[c] <= elapsed'
             /\ active'[c] # Manager!NotActive => raised'[c] # NotRaised
             /\ raised[c] # NotRaised => raised'[c] = raised[c]
  <2>1. raised'[c] = IF New(c) /\ raised[c] = NotRaised THEN elapsed + 1 ELSE raised[c]
    BY <1>2
  <2>2. /\ raised[c] = NotRaised \/ raised[c] <= elapsed
        /\ active[c] # Manager!NotActive => raised[c] # NotRaised
    BY DEF RaisedKept
  <2>3. raised[c] \in Nat /\ NotRaised = Duration + 1 /\ elapsed + 1 # NotRaised
    BY <1>3 DEF NotRaised
  <2>4. raised[c] = NotRaised \/ raised[c] <= elapsed + 1
    BY <1>3, <2>2, <2>3
  <2>5. raised'[c] = NotRaised \/ raised'[c] <= elapsed'
    BY <1>1, <1>3, <2>1, <2>4
  <2>6. active'[c] # Manager!NotActive => raised'[c] # NotRaised
    BY <1>4, <2>1, <2>2, <2>3
  <2> QED
    BY <2>1, <2>5, <2>6
<1> QED
  BY <1>5 DEF RaisedKept

\* Straight flight is at its level, or on the ground once that is below.
LEMMA LevelOrGround ==
    ASSUME NEW spec \in AircraftSpec, NEW t \in Nat, NEW s \in AircraftTruth,
           StraightAt(s, spec, StepsAt(spec, t))
    PROVE  /\ s.east = EastAt(spec, t) /\ s.north = NorthAt(spec, t)
           /\ s.altitude = IF LevelAt(spec, t) < 0 THEN 0 ELSE LevelAt(spec, t)
<1> DEFINE k == StepsAt(spec, t)
           v == spec.v_altitude
<1>1. k \in Nat /\ v \in Int /\ spec.altitude \in Nat /\ LevelAt(spec, t) = spec.altitude + k * v
  BY CourseFits DEF LevelAt
<1>2. s.east = EastAt(spec, t) /\ s.north = NorthAt(spec, t)
  BY DEF StraightAt, EastAt, NorthAt
<1>3. /\ v >= 0 => s.altitude = spec.altitude + k * v
      /\ v < 0 => s.altitude = IF spec.altitude + k * v < 0 THEN 0 ELSE spec.altitude + k * v
  BY DEF StraightAt
<1> HIDE DEF k, v
<1>4. v >= 0 => k * v \in Nat
  BY <1>1
<1>5. v >= 0 => ~ (spec.altitude + k * v < 0)
  BY <1>1, <1>4
<1> QED
  BY <1>1, <1>2, <1>3, <1>5

\* What flies after a step in straight flight has begun to, and is on its course.
LEMMA FlyingOnCourse ==
    ASSUME Typed, StraightKept', NEW reporting \in SUBSET Aircraft, Step(Moved, reporting),
           NEW a \in Flying(Moved), world[a].plan = <<>>
    PROVE  /\ a \in Aircraft /\ world[a] \in AircraftSpec /\ Moved[a] \in AircraftTruth
           /\ FirstStep(world[a]) <= elapsed + 1
           /\ StraightAt(Moved[a], world[a], StepsAt(world[a], elapsed + 1))
<1>1. /\ a \in Aircraft /\ Moved[a].airborne /\ path' = Recorded(Moved) /\ world' = world
  BY DEF Step, Flying
<1>2. elapsed + 1 \in DOMAIN path'[a] /\ path'[a][elapsed + 1] = Moved[a]
  BY <1>1, RecordedFits
<1>3. /\ FirstStep(world[a]) <= elapsed + 1
      /\ StraightAt(path'[a][elapsed + 1], world[a], StepsAt(world[a], elapsed + 1))
  BY <1>1, <1>2 DEF StraightKept
<1>4. world[a] \in AircraftSpec /\ Moved[a] \in AircraftTruth
  BY <1>1, MovedFits, ReplayAssumption DEF Typed, LoopTypeOK
<1> QED
  BY <1>1, <1>2, <1>3, <1>4

\* A loss of separation in straight flight is where the courses say.
LEMMA ViolationsStep ==
    ASSUME Typed, StraightKept', ViolationsKept, GroundIsClear,
           NEW reporting \in SUBSET Aircraft, Step(Moved, reporting)
    PROVE  ViolationsKept'
<1>1. /\ world' = world /\ world \in Worlds /\ elapsed \in Nat /\ elapsed + 1 \in 1..Duration
      /\ violations' = IF Violating(Moved) THEN violations \cup {elapsed + 1} ELSE violations
  BY ReplayAssumption DEF Step, Typed, LoopTypeOK
<1> SUFFICES ASSUME Straight, Violating(Moved)
             PROVE  \E a, b \in Aircraft : LossOf(world, a, b, elapsed + 1)
  BY <1>1 DEF ViolationsKept, Straight
<1> DEFINE t == elapsed + 1
<1>2. PICK a \in Flying(Moved), b \in Flying(Moved) : a # b /\ TooClose(TrueBetween(Moved, a, b))
  BY DEF Violating
<1>3. a \in Aircraft /\ b \in Aircraft /\ world[a].plan = <<>> /\ world[b].plan = <<>>
  BY DEF Straight, Flying
<1>4. /\ world[a] \in AircraftSpec /\ Moved[a] \in AircraftTruth /\ FirstStep(world[a]) <= t
      /\ StraightAt(Moved[a], world[a], StepsAt(world[a], t))
  BY <1>3, FlyingOnCourse
<1>5. /\ world[b] \in AircraftSpec /\ Moved[b] \in AircraftTruth /\ FirstStep(world[b]) <= t
      /\ StraightAt(Moved[b], world[b], StepsAt(world[b], t))
  BY <1>3, FlyingOnCourse
<1>6. t \in Nat /\ t \in 1..Duration
  BY <1>1
<1> HIDE DEF t
<1>7. /\ Moved[a].east = EastAt(world[a], t) /\ Moved[a].north = NorthAt(world[a], t)
      /\ Moved[a].altitude = IF LevelAt(world[a], t) < 0 THEN 0 ELSE LevelAt(world[a], t)
  BY <1>4, <1>6, LevelOrGround
<1>8. /\ Moved[b].east = EastAt(world[b], t) /\ Moved[b].north = NorthAt(world[b], t)
      /\ Moved[b].altitude = IF LevelAt(world[b], t) < 0 THEN 0 ELSE LevelAt(world[b], t)
  BY <1>5, <1>6, LevelOrGround
<1> DEFINE r == TrueBetween(Moved, a, b)
           d == ApartBy(world, a, b, t)
<1>9. /\ r.east = Moved[b].east - Moved[a].east /\ r.north = Moved[b].north - Moved[a].north
      /\ r.altitude = Moved[b].altitude - Moved[a].altitude
  BY DEF TrueBetween, Relative, Seen
<1>10. /\ d.east = EastAt(world[b], t) - EastAt(world[a], t)
       /\ d.north = NorthAt(world[b], t) - NorthAt(world[a], t)
       /\ d.altitude = LevelAt(world[b], t) - LevelAt(world[a], t)
  BY DEF ApartBy
<1>11. Size(r.altitude) < Vertical
  BY <1>2 DEF TooClose
<1>12. LevelAt(world[a], t) \in Int /\ LevelAt(world[b], t) \in Int /\ Vertical \in Nat /\ Vertical > 0
  BY <1>4, <1>5, <1>6, CourseFits, SeparationAssumption
<1> HIDE DEF r, d
<1>13. LevelAt(world[a], t) >= 0 /\ LevelAt(world[b], t) >= 0
  <2>1. LevelAt(world[a], t) < 0 => LevelAt(world[b], t) >= Vertical
    BY <1>1, <1>2, <1>3, <1>6 DEF GroundIsClear
  <2>2. LevelAt(world[b], t) < 0 => LevelAt(world[a], t) >= Vertical
    BY <1>1, <1>2, <1>3, <1>6 DEF GroundIsClear
  <2> QED
    BY <1>7, <1>8, <1>9, <1>11, <1>12, <2>1, <2>2 DEF Size
<1>14. r.east = d.east /\ r.north = d.north /\ r.altitude = d.altitude
  BY <1>7, <1>8, <1>9, <1>10, <1>12, <1>13
<1>15. TooClose(d)
  BY <1>2, <1>14 DEF TooClose, DistanceSquared, r
<1>16. LossOf(world, a, b, t)
  BY <1>2, <1>4, <1>5, <1>13, <1>15 DEF LossOf, d
<1> QED
  BY <1>3, <1>16 DEF t

\* There is one pair.
LEMMA OnlyPair ==
    ASSUME NEW a \in Aircraft, NEW b \in Aircraft, a # b
    PROVE  Conflicts = {Conflict({a, b})}
<1>1. IsFiniteSet(Aircraft) /\ Cardinality(Aircraft) = 2
  BY ReplayAssumption
<1>2. {a, b} \subseteq Aircraft /\ IsFiniteSet({a, b}) /\ Cardinality({a, b}) = 2
  <2>1. IsFiniteSet({a}) /\ Cardinality({a}) = 1 /\ b \notin {a}
    BY FS_Singleton
  <2>2. Cardinality({a} \cup {b}) = Cardinality({a}) + 1
    BY <2>1, FS_AddElement, Zenon
  <2>3. {a} \cup {b} = {a, b} /\ {a, b} \subseteq Aircraft
    OBVIOUS
  <2>4. Cardinality({a} \cup {b}) = 2
    BY <2>1, <2>2
  <2>5. IsFiniteSet({a, b})
    BY <1>1, <2>3, FS_Subset
  <2> QED
    BY <2>3, <2>4, <2>5
<1>3. ASSUME NEW S \in SUBSET Aircraft, Cardinality(S) = 2 PROVE S = Aircraft
  BY <1>1, <1>3, FS_Subset
<1>4. {a, b} = Aircraft
  BY <1>2, <1>3
<1>5. kSubset(2, Aircraft) = {Aircraft}
  BY <1>1, <1>3 DEF kSubset
<1> QED
  BY <1>4, <1>5 DEF Conflicts

\* A scan that sees everyone as they are, and knows them, raises what lies ahead.
LEMMA LossIsRaised ==
    ASSUME Typed, StraightKept', CountsKept', RaisedKept', NoConflictMissed', SeverityIsFresh',
           Straight, Step(Moved, Aircraft), Cardinality(fresh') >= MinUpdates,
           NEW n \in 0..Lookahead, NEW a \in Aircraft, NEW b \in Aircraft,
           LossOf(world, a, b, elapsed + 1 + n)
    PROVE  \A c \in Conflicts : raised'[c] <= elapsed + 1
<1> DEFINE t == elapsed + 1
           known == Absorbed(Moved, Aircraft)
<1>1. /\ elapsed \in Nat /\ elapsed' = t /\ world' = world /\ Lookahead \in Nat
      /\ Aircraft \subseteq Flying(Moved)
      /\ update_count' = [x \in Aircraft |-> Counted(update_count[x])]
      /\ Finest \in Nat /\ Finest > 0
  BY SeparationAssumption, ReplayAssumption DEF Step, Typed, LoopTypeOK
<1>2. \A x \in Aircraft : x \in DOMAIN picture' /\ picture'[x] = Update(Moved, x)
  <2>1. /\ DOMAIN known = DOMAIN picture \cup Aircraft
        /\ Stale(known) \subseteq DOMAIN known \ Aircraft
        /\ DOMAIN picture' = DOMAIN known \ Stale(known)
        /\ \A x \in DOMAIN picture' : picture'[x] = known[x]
    BY KnownFits
  <2>2. \A x \in Aircraft : known[x] = Update(Moved, x)
    BY DEF Absorbed
  <2> HIDE DEF known
  <2> QED
    BY <2>1, <2>2
<1>3. ASSUME NEW x \in Aircraft
      PROVE  /\ world[x] \in AircraftSpec /\ Moved[x] \in AircraftTruth
             /\ FirstStep(world[x]) <= t /\ StraightAt(Moved[x], world[x], StepsAt(world[x], t))
             /\ TellsOf(picture'[x], Moved[x]) /\ IsFlown(picture'[x])
             /\ x \in Eligible(picture')
  <2>1. world[x].plan = <<>> /\ x \in Flying(Moved)
    BY <1>1 DEF Straight
  <2>2. TellsOf(Update(Moved, x), Moved[x])
    BY DEF TellsOf, Update, Seen
  <2>3. Update(Moved, x) \in AircraftUpdate
    BY UpdateFits, MovedFits DEF Typed
  <2>4. picture'[x].update_count = update_count'[x]
    <3>1. Update(Moved, x).update_count = Counted(update_count[x])
      BY DEF Update
    <3>2. update_count'[x] = Counted(update_count[x])
      BY <1>1
    <3> QED
      BY <1>2, <3>1, <3>2
  <2>5. update_count'[x] >= MinUpdates
    <3>1. update_count'[x] >= MinUpdates \/ Cardinality(fresh') <= update_count'[x]
      BY DEF CountsKept
    <3>2. IsFiniteSet(fresh') /\ Cardinality(fresh') \in Nat
      <4>1. fresh' \subseteq 1..t /\ IsFiniteSet(1..t)
        BY <1>1, FS_Interval DEF CountsKept
      <4> QED
        BY <4>1, FS_Subset, FS_CardinalityType
    <3>3. Update(Moved, x).update_count \in 0..MinUpdates /\ MinUpdates \in Nat
      BY <2>3, SeparationAssumption DEF AircraftUpdate
    <3>4. update_count'[x] \in Nat
      BY <1>2, <2>4, <3>3
    <3> DEFINE c == Cardinality(fresh')
               u == update_count'[x]
    <3>5. c \in Nat /\ u \in Nat /\ c >= MinUpdates /\ (u >= MinUpdates \/ c <= u)
      BY <3>1, <3>2, <3>4
    <3> HIDE DEF c, u
    <3>6. u >= MinUpdates
      BY <3>3, <3>5
    <3> QED
      BY <3>6 DEF u
  <2>6. x \in Eligible(picture')
    BY <1>2, <2>4, <2>5 DEF Eligible
  <2>7. IsFlown(Update(Moved, x))
    BY <2>3 DEF AircraftUpdate, IsFlown
  <2> QED
    BY <1>2, <2>1, <2>2, <2>6, <2>7, FlyingOnCourse
<1> DEFINE r == Relative(picture'[a], picture'[b])
           d == ApartBy(world, a, b, t + n)
<1>4. a # b /\ LevelAt(world[a], t + n) >= 0 /\ LevelAt(world[b], t + n) >= 0 /\ TooClose(d)
  BY DEF LossOf
<1>5. /\ d.east = r.east + r.v_east * n /\ d.north = r.north + r.v_north * n
      /\ d.altitude = r.altitude + r.v_altitude * n
  <2>1. t \in Nat /\ n \in Nat
    BY <1>1
  <2>2. /\ picture'[a].east + picture'[a].v_east * n = EastAt(world[a], t + n)
        /\ picture'[a].north + picture'[a].v_north * n = NorthAt(world[a], t + n)
        /\ picture'[a].altitude + picture'[a].v_altitude * n = LevelAt(world[a], t + n)
    BY <1>3, <1>4, <2>1, CourseIsTold
  <2>3. /\ picture'[b].east + picture'[b].v_east * n = EastAt(world[b], t + n)
        /\ picture'[b].north + picture'[b].v_north * n = NorthAt(world[b], t + n)
        /\ picture'[b].altitude + picture'[b].v_altitude * n = LevelAt(world[b], t + n)
    BY <1>3, <1>4, <2>1, CourseIsTold
  <2>4. /\ r.east = picture'[b].east - picture'[a].east
        /\ r.north = picture'[b].north - picture'[a].north
        /\ r.altitude = picture'[b].altitude - picture'[a].altitude
        /\ r.v_east = picture'[b].v_east - picture'[a].v_east
        /\ r.v_north = picture'[b].v_north - picture'[a].v_north
        /\ r.v_altitude = picture'[b].v_altitude - picture'[a].v_altitude
    BY DEF Relative
  <2>5. /\ d.east = EastAt(world[b], t + n) - EastAt(world[a], t + n)
        /\ d.north = NorthAt(world[b], t + n) - NorthAt(world[a], t + n)
        /\ d.altitude = LevelAt(world[b], t + n) - LevelAt(world[a], t + n)
    BY DEF ApartBy
  <2>6. \A x, y, v, w \in Int : (y + w * n) - (x + v * n) = (y - x) + (w - v) * n
    BY <2>1
  <2>7. IsFlown(picture'[a]) /\ IsFlown(picture'[b])
    BY <1>3
  <2> HIDE DEF r, d
  <2> QED
    BY <2>2, <2>3, <2>4, <2>5, <2>6, <2>7 DEF IsFlown
<1>6. {a, b} \in Scan(picture')
  <2>1. r \in Geometry
    BY <1>3, RelativeFits
  <2>2. n \in Nat /\ n * Finest \in 0..(Lookahead * Finest)
    <3>1. n <= Lookahead /\ n \in Nat
      BY <1>1
    <3>2. n * Finest <= Lookahead * Finest /\ n * Finest \in Nat
      BY <1>1, <3>1
    <3> QED
      BY <1>1, <3>1, <3>2
  <2> HIDE DEF r, d
  <2>3. LET east == r.east * Finest + r.v_east * (n * Finest)
            north == r.north * Finest + r.v_north * (n * Finest)
        IN  /\ east * east + north * north < (Horizontal * Finest) * (Horizontal * Finest)
            /\ Size(r.altitude * Finest + r.v_altitude * (n * Finest)) < Vertical * Finest
    BY <1>1, <1>4, <1>5, <2>1, <2>2, SeparationAssumption, LossIsBreach
  <2>4. BreachAt(r, n * Finest, Finest, Horizontal * Finest)
    BY <2>3 DEF BreachAt
  <2>5. Between(a, b)' = r
    BY DEF Between, r
  <2>6. BreachIsScanned(a, b)'
    BY <1>3, <1>4 DEF NoConflictMissed
  <2> QED
    BY <2>2, <2>4, <2>5, <2>6 DEF BreachIsScanned
<1>7. active'[Conflict({a, b})] # Manager!NotActive
  <2> DEFINE x == [key |-> Conflict({a, b}), severity |-> ConflictSeverity(picture', {a, b})]
  <2>1. x \in Detected(picture')
    BY <1>6 DEF Detected
  <2>2. x.key = Conflict({a, b})
    OBVIOUS
  <2> HIDE DEF x
  <2>3. active'[x.key] # Manager!NotActive
    BY <2>1 DEF SeverityIsFresh
  <2> QED
    BY <2>2, <2>3
<1>8. Conflicts = {Conflict({a, b})} /\ Conflict({a, b}) \in Condition
  BY <1>4, OnlyPair DEF Condition
<1>9. raised'[Conflict({a, b})] <= t
  BY <1>1, <1>7, <1>8 DEF RaisedKept
<1> QED
  BY <1>8, <1>9

\* What was raised in time stays so, and what the step raises is in time.
LEMMA ForetoldStep ==
    ASSUME Typed, StraightKept', CountsKept, CountsKept', RaisedKept, RaisedKept', ForetoldKept,
           NoConflictMissed', SeverityIsFresh',
           NEW reporting \in SUBSET Aircraft, Step(Moved, reporting)
    PROVE  ForetoldKept'
<1>1. /\ world' = world /\ elapsed \in Nat /\ elapsed < Duration /\ Duration \in Nat
      /\ fresh' = IF reporting = Aircraft THEN fresh \cup {elapsed + 1} ELSE fresh
      /\ fresh \subseteq 1..elapsed
  BY ReplayAssumption DEF Step, Typed, LoopTypeOK, CountsKept
<1> SUFFICES ASSUME Straight, NEW s \in fresh', NEW n \in 0..Lookahead,
                    NEW a \in Aircraft, NEW b \in Aircraft, LossOf(world, a, b, s + n),
                    Cardinality(fresh' \cap 1..s) >= MinUpdates
             PROVE  \A c \in Conflicts : raised'[c] <= s
  BY <1>1 DEF ForetoldKept, Straight
<1>2. CASE s \in fresh
  <2>1. fresh' \cap 1..s = fresh \cap 1..s /\ s \in 1..elapsed
    BY <1>1, <1>2
  <2>2. \A c \in Conflicts : raised[c] <= s
    BY <1>2, <2>1 DEF ForetoldKept
  <2>3. \A c \in Conflicts : c \in Condition
    BY DEF Condition
  <2>4. \A c \in Condition : raised[c] # NotRaised => raised'[c] = raised[c]
    BY RaisedStep
  <2>5. ~ (NotRaised <= s)
    BY <1>1, <2>1 DEF NotRaised
  <2> QED
    BY <2>2, <2>3, <2>4, <2>5
<1>3. CASE s \notin fresh
  <2>1. reporting = Aircraft /\ s = elapsed + 1
    BY <1>1, <1>3
  <2>2. fresh' \cap 1..s = fresh'
    <3>1. fresh' \subseteq 1..elapsed' /\ elapsed' = s
      BY <2>1 DEF CountsKept, Step
    <3> QED
      BY <3>1
  <2> QED
    BY <2>1, <2>2, LossIsRaised
<1> QED
  BY <1>2, <1>3

\* How it begins.
LEMMA ForetoldInit == Init => CountsKept /\ RaisedKept /\ ViolationsKept /\ ForetoldKept /\ EventsKept
<1> SUFFICES ASSUME Init
             PROVE  CountsKept /\ RaisedKept /\ ViolationsKept /\ ForetoldKept /\ EventsKept
  OBVIOUS
<1>1. /\ fresh = {} /\ violations = {} /\ elapsed = 0 /\ outcome = NotScored
      /\ \A a \in Aircraft : update_count[a] = 0
      /\ \A c \in Condition : active[c] = Manager!NotActive /\ raised[c] = NotRaised
  BY DEF Init
<1>2. Cardinality({}) = 0
  BY FS_EmptySet
<1> QED
  BY <1>1, <1>2 DEF CountsKept, RaisedKept, ViolationsKept, ForetoldKept, EventsKept

\* The inductive invariant, next to what the scans are known to find and to tell.
LEMMA ForetoldNext ==
    ASSUME NeverAtCeiling, GroundIsClear, ForetoldInv, FlightsInv', NoConflictMissed',
           SeverityIsFresh', [Next]_vars
    PROVE  ForetoldInv'
<1>1. ASSUME NEW reporting \in SUBSET Aircraft, Step(Moved, reporting)
      PROVE  CountsKept' /\ RaisedKept' /\ ViolationsKept' /\ ForetoldKept' /\ EventsKept'
  <2>1. Typed /\ StraightKept'
    BY DEF ForetoldInv, FlightsInv
  <2>2. CountsKept' /\ RaisedKept'
    BY <1>1, <2>1, CountsStep, RaisedStep DEF ForetoldInv
  <2>3. ViolationsKept'
    BY <1>1, <2>1, ViolationsStep DEF ForetoldInv
  <2>4. ForetoldKept'
    BY <1>1, <2>1, <2>2, ForetoldStep DEF ForetoldInv
  <2>5. EventsKept'
    <3>1. elapsed < Duration /\ outcome' = outcome /\ elapsed \in Nat /\ Duration \in Nat
      BY <1>1, <2>1, ReplayAssumption DEF Step, Typed, LoopTypeOK
    <3>2. outcome = NotScored
      BY <3>1 DEF ForetoldInv, EventsKept
    <3> QED
      BY <3>1, <3>2 DEF EventsKept
  <2> QED
    BY <2>2, <2>3, <2>4, <2>5
<1>2. ASSUME UNCHANGED <<world, elapsed, update_count, active, violations, raised, fresh>>
      PROVE  CountsKept' /\ RaisedKept' /\ ViolationsKept' /\ ForetoldKept'
  <2>1. /\ world' = world /\ elapsed' = elapsed /\ update_count' = update_count
        /\ active' = active /\ violations' = violations /\ raised' = raised /\ fresh' = fresh
    BY <1>2
  <2>2. CountsKept' /\ RaisedKept'
    BY <2>1 DEF ForetoldInv, CountsKept, RaisedKept
  <2>3. ViolationsKept'
    BY <2>1 DEF ForetoldInv, ViolationsKept, Straight
  <2>4. ForetoldKept'
    BY <2>1 DEF ForetoldInv, ForetoldKept, Straight
  <2> QED
    BY <2>2, <2>3, <2>4
<1>3. CASE Score
  <2>1. UNCHANGED <<world, elapsed, update_count, active, violations, raised, fresh>>
    BY <1>3 DEF Score
  <2>2. /\ elapsed' >= Duration /\ violations' = violations /\ raised' = raised
        /\ outcome'.events = Events(violations)
        /\ outcome'.detected = DetectedEvents(Events(violations), Alerts)
    BY <1>3 DEF Score
  <2>3. EventsKept'
    BY <2>2 DEF EventsKept, Alerts
  <2> QED
    BY <1>2, <2>1, <2>3 DEF ForetoldInv
<1>4. CASE UNCHANGED vars
  <2>1. /\ UNCHANGED <<world, elapsed, update_count, active, violations, raised, fresh>>
        /\ outcome' = outcome /\ elapsed' = elapsed /\ violations' = violations /\ raised' = raised
    BY <1>4 DEF vars
  <2>2. EventsKept'
    BY <2>1 DEF ForetoldInv, EventsKept, Alerts
  <2> QED
    BY <1>2, <2>1, <2>2 DEF ForetoldInv
<1> QED
  BY <1>1, <1>3, <1>4 DEF Next, ForetoldInv

\* A loss of separation in straight flight is foretold by the first scan that saw both
\* aircraft as they were, knew them long enough and looked that far: end to end, from the
\* truth of the simulator and the reports of it through scan and alert manager to the
\* events of the finder and what the evaluation counts as detected.
THEOREM StraightFlightIsForetoldCorrect ==
    ASSUME NeverTooFast, NeverAtCeiling, GroundIsClear
    PROVE  Spec => []StraightFlightIsForetold
<1>1. ForetoldInv => StraightFlightIsForetold
  <2> SUFFICES ASSUME ForetoldInv, Straight, NEW e \in outcome.events, NEW s \in fresh,
                      s <= e.started, e.started <= s + Lookahead,
                      Cardinality(fresh \cap 1..s) >= MinUpdates
               PROVE  e \in outcome.detected /\ \A c \in Conflicts : raised[c] <= s
    BY DEF StraightFlightIsForetold
  <2>1. /\ outcome.events = Events(violations)
        /\ outcome.detected = DetectedEvents(Events(violations), Alerts)
    BY DEF ForetoldInv, EventsKept, NotScored
  <2>2. Duration \in Nat /\ violations \subseteq 1..Duration /\ fresh \subseteq 1..Duration
        /\ Lookahead \in Nat /\ raised \in [Condition -> 1..NotRaised]
    BY ReplayAssumption, SeparationAssumption DEF ForetoldInv, FlightsInv, Typed, LoopTypeOK
  <2>3. e.started \in violations
    <3>1. violations \subseteq 0..Duration
      BY <2>2
    <3> QED
      BY <2>1, <2>2, <3>1, EventsBegin
  <2>4. PICK a \in Aircraft, b \in Aircraft : LossOf(world, a, b, e.started)
    BY <2>3 DEF ForetoldInv, ViolationsKept
  <2> DEFINE n == e.started - s
  <2>5. n \in 0..Lookahead /\ s + n = e.started /\ s \in Nat
    <3> DEFINE t == e.started
    <3>1. /\ s \in Nat /\ t \in Nat /\ Lookahead \in Nat
          /\ s <= t /\ t <= s + Lookahead /\ n = t - s
      <4>1. s \in 1..Duration /\ t \in 1..Duration
        BY <2>2, <2>3
      <4>2. s \in Nat /\ t \in Nat
        BY <2>2, <4>1
      <4> QED
        BY <2>2, <4>2
    <3> HIDE DEF t, n
    <3>2. n \in 0..Lookahead /\ s + n = t
      BY <3>1
    <3> QED
      BY <3>1, <3>2 DEF t
  <2> HIDE DEF n
  <2>6. \A c \in Conflicts : raised[c] <= s
    <3>1. LossOf(world, a, b, s + n)
      BY <2>4, <2>5
    <3> QED
      BY <2>5, <3>1 DEF ForetoldInv, ForetoldKept
  <2>7. Conflict({a, b}) \in Conflicts /\ Conflict({a, b}) \in Condition
    <3>1. a # b
      BY <2>4 DEF LossOf
    <3> QED
      BY <3>1, OnlyPair DEF Condition
  <2> DEFINE at == raised[Conflict({a, b})]
  <2>8. at <= s /\ at \in Nat /\ at # NotRaised
    BY <2>2, <2>5, <2>6, <2>7 DEF NotRaised
  <2>9. at \in Alerts
    BY <2>7, <2>8 DEF Alerts
  <2> HIDE DEF at
  <2>10. at <= e.started
    BY <2>2, <2>3, <2>5, <2>8
  <2>11. e \in outcome.detected
    BY <2>1, <2>9, <2>10 DEF DetectedEvents, Candidates
  <2> QED
    BY <2>6, <2>11
<1>2. Init => ForetoldInv
  BY TypedInit, FlightsInit, ForetoldInit DEF ForetoldInv, FlightsInv
<1>3. ForetoldInv /\ FlightsInv' /\ NoConflictMissed' /\ SeverityIsFresh' /\ [Next]_vars => ForetoldInv'
  BY ForetoldNext
<1> QED
  BY <1>1, <1>2, <1>3, FlightsCorrect, NoConflictMissedCorrect, SeverityIsFreshCorrect, PTL DEF Spec

-----------------------------------------------------------------------------
(* AdvisoriesHaveACause. *)

\* How long a manoeuvre may take, so that what was predicted during it is compared while
\* an advisory is still put down to it: 240 s less a horizon of 60 s and 3 s of tolerance.
Settle == Attribution - Horizon - Tolerance

\* Among these headings and speeds an aircraft stays, every manoeuvre begins in flight and is over
\* in time from any of them, and at none of the speeds an aircraft gets farther within the
\* tolerance than the threshold.
FliesAmong(spec, headings, speeds) ==
    /\ spec.heading \in headings /\ spec.speed \in speeds
    /\ \A v \in speeds : Tolerance * v <= Threshold
    /\ \A i \in DOMAIN spec.plan :
          LET c == spec.plan[i]
          IN  /\ spec.entry <= c.at
              /\ c.kind = "turn" => \A h \in headings :
                    LET turn == BearingDifference(h, c.target)
                    IN  /\ (h + Within(turn, c.rate)) % Circle \in headings
                        /\ Size(turn) <= c.rate * Settle
              /\ c.kind = "speed" => \A v \in speeds :
                    LET pace == c.target - v
                    IN  /\ v + Within(pace, c.rate) \in speeds
                        /\ Size(pace) <= c.rate * Settle

ManoeuvresSettle ==
    /\ Settle \in Nat
    /\ \A w \in Worlds : \A a \in Aircraft :
          \E headings \in SUBSET Heading : \E speeds \in SUBSET Nat :
              FliesAmong(w[a], headings, speeds)

\* A command is being carried out, and what is left of it will be done in time.
Underway(spec, kind, pursuit, left, now) ==
    \E i \in DOMAIN spec.plan :
        LET c == spec.plan[i]
        IN  /\ c.kind = kind /\ c.at <= now
            /\ pursuit = [target |-> c.target, rate |-> c.rate]
            /\ left + c.rate * (now - c.at + 1) <= c.rate * Settle

LeftOfTurn(s) == Size(BearingDifference(s.heading, s.turn.target))
LeftOfPace(s) == Size(s.pace.target - s.speed)

\* An aircraft flies straight, or carries out a command that is not too old.
Steady(s, spec, headings, speeds, now) ==
    /\ s.heading \in headings /\ s.speed \in speeds
    /\ s.turn.rate \in Nat /\ s.pace.rate \in Nat
    /\ LeftOfTurn(s) = 0 \/ Underway(spec, "turn", s.turn, LeftOfTurn(s), now)
    /\ LeftOfPace(s) = 0 \/ Underway(spec, "speed", s.pace, LeftOfPace(s), now)

\* Straight flight from here comes true of a prediction.
Foreseen(p, s, now) ==
    /\ LeftOfTurn(s) = 0 /\ LeftOfPace(s) = 0
    /\ p.east = s.east + (p.valid_at - now) * (s.speed * Unit[s.heading].east)
    /\ p.north = s.north + (p.valid_at - now) * (s.speed * Unit[s.heading].north)

\* Whatever a prediction is found to be off is put down to a command.
Excused(p, spec, now) ==
    \E i \in DOMAIN spec.plan :
        spec.plan[i].at <= now /\ p.valid_at + Tolerance <= spec.plan[i].at + Attribution

\* One number is the remainder.
LEMMA OneRemainder ==
    ASSUME NEW r \in Heading, NEW k \in Int
    PROVE  (r + Circle * k) % Circle = r
<1> DEFINE x == r + Circle * k
           q == x \div Circle
           m == x % Circle
<1>1. Circle \in Nat /\ Circle > 1 /\ r \in Int /\ 0 <= r /\ r < Circle
  BY SimulationAssumption DEF Heading
<1>2. Circle * k \in Int
  BY <1>1
<1>3. x \in Int
  BY <1>1, <1>2
<1> HIDE DEF x
<1>4. q \in Int /\ m \in Int /\ 0 <= m /\ m < Circle /\ x = Circle * q + m
  BY <1>1, <1>3
<1> HIDE DEF q, m
<1>5. Circle * (k - q) = m - r
  <2>1. Circle * (k - q) = Circle * k - Circle * q
    BY <1>1, <1>4
  <2>2. Circle * q \in Int
    BY <1>1, <1>4
  <2> QED
    BY <1>1, <1>2, <1>4, <2>1, <2>2 DEF x
<1>6. -Circle < m - r /\ m - r < Circle
  BY <1>1, <1>4
<1>7. k - q = 0
  <2>1. k - q \in Int
    BY <1>4
  <2>2. k - q >= 1 => Circle * (k - q) >= Circle
    BY <1>1, <2>1
  <2>3. k - q <= -1 => Circle * (k - q) <= -Circle
    BY <1>1, <2>1
  <2> QED
    BY <1>1, <1>4, <1>5, <1>6, <2>1, <2>2, <2>3
<1>8. Circle * (k - q) = 0
  BY <1>1, <1>7
<1>9. m = r
  BY <1>1, <1>4, <1>5, <1>8
<1> QED
  BY <1>9 DEF m, x

\* The shortest turn is what leads there of those of at most half the circle.
LEMMA ShortestTurn ==
    ASSUME NEW h \in Int, NEW t \in Int, NEW d \in Int, NEW k \in Int,
           -Circle < 2 * d, 2 * d <= Circle, t - h = d + Circle * k
    PROVE  BearingDifference(h, t) = d
<1> DEFINE half == Circle \div 2
<1>1. /\ Circle \in Nat /\ Circle > 1 /\ half \in Nat
      /\ 2 * half <= Circle /\ Circle <= 2 * half + 1
  BY SimulationAssumption
<1> HIDE DEF half
<1> DEFINE turns == Circle * k
           delta == ((t - h + half) % Circle) - half
<1>2. turns \in Int /\ t - h + half = (d + half) + turns
  <2>1. turns \in Int
    BY <1>1
  <2> HIDE DEF turns
  <2>2. t - h = d + turns
    BY DEF turns
  <2> QED
    BY <1>1, <2>1, <2>2
<1>3. CASE d + half < Circle
  <2>1. d + half \in Heading
    BY <1>1, <1>3 DEF Heading
  <2>2. (t - h + half) % Circle = d + half
    BY <1>2, <2>1, OneRemainder DEF turns
  <2>3. delta = d
    BY <1>1, <2>2
  <2> HIDE DEF delta
  <2>4. ~ (2 * delta <= -Circle)
    BY <1>1, <2>3
  <2> QED
    BY <2>3, <2>4 DEF BearingDifference, delta, half
<1>4. CASE d + half >= Circle
  <2>1. d = half /\ d + half = Circle
    BY <1>1, <1>4
  <2>2. Circle * (k + 1) = turns + Circle
    BY <1>1
  <2>3. t - h + half = 0 + Circle * (k + 1)
    <3> HIDE DEF turns
    <3> QED
      BY <1>1, <1>2, <2>1, <2>2
  <2>4. 0 \in Heading /\ k + 1 \in Int
    BY <1>1 DEF Heading
  <2>5. (t - h + half) % Circle = 0
    BY <2>3, <2>4, OneRemainder
  <2>6. delta = -half
    BY <1>1, <2>5
  <2> HIDE DEF delta
  <2>7. 2 * delta <= -Circle /\ delta + Circle = d
    BY <1>1, <2>1, <2>6
  <2> QED
    BY <2>7 DEF BearingDifference, delta, half
<1> QED
  BY <1>1, <1>3, <1>4

\* It leads there.
LEMMA TurnLeadsThere ==
    ASSUME NEW h \in Int, NEW t \in Int
    PROVE  LET d == BearingDifference(h, t)
           IN  /\ d \in Int /\ -Circle < 2 * d /\ 2 * d <= Circle
               /\ \E k \in Int : t - h = d + Circle * k
<1> DEFINE half == Circle \div 2
           x == t - h + half
           q == x \div Circle
           m == x % Circle
           delta == m - half
           d == BearingDifference(h, t)
<1>1. /\ Circle \in Nat /\ Circle > 1 /\ half \in Nat
      /\ 2 * half <= Circle /\ Circle <= 2 * half + 1
  BY SimulationAssumption
<1>2. d = IF 2 * delta <= -Circle THEN delta + Circle ELSE delta
  BY DEF BearingDifference
<1> HIDE DEF half, d
<1>3. x \in Int
  BY <1>1
<1>4. q \in Int /\ m \in Int /\ 0 <= m /\ m < Circle /\ x = Circle * q + m
  <2> HIDE DEF x
  <2> QED
    BY <1>1, <1>3
<1> DEFINE turns == Circle * q
<1>5. turns \in Int /\ Circle * (q - 1) = turns - Circle /\ q - 1 \in Int
  <2> HIDE DEF q
  <2> QED
    BY <1>1, <1>4
<1>6. t - h + half = turns + m
  BY <1>4
<1> HIDE DEF m, q, turns
<1>7. d \in Int /\ -Circle < 2 * d /\ 2 * d <= Circle
  BY <1>1, <1>2, <1>4
<1>8. t - h = d + turns \/ t - h = d + (turns - Circle)
  BY <1>1, <1>2, <1>4, <1>5, <1>6
<1>9. \E k \in Int : t - h = d + Circle * k
  BY <1>4, <1>5, <1>8 DEF turns
<1> QED
  BY <1>7, <1>9 DEF d

\* A bounded turn leaves the rest to be done.
LEMMA Turned ==
    ASSUME NEW h \in Heading, NEW t \in Int, NEW rate \in Nat
    PROVE  LET d == BearingDifference(h, t)
               turn == Within(d, rate)
           IN  BearingDifference((h + turn) % Circle, t) = d - turn
<1> DEFINE d == BearingDifference(h, t)
           turn == Within(d, rate)
           x == h + turn
           q == x \div Circle
           next == x % Circle
<1>1. Circle \in Nat /\ Circle > 1 /\ h \in Int
  BY SimulationAssumption DEF Heading
<1>2. PICK k \in Int : t - h = d + Circle * k
  BY <1>1, TurnLeadsThere
<1>3. d \in Int /\ -Circle < 2 * d /\ 2 * d <= Circle
  BY <1>1, TurnLeadsThere
<1> HIDE DEF d
<1>4. /\ turn \in Int /\ d - turn \in Int
      /\ -Circle < 2 * (d - turn) /\ 2 * (d - turn) <= Circle
  BY <1>1, <1>3 DEF Within
<1> HIDE DEF turn
<1>5. x \in Int
  BY <1>1, <1>4
<1>6. q \in Int /\ next \in Int /\ x = Circle * q + next
  <2> HIDE DEF x
  <2> QED
    BY <1>1, <1>5
<1> HIDE DEF q, next
<1>7. t - next = (d - turn) + Circle * (k + q)
  <2> DEFINE u == Circle * k
             w == Circle * q
  <2>1. u \in Int /\ w \in Int /\ Circle * (k + q) = u + w
    BY <1>1, <1>2, <1>6
  <2>2. t - h = d + u /\ h + turn = w + next
    BY <1>2, <1>6
  <2> HIDE DEF u, w
  <2> QED
    BY <1>1, <1>3, <1>4, <1>6, <2>1, <2>2
<1>8. k + q \in Int
  BY <1>2, <1>6
<1> QED
  BY <1>4, <1>6, <1>7, <1>8, ShortestTurn DEF d, turn, next, x

\* A bounded step leaves nothing, or less by the bound.
LEMMA WhatIsLeft ==
    ASSUME NEW d \in Int, NEW rate \in Nat
    PROVE  /\ Size(d) \in Nat /\ Size(d - Within(d, rate)) \in Nat
           /\ \/ Size(d - Within(d, rate)) = 0
              \/ Size(d - Within(d, rate)) = Size(d) - rate
BY DEF Size, Within

\* A command that takes effect is underway, or done.
LEMMA CommandBegins ==
    ASSUME Settle \in Nat, NEW spec \in AircraftSpec, NEW i \in DOMAIN spec.plan,
           NEW left \in Nat, NEW next \in Nat,
           left <= spec.plan[i].rate * Settle,
           next = 0 \/ next = left - spec.plan[i].rate
    PROVE  \/ next = 0
           \/ Underway(spec, spec.plan[i].kind,
                       [target |-> spec.plan[i].target, rate |-> spec.plan[i].rate],
                       next, spec.plan[i].at)
<1> DEFINE c == spec.plan[i]
<1>1. c.at \in Nat /\ c.rate \in Nat
  <2>1. c \in Command
    BY DEF AircraftSpec
  <2> QED
    BY <2>1 DEF Command
<1> SUFFICES ASSUME next = left - c.rate
             PROVE  next + c.rate * (c.at - c.at + 1) <= c.rate * Settle
  BY <1>1 DEF Underway
<1>2. c.at - c.at + 1 = 1 /\ c.rate * 1 = c.rate
  BY <1>1
<1>3. next + c.rate = left
  BY <1>1
<1> QED
  BY <1>2, <1>3

\* It goes on at its rate.
LEMMA CommandGoesOn ==
    ASSUME NEW spec \in AircraftSpec, NEW kind, NEW pursuit, NEW now \in Nat,
           NEW left \in Nat, NEW next \in Nat, Settle \in Nat,
           Underway(spec, kind, pursuit, left, now),
           next = 0 \/ next = left - pursuit.rate
    PROVE  next = 0 \/ Underway(spec, kind, pursuit, next, now + 1)
<1>1. PICK i \in DOMAIN spec.plan :
         /\ spec.plan[i].kind = kind /\ spec.plan[i].at <= now
         /\ pursuit = [target |-> spec.plan[i].target, rate |-> spec.plan[i].rate]
         /\ left + spec.plan[i].rate * (now - spec.plan[i].at + 1) <= spec.plan[i].rate * Settle
  BY DEF Underway
<1> DEFINE c == spec.plan[i]
           done == c.rate * (now - c.at + 1)
<1>2. c.at \in Nat /\ c.rate \in Nat
  <2>1. c \in Command
    BY DEF AircraftSpec
  <2> QED
    BY <2>1 DEF Command
<1>3. pursuit.rate = c.rate
  BY <1>1
<1> SUFFICES ASSUME next = left - c.rate
             PROVE  next + c.rate * ((now + 1) - c.at + 1) <= c.rate * Settle /\ c.at <= now + 1
  BY <1>1, <1>3 DEF Underway
<1> HIDE DEF c
<1>4. done \in Int /\ c.rate * ((now + 1) - c.at + 1) = done + c.rate
  <2> DEFINE m == now - c.at + 1
  <2>1. m \in Int /\ (now + 1) - c.at + 1 = m + 1
    BY <1>2
  <2>2. done = c.rate * m
    OBVIOUS
  <2> HIDE DEF m
  <2>3. c.rate * m \in Int /\ c.rate * (m + 1) = c.rate * m + c.rate
    BY <1>2, <2>1
  <2> QED
    BY <2>1, <2>2, <2>3
<1>5. left + done <= c.rate * Settle /\ c.at <= now
  BY <1>1 DEF c
<1>6. c.rate * Settle \in Int
  BY <1>2
<1> HIDE DEF done
<1> QED
  BY <1>2, <1>4, <1>5, <1>6

\* While it is underway it is not too old to answer for a prediction made now.
LEMMA CommandIsRecent ==
    ASSUME Settle \in Nat, NEW spec \in AircraftSpec, NEW kind, NEW pursuit, NEW now \in Nat,
           NEW left \in Nat, left # 0, Underway(spec, kind, pursuit, left, now)
    PROVE  \E i \in DOMAIN spec.plan :
               spec.plan[i].at <= now /\ now <= spec.plan[i].at + Settle
<1>1. PICK i \in DOMAIN spec.plan :
         /\ spec.plan[i].at <= now
         /\ left + spec.plan[i].rate * (now - spec.plan[i].at + 1) <= spec.plan[i].rate * Settle
  BY DEF Underway
<1> DEFINE c == spec.plan[i]
           since == now - c.at + 1
<1>2. c.at \in Nat /\ c.rate \in Nat
  <2>1. c \in Command
    BY DEF AircraftSpec
  <2> QED
    BY <2>1 DEF Command
<1>3. since \in Int /\ since = now - c.at + 1
  BY <1>2
<1>4. left + c.rate * since <= c.rate * Settle
  BY <1>1
<1> HIDE DEF c, since
<1>5. since * c.rate < Settle * c.rate
  <2>1. c.rate * since = since * c.rate /\ c.rate * Settle = Settle * c.rate
        /\ since * c.rate \in Int /\ Settle * c.rate \in Int
    BY <1>2, <1>3
  <2> QED
    BY <1>4, <2>1
<1>6. since < Settle
  BY <1>2, <1>3, <1>5, Cancelled
<1>7. now <= c.at + Settle
  BY <1>2, <1>3, <1>6
<1> QED
  BY <1>1, <1>7 DEF c

\* What is pursued is as before, or what a command of this instant says.
Obeys(pursuit, before, spec, kind, at) ==
    \/ pursuit = before
    \/ \E i \in DOMAIN spec.plan :
          /\ spec.plan[i].kind = kind /\ spec.plan[i].at = at
          /\ pursuit = [target |-> spec.plan[i].target, rate |-> spec.plan[i].rate]

\* Either way it is pursued at some rate.
LEMMA ObeyedFits ==
    ASSUME NEW spec \in AircraftSpec, NEW kind, NEW at, NEW pursuit, NEW before,
           before.rate \in Nat, Obeys(pursuit, before, spec, kind, at)
    PROVE  pursuit.rate \in Nat
<1>1. \A i \in DOMAIN spec.plan : spec.plan[i] \in Command
  BY DEF AircraftSpec
<1>2. \A i \in DOMAIN spec.plan : spec.plan[i].rate \in Nat
  BY <1>1 DEF Command
<1>3. CASE pursuit = before
  BY <1>3
<1>4. ASSUME NEW i \in DOMAIN spec.plan,
             pursuit = [target |-> spec.plan[i].target, rate |-> spec.plan[i].rate]
      PROVE  pursuit.rate \in Nat
  <2>1. pursuit.rate = spec.plan[i].rate
    BY <1>4
  <2> QED
    BY <1>2, <2>1
<1> QED
  BY <1>3, <1>4 DEF Obeys

\* A command that stands for one step is of that step.
LEMMA StandsNow ==
    ASSUME NEW spec \in AircraftSpec, NEW kind, NEW from \in Nat, NEW now
    PROVE  Obeys(Aim(Standing(spec.plan, kind, from, from + 1), now), now, spec, kind, from + 1)
<1> DEFINE S == Standing(spec.plan, kind, from, from + 1)
<1>1. CASE S = {}
  BY <1>1 DEF Aim, Obeys
<1>2. CASE S # {}
  <2> DEFINE c == CHOOSE c \in S : TRUE
  <2>1. c \in S
    BY <1>2
  <2>2. Aim(S, now) = [target |-> c.target, rate |-> c.rate]
    BY <1>2 DEF Aim
  <2> HIDE DEF c
  <2>3. PICK i \in DOMAIN spec.plan :
           /\ c = spec.plan[i] /\ spec.plan[i].kind = kind
           /\ from < spec.plan[i].at /\ spec.plan[i].at <= from + 1
    BY <2>1 DEF Standing
  <2>4. spec.plan[i].at \in Nat
    <3>1. spec.plan[i] \in Command
      BY DEF AircraftSpec
    <3> QED
      BY <3>1 DEF Command
  <2>5. spec.plan[i].at = from + 1
    BY <2>3, <2>4
  <2> QED
    BY <2>2, <2>3, <2>5 DEF Obeys
<1> QED
  BY <1>1, <1>2

\* What a step of flight does to the course: the turn and the pace go on, and who has
\* neither left to do goes straight.
LEMMA CourseFlown ==
    ASSUME NEW s \in AircraftTruth, s.turn.rate \in Nat, s.pace.rate \in Nat
    PROVE  LET f == Flown(s, 1)
               turn == BearingDifference(s.heading, s.turn.target)
               pace == s.pace.target - s.speed
           IN  /\ f.turn = s.turn /\ f.pace = s.pace
               /\ f.heading = (s.heading + Within(turn, s.turn.rate)) % Circle
               /\ f.speed = s.speed + Within(pace, s.pace.rate)
               /\ LeftOfTurn(f) \in Nat /\ LeftOfPace(f) \in Nat
               /\ LeftOfTurn(f) = 0 \/ LeftOfTurn(f) = LeftOfTurn(s) - s.turn.rate
               /\ LeftOfPace(f) = 0 \/ LeftOfPace(f) = LeftOfPace(s) - s.pace.rate
<1> DEFINE f == Flown(s, 1)
           turn == BearingDifference(s.heading, s.turn.target)
           pace == s.pace.target - s.speed
<1>1. /\ s.heading \in Heading /\ s.speed \in Int
      /\ s.turn.target \in Int /\ s.pace.target \in Int
      /\ s.turn.rate * 1 = s.turn.rate /\ s.pace.rate * 1 = s.pace.rate
  BY DEF AircraftTruth, Pursuit
<1>2. /\ f.turn = s.turn /\ f.pace = s.pace
      /\ f.heading = (s.heading + Within(turn, s.turn.rate * 1)) % Circle
      /\ f.speed = s.speed + Within(pace, s.pace.rate * 1)
  BY DEF Flown
<1>3. turn \in Int /\ pace \in Int /\ s.turn.rate \in Int /\ s.pace.rate \in Int
  <2>1. turn \in Int
    BY <1>1, BearingFits
  <2>2. pace \in Int
    BY <1>1
  <2> QED
    BY <2>1, <2>2
<1> HIDE DEF f, turn, pace
<1>4. f.heading = (s.heading + Within(turn, s.turn.rate)) % Circle
      /\ f.speed = s.speed + Within(pace, s.pace.rate)
  <2>1. /\ Within(turn, s.turn.rate * 1) = Within(turn, s.turn.rate)
        /\ Within(pace, s.pace.rate * 1) = Within(pace, s.pace.rate)
    BY <1>1, Zenon
  <2> QED
    BY <1>2, <2>1, Zenon
<1>5. BearingDifference(f.heading, f.turn.target) = turn - Within(turn, s.turn.rate)
  <2>1. BearingDifference((s.heading + Within(turn, s.turn.rate)) % Circle, s.turn.target)
           = turn - Within(turn, s.turn.rate)
    BY <1>1, Turned DEF turn
  <2> QED
    BY <1>2, <1>4, <2>1, Zenon
<1>6. f.pace.target - f.speed = pace - Within(pace, s.pace.rate)
  <2>1. Within(pace, s.pace.rate) \in Int
    BY <1>3, BearingFits
  <2> QED
    BY <1>1, <1>2, <1>4, <2>1 DEF pace
<1>7. LeftOfTurn(s) = Size(turn) /\ LeftOfPace(s) = Size(pace)
  BY DEF LeftOfTurn, LeftOfPace, turn, pace
<1>8. /\ LeftOfTurn(f) = Size(turn - Within(turn, s.turn.rate))
      /\ LeftOfPace(f) = Size(pace - Within(pace, s.pace.rate))
  BY <1>5, <1>6 DEF LeftOfTurn, LeftOfPace
<1>9. /\ LeftOfTurn(f) \in Nat /\ LeftOfPace(f) \in Nat
      /\ LeftOfTurn(f) = 0 \/ LeftOfTurn(f) = LeftOfTurn(s) - s.turn.rate
      /\ LeftOfPace(f) = 0 \/ LeftOfPace(f) = LeftOfPace(s) - s.pace.rate
  <2>1. /\ Size(turn - Within(turn, s.turn.rate)) \in Nat
        /\ \/ Size(turn - Within(turn, s.turn.rate)) = 0
           \/ Size(turn - Within(turn, s.turn.rate)) = Size(turn) - s.turn.rate
    BY <1>3, WhatIsLeft
  <2>2. /\ Size(pace - Within(pace, s.pace.rate)) \in Nat
        /\ \/ Size(pace - Within(pace, s.pace.rate)) = 0
           \/ Size(pace - Within(pace, s.pace.rate)) = Size(pace) - s.pace.rate
    BY <1>3, WhatIsLeft
  <2> QED
    BY <1>7, <1>8, <2>1, <2>2
<1> QED
  BY <1>2, <1>4, <1>9 DEF f, turn, pace

\* Who has neither a turn nor a pace left to do goes straight.
LEMMA SteadyFlown ==
    ASSUME NEW s \in AircraftTruth, s.turn.rate \in Nat, s.pace.rate \in Nat,
           LeftOfTurn(s) = 0, LeftOfPace(s) = 0
    PROVE  LET f == Flown(s, 1)
           IN  /\ f.heading = s.heading /\ f.speed = s.speed
               /\ f.turn = s.turn /\ f.pace = s.pace
               /\ f.east = s.east + s.speed * Unit[s.heading].east
               /\ f.north = s.north + s.speed * Unit[s.heading].north
<1> DEFINE f == Flown(s, 1)
           turn == Within(BearingDifference(s.heading, s.turn.target), s.turn.rate * 1)
           mid == (s.heading + (turn \div 2)) % Circle
           speed == s.speed + Within(s.pace.target - s.speed, s.pace.rate * 1)
           distance == ((s.speed + speed) * 1) \div 2
<1>1. /\ s.heading \in Heading /\ s.speed \in Int
      /\ s.turn.target \in Int /\ s.pace.target \in Int
      /\ s.turn.rate * 1 \in Nat /\ s.pace.rate * 1 \in Nat
  BY DEF AircraftTruth, Pursuit
<1>2. BearingDifference(s.heading, s.turn.target) = 0 /\ s.pace.target - s.speed = 0
  <2>1. BearingDifference(s.heading, s.turn.target) \in Int
    BY <1>1, BearingFits
  <2>2. \A x \in Int : Size(x) = 0 => x = 0
    BY DEF Size
  <2>3. s.pace.target - s.speed \in Int
    BY <1>1
  <2> QED
    BY <2>1, <2>2, <2>3 DEF LeftOfTurn, LeftOfPace
<1>3. turn = 0
  BY <1>1, <1>2, OnCourse
<1>4. mid = s.heading /\ (s.heading + turn) % Circle = s.heading
  <2>1. 0 \div 2 = 0
    OBVIOUS
  <2> QED
    BY <1>1, <1>3, <2>1, OnCourse
<1>5. speed = s.speed
  <2>1. Within(s.pace.target - s.speed, s.pace.rate * 1) = 0
    BY <1>1, <1>2, OnCourse
  <2> QED
    BY <1>1, <2>1
<1>6. distance = s.speed
  <2>1. \A x \in Int : ((x + x) * 1) \div 2 = x
    OBVIOUS
  <2> QED
    BY <1>1, <1>5, <2>1
<1>7. /\ f.east = s.east + distance * Unit[mid].east
      /\ f.north = s.north + distance * Unit[mid].north
      /\ f.heading = (s.heading + turn) % Circle /\ f.speed = speed
      /\ f.turn = s.turn /\ f.pace = s.pace
  BY DEF Flown
<1> HIDE DEF f, turn, mid, speed, distance
<1> QED
  BY <1>4, <1>5, <1>6, <1>7 DEF f

\* What a step of the simulator does to the two pursuits: a command of that step, or as before.
LEMMA CommandedCourse ==
    ASSUME NEW s \in AircraftTruth, NEW spec \in AircraftSpec, NEW now \in Nat
    PROVE  LET c == Commanded(s, spec.plan, now, now + 1)
           IN  /\ c \in AircraftTruth /\ c.heading = s.heading /\ c.speed = s.speed
               /\ c.east = s.east /\ c.north = s.north
               /\ Obeys(c.turn, s.turn, spec, "turn", now + 1)
               /\ Obeys(c.pace, s.pace, spec, "speed", now + 1)
<1> DEFINE c == Commanded(s, spec.plan, now, now + 1)
<1>1. spec.plan \in Seq(Command)
  BY DEF AircraftSpec
<1>2. /\ c \in AircraftTruth /\ c.heading = s.heading /\ c.speed = s.speed
      /\ c.east = s.east /\ c.north = s.north
      /\ c.turn = Aim(Standing(spec.plan, "turn", now, now + 1), s.turn)
      /\ c.pace = Aim(Standing(spec.plan, "speed", now, now + 1), s.pace)
  BY <1>1, CommandedFits
<1> HIDE DEF c
<1>3. Obeys(c.turn, s.turn, spec, "turn", now + 1)
  BY <1>2, StandsNow
<1>4. Obeys(c.pace, s.pace, spec, "speed", now + 1)
  BY <1>2, StandsNow
<1> QED
  BY <1>2, <1>3, <1>4 DEF c

\* A step of the simulator keeps the turn of an aircraft in hand.
LEMMA TurnStep ==
    ASSUME Settle \in Nat, NEW s \in AircraftTruth, NEW spec \in AircraftSpec, NEW now \in Nat,
           NEW headings \in SUBSET Heading, NEW speeds \in SUBSET Nat,
           FliesAmong(spec, headings, speeds), Steady(s, spec, headings, speeds, now),
           NEW c \in AircraftTruth, c.heading = s.heading, c.pace.rate \in Nat,
           Obeys(c.turn, s.turn, spec, "turn", now + 1)
    PROVE  LET f == Flown(c, 1)
           IN  /\ f.heading \in headings /\ f.turn.rate \in Nat
               /\ LeftOfTurn(f) = 0 \/ Underway(spec, "turn", f.turn, LeftOfTurn(f), now + 1)
<1> DEFINE f == Flown(c, 1)
<1> SUFFICES /\ f.heading \in headings /\ f.turn.rate \in Nat
             /\ LeftOfTurn(f) = 0 \/ Underway(spec, "turn", f.turn, LeftOfTurn(f), now + 1)
  OBVIOUS
<1>1. s.heading \in headings /\ s.heading \in Heading /\ s.turn.rate \in Nat
  BY DEF Steady
<1>2. \A i \in DOMAIN spec.plan : spec.plan[i].rate \in Nat /\ spec.plan[i].target \in Int
  <2>1. \A i \in DOMAIN spec.plan : spec.plan[i] \in Command
    BY DEF AircraftSpec
  <2> QED
    BY <2>1 DEF Command
<1>3. c.turn.rate \in Nat
  BY <1>1, ObeyedFits
<1>4. /\ f.turn = c.turn
      /\ f.heading = (c.heading + Within(BearingDifference(c.heading, c.turn.target), c.turn.rate))
                        % Circle
      /\ LeftOfTurn(f) \in Nat
      /\ LeftOfTurn(f) = 0 \/ LeftOfTurn(f) = LeftOfTurn(c) - c.turn.rate
  BY <1>3, CourseFlown
<1> HIDE DEF f
<1>5. LeftOfTurn(c) \in Nat
  <2>1. c.heading \in Heading /\ c.turn.target \in Int
    BY DEF AircraftTruth, Pursuit
  <2>2. BearingDifference(c.heading, c.turn.target) \in Int
    BY <2>1, BearingFits
  <2>3. \A x \in Int : Size(x) \in Nat
    BY DEF Size
  <2> QED
    BY <2>2, <2>3 DEF LeftOfTurn
<1>6. ASSUME NEW i \in DOMAIN spec.plan, spec.plan[i].kind = "turn",
             c.turn = [target |-> spec.plan[i].target, rate |-> spec.plan[i].rate]
      PROVE  /\ f.heading \in headings
             /\ LeftOfTurn(c) <= spec.plan[i].rate * Settle
  <2>1. c.turn.target = spec.plan[i].target /\ c.turn.rate = spec.plan[i].rate
    BY <1>6
  <2>2. /\ (s.heading + Within(BearingDifference(s.heading, spec.plan[i].target),
                               spec.plan[i].rate)) % Circle \in headings
        /\ Size(BearingDifference(s.heading, spec.plan[i].target)) <= spec.plan[i].rate * Settle
    BY <1>1, <1>6 DEF FliesAmong
  <2> QED
    BY <1>4, <2>1, <2>2 DEF LeftOfTurn
<1>7. CASE \E i \in DOMAIN spec.plan :
              /\ spec.plan[i].kind = "turn" /\ spec.plan[i].at = now + 1
              /\ c.turn = [target |-> spec.plan[i].target, rate |-> spec.plan[i].rate]
  <2>1. PICK i \in DOMAIN spec.plan :
           /\ spec.plan[i].kind = "turn" /\ spec.plan[i].at = now + 1
           /\ c.turn = [target |-> spec.plan[i].target, rate |-> spec.plan[i].rate]
    BY <1>7
  <2>2. f.heading \in headings /\ LeftOfTurn(c) <= spec.plan[i].rate * Settle
    BY <1>6, <2>1
  <2>3. c.turn.rate = spec.plan[i].rate
    BY <2>1
  <2>4. LeftOfTurn(f) = 0 \/ Underway(spec, spec.plan[i].kind,
                       [target |-> spec.plan[i].target, rate |-> spec.plan[i].rate],
                       LeftOfTurn(f), spec.plan[i].at)
    BY <1>4, <1>5, <2>2, <2>3, CommandBegins
  <2> QED
    BY <1>3, <1>4, <2>1, <2>2, <2>4
<1>8. CASE c.turn = s.turn
  <2>1. LeftOfTurn(c) = LeftOfTurn(s)
    BY <1>8 DEF LeftOfTurn
  <2>2. CASE LeftOfTurn(s) = 0
    <3>1. BearingDifference(c.heading, c.turn.target) = 0
      <4>1. c.heading \in Heading /\ c.turn.target \in Int
        BY DEF AircraftTruth, Pursuit
      <4>2. BearingDifference(c.heading, c.turn.target) \in Int
        BY <4>1, BearingFits
      <4>3. \A x \in Int : Size(x) = 0 => x = 0
        BY DEF Size
      <4> QED
        BY <2>1, <2>2, <4>2, <4>3 DEF LeftOfTurn
    <3>2. Within(0, c.turn.rate) = 0 /\ (c.heading + 0) % Circle = c.heading
      BY <1>1, <1>3, OnCourse
    <3>3. f.heading = c.heading
      BY <1>4, <3>1, <3>2
    <3>4. LeftOfTurn(f) = LeftOfTurn(c)
      BY <1>4, <3>3 DEF LeftOfTurn
    <3> QED
      BY <1>1, <1>3, <1>4, <2>1, <2>2, <3>3, <3>4
  <2>3. CASE Underway(spec, "turn", s.turn, LeftOfTurn(s), now)
    <3>1. PICK i \in DOMAIN spec.plan :
             /\ spec.plan[i].kind = "turn"
             /\ s.turn = [target |-> spec.plan[i].target, rate |-> spec.plan[i].rate]
      BY <2>3 DEF Underway
    <3>2. f.heading \in headings
      BY <1>6, <1>8, <3>1
    <3>3. LeftOfTurn(f) = 0 \/ Underway(spec, "turn", s.turn, LeftOfTurn(f), now + 1)
      <4>1. LeftOfTurn(f) = 0 \/ LeftOfTurn(f) = LeftOfTurn(s) - s.turn.rate
        BY <1>4, <1>8, <2>1
      <4>2. LeftOfTurn(s) \in Nat
        BY <1>5, <2>1
      <4> QED
        BY <1>4, <2>3, <4>1, <4>2, CommandGoesOn
    <3> QED
      BY <1>3, <1>4, <1>8, <3>2, <3>3
  <2> QED
    BY <2>2, <2>3 DEF Steady
<1> QED
  BY <1>7, <1>8 DEF Obeys

\* And its pace.
LEMMA PaceStep ==
    ASSUME Settle \in Nat, NEW s \in AircraftTruth, NEW spec \in AircraftSpec, NEW now \in Nat,
           NEW headings \in SUBSET Heading, NEW speeds \in SUBSET Nat,
           FliesAmong(spec, headings, speeds), Steady(s, spec, headings, speeds, now),
           NEW c \in AircraftTruth, c.speed = s.speed, c.turn.rate \in Nat,
           Obeys(c.pace, s.pace, spec, "speed", now + 1)
    PROVE  LET f == Flown(c, 1)
           IN  /\ f.speed \in speeds /\ f.pace.rate \in Nat
               /\ LeftOfPace(f) = 0 \/ Underway(spec, "speed", f.pace, LeftOfPace(f), now + 1)
<1> DEFINE f == Flown(c, 1)
<1> SUFFICES /\ f.speed \in speeds /\ f.pace.rate \in Nat
             /\ LeftOfPace(f) = 0 \/ Underway(spec, "speed", f.pace, LeftOfPace(f), now + 1)
  OBVIOUS
<1>1. s.speed \in speeds /\ s.speed \in Nat /\ s.pace.rate \in Nat
  BY DEF Steady
<1>2. \A i \in DOMAIN spec.plan : spec.plan[i].rate \in Nat /\ spec.plan[i].target \in Int
  <2>1. \A i \in DOMAIN spec.plan : spec.plan[i] \in Command
    BY DEF AircraftSpec
  <2> QED
    BY <2>1 DEF Command
<1>3. c.pace.rate \in Nat
  BY <1>1, ObeyedFits
<1>4. /\ f.pace = c.pace
      /\ f.speed = c.speed + Within(c.pace.target - c.speed, c.pace.rate)
      /\ LeftOfPace(f) \in Nat
      /\ LeftOfPace(f) = 0 \/ LeftOfPace(f) = LeftOfPace(c) - c.pace.rate
  BY <1>3, CourseFlown
<1> HIDE DEF f
<1>5. LeftOfPace(c) \in Nat
  <2>1. c.speed \in Int /\ c.pace.target \in Int
    BY DEF AircraftTruth, Pursuit
  <2>2. \A x \in Int : Size(x) \in Nat
    BY DEF Size
  <2> QED
    BY <2>1, <2>2 DEF LeftOfPace
<1>6. ASSUME NEW i \in DOMAIN spec.plan, spec.plan[i].kind = "speed",
             c.pace = [target |-> spec.plan[i].target, rate |-> spec.plan[i].rate]
      PROVE  /\ f.speed \in speeds
             /\ LeftOfPace(c) <= spec.plan[i].rate * Settle
  <2>1. c.pace.target = spec.plan[i].target /\ c.pace.rate = spec.plan[i].rate
    BY <1>6
  <2>2. /\ s.speed + Within(spec.plan[i].target - s.speed, spec.plan[i].rate) \in speeds
        /\ Size(spec.plan[i].target - s.speed) <= spec.plan[i].rate * Settle
    BY <1>1, <1>6 DEF FliesAmong
  <2> QED
    BY <1>4, <2>1, <2>2 DEF LeftOfPace
<1>7. CASE \E i \in DOMAIN spec.plan :
              /\ spec.plan[i].kind = "speed" /\ spec.plan[i].at = now + 1
              /\ c.pace = [target |-> spec.plan[i].target, rate |-> spec.plan[i].rate]
  <2>1. PICK i \in DOMAIN spec.plan :
           /\ spec.plan[i].kind = "speed" /\ spec.plan[i].at = now + 1
           /\ c.pace = [target |-> spec.plan[i].target, rate |-> spec.plan[i].rate]
    BY <1>7
  <2>2. f.speed \in speeds /\ LeftOfPace(c) <= spec.plan[i].rate * Settle
    BY <1>6, <2>1
  <2>3. c.pace.rate = spec.plan[i].rate
    BY <2>1
  <2>4. LeftOfPace(f) = 0 \/ Underway(spec, spec.plan[i].kind,
                       [target |-> spec.plan[i].target, rate |-> spec.plan[i].rate],
                       LeftOfPace(f), spec.plan[i].at)
    BY <1>4, <1>5, <2>2, <2>3, CommandBegins
  <2> QED
    BY <1>3, <1>4, <2>1, <2>2, <2>4
<1>8. CASE c.pace = s.pace
  <2>1. LeftOfPace(c) = LeftOfPace(s)
    BY <1>8 DEF LeftOfPace
  <2>2. CASE LeftOfPace(s) = 0
    <3>1. c.pace.target - c.speed = 0 /\ c.speed \in Int
      <4>1. c.pace.target - c.speed \in Int /\ c.speed \in Int
        BY DEF AircraftTruth, Pursuit
      <4>2. \A x \in Int : Size(x) = 0 => x = 0
        BY DEF Size
      <4> QED
        BY <2>1, <2>2, <4>1, <4>2 DEF LeftOfPace
    <3>2. Within(0, c.pace.rate) = 0
      BY <1>1, <1>3 DEF Within
    <3>3. f.speed = c.speed
      BY <1>4, <3>1, <3>2
    <3>4. LeftOfPace(f) = LeftOfPace(c)
      BY <1>4, <3>3 DEF LeftOfPace
    <3> QED
      BY <1>1, <1>3, <1>4, <2>1, <2>2, <3>3, <3>4
  <2>3. CASE Underway(spec, "speed", s.pace, LeftOfPace(s), now)
    <3>1. PICK i \in DOMAIN spec.plan :
             /\ spec.plan[i].kind = "speed"
             /\ s.pace = [target |-> spec.plan[i].target, rate |-> spec.plan[i].rate]
      BY <2>3 DEF Underway
    <3>2. f.speed \in speeds
      BY <1>6, <1>8, <3>1
    <3>3. LeftOfPace(f) = 0 \/ Underway(spec, "speed", s.pace, LeftOfPace(f), now + 1)
      <4>1. LeftOfPace(f) = 0 \/ LeftOfPace(f) = LeftOfPace(s) - s.pace.rate
        BY <1>4, <1>8, <2>1
      <4>2. LeftOfPace(s) \in Nat
        BY <1>5, <2>1
      <4> QED
        BY <1>4, <2>3, <4>1, <4>2, CommandGoesOn
    <3> QED
      BY <1>3, <1>4, <1>8, <3>2, <3>3
  <2> QED
    BY <2>2, <2>3 DEF Steady
<1> QED
  BY <1>7, <1>8 DEF Obeys

\* Nothing is underway before an aircraft enters.
LEMMA NothingUnderwayYet ==
    ASSUME NEW spec \in AircraftSpec, NEW headings, NEW speeds, FliesAmong(spec, headings, speeds),
           NEW kind, NEW pursuit, NEW left, NEW now \in Nat, now < spec.entry
    PROVE  ~ Underway(spec, kind, pursuit, left, now)
<1>1. ASSUME NEW i \in DOMAIN spec.plan PROVE now < spec.plan[i].at /\ spec.plan[i].at \in Nat
  <2>1. spec.plan[i] \in Command
    BY DEF AircraftSpec
  <2>2. spec.plan[i].at \in Nat
    BY <2>1 DEF Command
  <2>3. spec.entry \in Nat
    BY DEF AircraftSpec
  <2>4. spec.entry <= spec.plan[i].at
    BY DEF FliesAmong
  <2> QED
    BY <2>2, <2>3, <2>4
<1> QED
  BY <1>1 DEF Underway

\* A step of the simulator keeps an aircraft steady.
LEMMA SteadyStep ==
    ASSUME Settle \in Nat, NEW s \in AircraftTruth, NEW spec \in AircraftSpec, NEW now \in Nat,
           NEW headings \in SUBSET Heading, NEW speeds \in SUBSET Nat,
           FliesAmong(spec, headings, speeds), Steady(s, spec, headings, speeds, now)
    PROVE  Steady(Advanced(s, spec, now, 1), spec, headings, speeds, now + 1)
<1> DEFINE c == Commanded(s, spec.plan, now, now + 1)
           f == Flown(c, 1)
           n == Advanced(s, spec, now, 1)
<1>1. /\ c \in AircraftTruth /\ c.heading = s.heading /\ c.speed = s.speed
      /\ Obeys(c.turn, s.turn, spec, "turn", now + 1)
      /\ Obeys(c.pace, s.pace, spec, "speed", now + 1)
  BY CommandedCourse
<1>2. n = IF now + 1 >= spec.entry THEN f ELSE [c EXCEPT !.airborne = FALSE]
  BY DEF Advanced
<1>3. \A i \in DOMAIN spec.plan : spec.plan[i].rate \in Nat /\ spec.plan[i].at \in Nat
  <2>1. \A i \in DOMAIN spec.plan : spec.plan[i] \in Command
    BY DEF AircraftSpec
  <2> QED
    BY <2>1 DEF Command
<1>4. s.turn.rate \in Nat /\ s.pace.rate \in Nat /\ spec.entry \in Nat
  BY DEF Steady, AircraftSpec
<1> HIDE DEF c, n
<1>5. c.turn.rate \in Nat /\ c.pace.rate \in Nat
  BY <1>1, <1>4, ObeyedFits
<1>6. CASE now + 1 >= spec.entry
  <2>1. /\ f.heading \in headings /\ f.turn.rate \in Nat
        /\ LeftOfTurn(f) = 0 \/ Underway(spec, "turn", f.turn, LeftOfTurn(f), now + 1)
    BY <1>1, <1>5, TurnStep
  <2>2. /\ f.speed \in speeds /\ f.pace.rate \in Nat
        /\ LeftOfPace(f) = 0 \/ Underway(spec, "speed", f.pace, LeftOfPace(f), now + 1)
    BY <1>1, <1>5, PaceStep
  <2>3. n = f
    BY <1>2, <1>6
  <2> HIDE DEF f
  <2> QED
    BY <2>1, <2>2, <2>3 DEF Steady, n
<1>7. CASE ~ (now + 1 >= spec.entry)
  <2>1. now < spec.entry /\ now + 1 \in Nat /\ now + 1 < spec.entry
    BY <1>4, <1>7
  <2>2. LeftOfTurn(s) = 0 /\ LeftOfPace(s) = 0
    BY <2>1, NothingUnderwayYet DEF Steady
  <2>3. \A i \in DOMAIN spec.plan : spec.plan[i].at # now + 1
    BY <1>3, <1>4, <2>1 DEF FliesAmong
  <2>4. c.turn = s.turn /\ c.pace = s.pace
    BY <1>1, <2>3 DEF Obeys
  <2>5. n = [c EXCEPT !.airborne = FALSE]
    BY <1>2, <1>7
  <2>6. n.heading = s.heading /\ n.speed = s.speed /\ n.turn = s.turn /\ n.pace = s.pace
    BY <1>1, <2>4, <2>5 DEF AircraftTruth
  <2>7. LeftOfTurn(n) = 0 /\ LeftOfPace(n) = 0
    BY <2>2, <2>6 DEF LeftOfTurn, LeftOfPace
  <2>8. n.heading \in headings /\ n.speed \in speeds /\ n.turn.rate \in Nat /\ n.pace.rate \in Nat
    BY <2>6 DEF Steady
  <2> QED
    BY <2>7, <2>8 DEF Steady, n
<1> QED
  BY <1>6, <1>7

\* A prediction that is waiting is right if the aircraft flies on, or excused by a command.
Accounted(p, s, spec, now) ==
    p.valid_at <= now + Horizon /\ (Foreseen(p, s, now) \/ Excused(p, spec, now))

\* Flying on makes it no less right; a command that takes effect excuses it.
LEMMA StaysAccounted ==
    ASSUME Settle \in Nat, NEW s \in AircraftTruth, NEW spec \in AircraftSpec, NEW now \in Nat,
           s.turn.rate \in Nat, s.pace.rate \in Nat, spec.entry <= now + 1,
           NEW p \in Prediction, Accounted(p, s, spec, now)
    PROVE  Accounted(p, Advanced(s, spec, now, 1), spec, now + 1)
<1> DEFINE c == Commanded(s, spec.plan, now, now + 1)
           n == Advanced(s, spec, now, 1)
<1>1. /\ c \in AircraftTruth /\ c.heading = s.heading /\ c.speed = s.speed
      /\ c.east = s.east /\ c.north = s.north
      /\ Obeys(c.turn, s.turn, spec, "turn", now + 1)
      /\ Obeys(c.pace, s.pace, spec, "speed", now + 1)
  BY CommandedCourse
<1>2. n = Flown(c, 1)
  <2>1. spec.entry \in Nat
    BY DEF AircraftSpec
  <2> QED
    BY <2>1 DEF Advanced
<1> HIDE DEF c, n
<1>3. /\ p.valid_at \in Nat /\ Horizon \in Nat /\ Tolerance \in Nat /\ Attribution \in Nat
      /\ p.valid_at <= now + Horizon
  BY MonitorAssumption, TruthAssumption DEF Prediction, Accounted
<1>4. p.valid_at <= (now + 1) + Horizon
  BY <1>3
<1>5. \A i \in DOMAIN spec.plan : spec.plan[i].at \in Nat
  <2>1. \A i \in DOMAIN spec.plan : spec.plan[i] \in Command
    BY DEF AircraftSpec
  <2> QED
    BY <2>1 DEF Command
<1>6. CASE Excused(p, spec, now)
  <2>1. PICK i \in DOMAIN spec.plan :
           spec.plan[i].at <= now /\ p.valid_at + Tolerance <= spec.plan[i].at + Attribution
    BY <1>6 DEF Excused
  <2>2. spec.plan[i].at <= now + 1
    BY <1>5, <2>1
  <2> QED
    BY <1>4, <2>1, <2>2 DEF Excused, Accounted, n
<1>7. ASSUME NEW i \in DOMAIN spec.plan, spec.plan[i].at = now + 1
      PROVE  Excused(p, spec, now + 1)
  <2>1. p.valid_at + Tolerance <= (now + 1) + Attribution
    BY <1>3 DEF Settle
  <2>2. spec.plan[i].at <= now + 1
    BY <1>7
  <2> QED
    BY <1>7, <2>1, <2>2 DEF Excused
<1>8. CASE Foreseen(p, s, now) /\ c.turn = s.turn /\ c.pace = s.pace
  <2> DEFINE ve == s.speed * Unit[s.heading].east
             vn == s.speed * Unit[s.heading].north
             k == p.valid_at - (now + 1)
  <2>1. LeftOfTurn(c) = 0 /\ LeftOfPace(c) = 0
    BY <1>1, <1>8 DEF Foreseen, LeftOfTurn, LeftOfPace
  <2>2. c.turn.rate \in Nat /\ c.pace.rate \in Nat
    BY <1>8
  <2>3. /\ n.heading = c.heading /\ n.speed = c.speed /\ n.turn = c.turn /\ n.pace = c.pace
        /\ n.east = c.east + c.speed * Unit[c.heading].east
        /\ n.north = c.north + c.speed * Unit[c.heading].north
    BY <1>1, <1>2, <2>1, <2>2, SteadyFlown
  <2>4. LeftOfTurn(n) = 0 /\ LeftOfPace(n) = 0
    BY <2>1, <2>3 DEF LeftOfTurn, LeftOfPace
  <2>5. n.east = s.east + ve /\ n.north = s.north + vn
    BY <1>1, <2>3
  <2>6. ve \in Int /\ vn \in Int /\ s.east \in Int /\ s.north \in Int
    <3>1. s.speed \in Int /\ s.heading \in Heading
      BY DEF AircraftTruth
    <3>2. Unit[s.heading].east \in Int /\ Unit[s.heading].north \in Int
      BY <3>1, SimulationAssumption DEF Heading
    <3>3. s.east \in Int /\ s.north \in Int
      BY DEF AircraftTruth
    <3> QED
      BY <3>1, <3>2, <3>3
  <2>7. n.speed * Unit[n.heading].east = ve /\ n.speed * Unit[n.heading].north = vn
    BY <1>1, <2>3
  <2>8. /\ p.east = s.east + (p.valid_at - now) * ve
        /\ p.north = s.north + (p.valid_at - now) * vn
    BY <1>8 DEF Foreseen
  <2> HIDE DEF ve, vn
  <2>9. /\ k \in Int /\ p.valid_at - now = k + 1
        /\ (k + 1) * ve = k * ve + ve /\ (k + 1) * vn = k * vn + vn
        /\ k * ve \in Int /\ k * vn \in Int
    <3>1. k \in Int /\ p.valid_at - now = k + 1
      BY <1>3
    <3> HIDE DEF k
    <3> QED
      BY <2>6, <3>1
  <2> HIDE DEF k
  <2>10. p.east = n.east + k * ve /\ p.north = n.north + k * vn
    <3>1. p.east = s.east + (k * ve + ve) /\ p.north = s.north + (k * vn + vn)
      BY <2>8, <2>9
    <3> DEFINE u == k * ve
               w == k * vn
    <3>2. u \in Int /\ w \in Int
      BY <2>9
    <3> HIDE DEF u, w
    <3>3. p.east = s.east + (u + ve) /\ p.north = s.north + (w + vn)
      BY <3>1 DEF u, w
    <3>4. p.east = n.east + u /\ p.north = n.north + w
      BY <2>5, <2>6, <3>2, <3>3
    <3> QED
      BY <3>4 DEF u, w
  <2>11. Foreseen(p, n, now + 1)
    BY <2>4, <2>7, <2>10 DEF Foreseen, k
  <2> QED
    BY <1>4, <2>11 DEF Accounted, n
<1>9. CASE ~ (c.turn = s.turn /\ c.pace = s.pace)
  <2>1. \E i \in DOMAIN spec.plan : spec.plan[i].at = now + 1
    BY <1>1, <1>9 DEF Obeys
  <2>2. Excused(p, spec, now + 1)
    BY <1>7, <2>1
  <2> QED
    BY <1>4, <2>2 DEF Accounted
<1> QED
  BY <1>6, <1>8, <1>9 DEF Accounted

\* What is predicted from an update is right to begin with.
LEMMA PredictedAccounted ==
    ASSUME Settle \in Nat, NEW s \in AircraftTruth, NEW spec \in AircraftSpec, NEW now \in Nat,
           NEW headings, NEW speeds, Steady(s, spec, headings, speeds, now),
           NEW update, update.at = now, update.east = s.east, update.north = s.north,
           update.v_east = s.speed * Unit[s.heading].east,
           update.v_north = s.speed * Unit[s.heading].north
    PROVE  Accounted(Predict(update), s, spec, now)
<1> DEFINE p == Predict(update)
           ve == s.speed * Unit[s.heading].east
           vn == s.speed * Unit[s.heading].north
<1>1. /\ p.valid_at = now + Horizon
      /\ p.east = s.east + Horizon * ve /\ p.north = s.north + Horizon * vn
  BY DEF Predict
<1> HIDE DEF p
<1>2. Horizon \in Nat /\ Tolerance \in Nat /\ Attribution \in Nat /\ (now + Horizon) - now = Horizon
  BY MonitorAssumption, TruthAssumption
<1>3. p.valid_at <= now + Horizon
  BY <1>1, <1>2
<1>4. CASE LeftOfTurn(s) = 0 /\ LeftOfPace(s) = 0
  <2> HIDE DEF ve, vn
  <2>1. p.east = s.east + (p.valid_at - now) * ve /\ p.north = s.north + (p.valid_at - now) * vn
    BY <1>1, <1>2
  <2>2. Foreseen(p, s, now)
    BY <1>4, <2>1 DEF Foreseen, ve, vn
  <2> QED
    BY <1>3, <2>2 DEF Accounted, p
<1>5. CASE ~ (LeftOfTurn(s) = 0 /\ LeftOfPace(s) = 0)
  <2>1. LeftOfTurn(s) \in Nat /\ LeftOfPace(s) \in Nat
    <3>1. s.heading \in Heading /\ s.turn.target \in Int /\ s.speed \in Int /\ s.pace.target \in Int
      BY DEF AircraftTruth, Pursuit
    <3>2. BearingDifference(s.heading, s.turn.target) \in Int
      BY <3>1, BearingFits
    <3>3. \A x \in Int : Size(x) \in Nat
      BY DEF Size
    <3>4. s.pace.target - s.speed \in Int
      BY <3>1
    <3> QED
      BY <3>2, <3>3, <3>4 DEF LeftOfTurn, LeftOfPace
  <2>2. \E i \in DOMAIN spec.plan :
           spec.plan[i].at <= now /\ now <= spec.plan[i].at + Settle
    <3>1. CASE LeftOfTurn(s) # 0
      BY <2>1, <3>1, CommandIsRecent DEF Steady
    <3>2. CASE LeftOfPace(s) # 0
      BY <2>1, <3>2, CommandIsRecent DEF Steady
    <3> QED
      BY <1>5, <3>1, <3>2
  <2>3. PICK i \in DOMAIN spec.plan :
           spec.plan[i].at <= now /\ now <= spec.plan[i].at + Settle
    BY <2>2
  <2>4. spec.plan[i].at \in Nat
    <3>1. spec.plan[i] \in Command
      BY DEF AircraftSpec
    <3> QED
      BY <3>1 DEF Command
  <2>5. p.valid_at + Tolerance <= spec.plan[i].at + Attribution
    BY <1>1, <1>2, <2>3, <2>4 DEF Settle
  <2>6. Excused(p, spec, now)
    BY <2>3, <2>5 DEF Excused
  <2> QED
    BY <1>3, <2>6 DEF Accounted, p
<1> QED
  BY <1>4, <1>5

\* A prediction that comes true is compared within the tolerance, in which the aircraft
\* gets no farther than the threshold.
LEMMA SlipIsTolerated ==
    ASSUME Orthonormal, NEW s \in AircraftTruth, s.speed \in Nat, Tolerance * s.speed <= Threshold,
           NEW now \in Nat, NEW p \in Prediction, Foreseen(p, s, now),
           now <= p.valid_at + Tolerance, p.valid_at <= now + Tolerance,
           NEW update, update.east = s.east, update.north = s.north
    PROVE  ErrorSquared(p, update) <= Threshold * Threshold
<1> DEFINE k == p.valid_at - now
           u == Unit[s.heading]
           v == s.speed
           kv == k * v
<1>1. /\ u.east \in Int /\ u.north \in Int /\ u.east * u.east + u.north * u.north = 1
      /\ s.east \in Int /\ s.north \in Int
  <2>1. s.heading \in Heading /\ s.east \in Int /\ s.north \in Int
    BY DEF AircraftTruth
  <2> QED
    BY <2>1, SimulationAssumption DEF Heading, Orthonormal
<1>2. k \in Int /\ Size(k) \in Nat /\ Size(k) <= Tolerance /\ Tolerance \in Nat /\ Threshold \in Nat
  <2>1. p.valid_at \in Nat /\ Tolerance \in Nat /\ Threshold \in Nat
    BY MonitorAssumption DEF Prediction
  <2> QED
    BY <2>1 DEF Size
<1>3. p.east = s.east + k * (v * u.east) /\ p.north = s.north + k * (v * u.north)
  BY DEF Foreseen
<1>4. v \in Nat /\ Tolerance * v <= Threshold
  OBVIOUS
<1> HIDE DEF k, u, v
<1>5. kv \in Int /\ k * (v * u.east) = kv * u.east /\ k * (v * u.north) = kv * u.north
  BY <1>1, <1>2, <1>4
<1>6. Size(kv) \in Nat /\ Size(kv) <= Threshold
  <2>1. Size(k) * v <= Tolerance * v
    BY <1>2, <1>4, Products
  <2>2. Size(kv) = Size(k) * v /\ Size(k) * v \in Nat
    <3>1. CASE k >= 0
      <4>1. kv >= 0
        BY <1>2, <1>4, <3>1
      <4> QED
        BY <1>2, <1>4, <1>5, <3>1, <4>1 DEF Size
    <3>2. CASE k < 0
      <4>1. (-k) * v >= 0 /\ (-k) * v = -kv /\ (-k) * v \in Int
        BY <1>2, <1>4, <3>2
      <4>2. Size(k) = -k /\ Size(kv) = -kv
        <5>1. kv <= 0
          BY <1>5, <4>1
        <5> HIDE DEF kv
        <5> QED
          BY <1>2, <1>5, <3>2, <5>1 DEF Size
      <4> QED
        BY <4>1, <4>2
    <3> QED
      BY <1>2, <3>1, <3>2
  <2>3. Tolerance * v \in Int
    BY <1>2, <1>4
  <2> QED
    BY <1>2, <1>4, <2>1, <2>2, <2>3
<1> HIDE DEF kv
<1>7. p.east - update.east = kv * u.east /\ p.north - update.north = kv * u.north
  <2> DEFINE x == kv * u.east
             y == kv * u.north
  <2>1. x \in Int /\ y \in Int
    BY <1>1, <1>5
  <2>2. p.east = s.east + x /\ p.north = s.north + y
    BY <1>3, <1>5
  <2> HIDE DEF x, y
  <2>3. p.east - s.east = x /\ p.north - s.north = y
    BY <1>1, <2>1, <2>2
  <2> QED
    BY <2>3 DEF x, y
<1>8. (kv * u.east) * (kv * u.east) + (kv * u.north) * (kv * u.north) = kv * kv
  <2>1. (kv * u.east) * (kv * u.east) + (kv * u.north) * (kv * u.north)
           = (kv * kv) * (u.east * u.east + u.north * u.north)
    BY <1>1, <1>5
  <2>2. (kv * kv) * 1 = kv * kv
    BY <1>5
  <2> QED
    BY <1>1, <2>1, <2>2
<1>9. kv * kv = Size(kv) * Size(kv)
  BY <1>5 DEF Size
<1>10. Size(kv) * Size(kv) <= Threshold * Threshold
  BY <1>2, <1>6, Squares
<1>11. ErrorSquared(p, update) = kv * kv
  BY <1>7, <1>8 DEF ErrorSquared
<1> QED
  BY <1>9, <1>10, <1>11

\* What is popped is due.
LEMMA PoppedIsDue ==
    ASSUME NEW queue \in Seq(Prediction), NEW now \in Nat
    PROVE  /\ DueCount(queue, now) \in 0..Len(queue)
           /\ \A i \in 1..DueCount(queue, now) :
                 i \in 1..Len(queue) /\ queue[i].valid_at <= now + Tolerance
           /\ Popped(queue, now) \in Seq(Prediction)
           /\ Len(Popped(queue, now)) = DueCount(queue, now)
           /\ \A i \in 1..DueCount(queue, now) : Popped(queue, now)[i] = queue[i]
<1> DEFINE n == DueCount(queue, now)
           P == Popped(queue, now)
           I == {i \in 1..Len(queue) : now < queue[i].valid_at - Tolerance}
           later == IF I # {} THEN Min(I) ELSE 0
<1>1. /\ Len(queue) \in Nat /\ DOMAIN queue = 1..Len(queue) /\ Tolerance \in Nat
      /\ \A i \in 1..Len(queue) : queue[i] \in Prediction /\ queue[i].valid_at \in Nat
  BY PredictionsFit, MonitorAssumption
<1>2. n \in 0..Len(queue)
  BY DueCountFits
<1>3. n = IF later = 0 THEN Len(queue) ELSE later - 1
  BY DEF DueCount, SelectInSeq
<1>4. P = SubSeq(queue, 1, n)
  BY DEF Popped
<1>5. ASSUME NEW i \in 1..n PROVE ~ (now < queue[i].valid_at - Tolerance)
  <2>1. i \in 1..Len(queue)
    BY <1>1, <1>2
  <2>2. CASE I = {}
    BY <2>1, <2>2
  <2>3. CASE I # {}
    <3>1. I \subseteq Nat
      OBVIOUS
    <3>2. Min(I) \in I /\ \A k \in I : Min(I) <= k
      BY <2>3, <3>1, Least
    <3>3. later = Min(I)
      BY <2>3
    <3> HIDE DEF later
    <3>4. later \in Nat /\ later # 0 /\ \A k \in I : later <= k
      BY <3>2, <3>3
    <3>5. n = later - 1
      BY <1>3, <3>4
    <3> HIDE DEF n
    <3>6. i < later /\ i \in Nat
      BY <3>4, <3>5
    <3>7. i \notin I
      BY <3>4, <3>6
    <3> QED
      BY <2>1, <3>7
  <2> QED
    BY <2>2, <2>3
<1> HIDE DEF n, I, later
<1>6. n \in Nat /\ n <= Len(queue)
  BY <1>1, <1>2
<1>7. /\ P \in Seq(Prediction) /\ Len(P) = n
      /\ \A i \in 1..n : P[i] = queue[i]
  <2>1. \A i \in 1..n : queue[i] \in Prediction
    BY <1>1, <1>6
  <2>2. /\ SubSeq(queue, 1, n) \in Seq(Prediction)
        /\ Len(SubSeq(queue, 1, n)) = IF 1 <= n THEN n - 1 + 1 ELSE 0
        /\ \A i \in 1..(n - 1 + 1) : SubSeq(queue, 1, n)[i] = queue[1 + i - 1]
    BY <1>6, <2>1, SubSeqProperties
  <2>3. \A i \in 1..n : SubSeq(queue, 1, n)[i] = queue[i]
    <3>1. n - 1 + 1 = n /\ \A i \in 1..n : 1 + i - 1 = i
      BY <1>6
    <3> QED
      BY <2>2, <3>1
  <2>4. Len(SubSeq(queue, 1, n)) = n
    BY <1>6, <2>2
  <2> QED
    BY <1>4, <2>2, <2>3, <2>4
<1>8. ASSUME NEW i \in 1..n PROVE i \in 1..Len(queue) /\ queue[i].valid_at <= now + Tolerance
  <2>1. i \in 1..Len(queue)
    BY <1>1, <1>6
  <2> DEFINE at == queue[i].valid_at
  <2>2. at \in Nat /\ ~ (now < at - Tolerance)
    BY <1>1, <1>5, <2>1
  <2> HIDE DEF at
  <2>3. at <= now + Tolerance
    BY <1>1, <2>2
  <2> QED
    BY <2>1, <2>3 DEF at
<1> QED
  BY <1>2, <1>7, <1>8 DEF n, P

\* What is compared is due and has not missed its instant.
LEMMA CheckedFits ==
    ASSUME NEW queue \in Seq(Prediction), NEW now \in Nat, NEW p \in Checked(queue, now)
    PROVE  /\ \E i \in DOMAIN queue : p = queue[i]
           /\ p \in Prediction
           /\ now <= p.valid_at + Tolerance /\ p.valid_at <= now + Tolerance
<1> DEFINE n == DueCount(queue, now)
           P == Popped(queue, now)
<1>1. /\ DOMAIN queue = 1..Len(queue)
      /\ \A i \in 1..Len(queue) : queue[i] \in Prediction
  BY PredictionsFit
<1>2. /\ n \in 0..Len(queue) /\ P \in Seq(Prediction) /\ Len(P) = n
      /\ \A i \in 1..n :
            i \in 1..Len(queue) /\ queue[i].valid_at <= now + Tolerance /\ P[i] = queue[i]
  BY PoppedIsDue
<1>3. p \in ToSet(P) /\ now <= p.valid_at + Tolerance
  BY DEF Checked
<1> HIDE DEF n, P
<1>4. PICK i \in 1..n : p = queue[i]
  <2>1. DOMAIN P = 1..n
    BY <1>2
  <2> QED
    BY <1>2, <1>3, <2>1 DEF ToSet
<1> QED
  BY <1>1, <1>2, <1>3, <1>4

\* What waits after an update was waiting before, or is its prediction.
LEMMA ObservedHolds ==
    ASSUME NEW queue \in Seq(Prediction), NEW update \in AircraftUpdate
    PROVE  /\ Observed(queue, update) \in Seq(Prediction)
           /\ \A i \in DOMAIN Observed(queue, update) :
                 \/ Observed(queue, update)[i] = Predict(update)
                 \/ \E j \in DOMAIN queue : Observed(queue, update)[i] = queue[j]
<1> DEFINE n == DueCount(queue, update.at)
           W == Waiting(queue, update.at)
           p == Predict(update)
           Q == Append(W, p)
           B == Bounded(Q)
           Known(x) == x = p \/ \E j \in DOMAIN queue : x = queue[j]
<1>1. update.at \in Nat /\ Horizon \in Nat /\ MaxPending \in Nat
  BY MonitorAssumption DEF AircraftUpdate
<1>2. /\ Len(queue) \in Nat /\ DOMAIN queue = 1..Len(queue)
      /\ \A i \in 1..Len(queue) : queue[i] \in Prediction
  BY PredictionsFit
<1>3. p \in Prediction
  BY PredictFits
<1>4. n \in 0..Len(queue)
  BY <1>1, DueCountFits
<1>5. W = SubSeq(queue, n + 1, Len(queue))
  BY DEF Waiting
<1> HIDE DEF n, p, W
<1>6. n \in Nat /\ n <= Len(queue)
  BY <1>2, <1>4
<1>7. /\ W \in Seq(Prediction) /\ Len(W) \in Nat /\ DOMAIN W = 1..Len(W)
      /\ \A i \in DOMAIN W : Known(W[i])
  <2>1. \A i \in (n + 1)..Len(queue) : queue[i] \in Prediction
    BY <1>2, <1>6
  <2>2. /\ W \in Seq(Prediction)
        /\ Len(W) = IF n + 1 <= Len(queue) THEN Len(queue) - (n + 1) + 1 ELSE 0
        /\ \A i \in 1..(Len(queue) - (n + 1) + 1) : W[i] = queue[(n + 1) + i - 1]
    <3>1. n + 1 \in Int /\ Len(queue) \in Int
      BY <1>2, <1>6
    <3> QED
      BY <1>5, <2>1, <3>1, SubSeqProperties
  <2>3. Len(W) = Len(queue) - n /\ Len(queue) - (n + 1) + 1 = Len(queue) - n
    <3> DEFINE l == Len(queue)
    <3>1. l \in Nat /\ n <= l
      BY <1>2, <1>6
    <3>2. Len(W) = IF n + 1 <= l THEN l - (n + 1) + 1 ELSE 0
      BY <2>2
    <3> HIDE DEF l
    <3>3. Len(W) = l - n /\ l - (n + 1) + 1 = l - n
      BY <1>6, <3>1, <3>2
    <3> QED
      BY <3>3 DEF l
  <2>4. Len(W) \in Nat /\ DOMAIN W = 1..Len(W)
    BY <2>2, PredictionsFit
  <2>5. ASSUME NEW i \in DOMAIN W PROVE Known(W[i])
    <3>1. i \in 1..(Len(queue) - n) /\ i \in Nat
      BY <2>3, <2>4
    <3>2. (n + 1) + i - 1 \in 1..Len(queue)
      BY <1>2, <1>6, <3>1
    <3>3. W[i] = queue[(n + 1) + i - 1]
      BY <2>2, <2>3, <3>1
    <3> QED
      BY <1>2, <3>2, <3>3
  <2> QED
    BY <2>2, <2>4, <2>5
<1>8. /\ Q \in Seq(Prediction) /\ Len(Q) \in Nat /\ DOMAIN Q = 1..Len(Q)
      /\ \A i \in 1..Len(Q) : Q[i] \in Prediction /\ Known(Q[i])
  <2>1. /\ Q \in Seq(Prediction) /\ Len(Q) = Len(W) + 1
        /\ \A i \in 1..Len(W) : Q[i] = W[i]
        /\ Q[Len(W) + 1] = p
    BY <1>3, <1>7, AppendProperties
  <2> HIDE DEF Q
  <2>2. Len(Q) \in Nat /\ DOMAIN Q = 1..Len(Q) /\ \A i \in 1..Len(Q) : Q[i] \in Prediction
    BY <2>1, PredictionsFit
  <2>3. ASSUME NEW i \in 1..Len(Q) PROVE Known(Q[i])
    <3>1. i \in 1..Len(W) \/ i = Len(W) + 1
      BY <1>7, <2>1
    <3>2. CASE i \in 1..Len(W)
      <4>1. Q[i] = W[i] /\ i \in DOMAIN W
        BY <1>7, <2>1, <3>2
      <4> HIDE DEF Known
      <4> QED
        BY <1>7, <4>1
    <3>3. CASE i = Len(W) + 1
      BY <2>1, <3>3
    <3> QED
      BY <3>1, <3>2, <3>3
  <2> QED
    BY <2>1, <2>2, <2>3
<1> HIDE DEF Q, Known
<1>9. B \in Seq(Prediction) /\ \A i \in DOMAIN B : Known(B[i])
  <2>1. CASE ~ (Len(Q) > MaxPending)
    BY <1>8, <2>1 DEF Bounded
  <2>2. CASE Len(Q) > MaxPending
    <3> DEFINE m == Len(Q) - MaxPending + 1
    <3>1. m \in 1..Len(Q) \/ m = Len(Q) + 1
      BY <1>1, <1>8, <2>2
    <3>2. m \in Int /\ m >= 1 /\ Len(Q) \in Int
      BY <1>1, <1>8, <2>2
    <3>3. B = SubSeq(Q, m, Len(Q))
      BY <2>2 DEF Bounded
    <3> HIDE DEF m, B
    <3>4. \A i \in m..Len(Q) : Q[i] \in Prediction
      BY <1>8, <3>2
    <3>5. /\ B \in Seq(Prediction)
          /\ Len(B) = IF m <= Len(Q) THEN Len(Q) - m + 1 ELSE 0
          /\ \A i \in 1..(Len(Q) - m + 1) : B[i] = Q[m + i - 1]
      BY <3>2, <3>3, <3>4, SubSeqProperties
    <3>6. ASSUME NEW i \in DOMAIN B PROVE Known(B[i])
      <4>1. DOMAIN B = 1..Len(B)
        BY <3>5
      <4>2. i \in 1..(Len(Q) - m + 1) /\ i \in Nat
        BY <3>2, <3>5, <4>1
      <4>3. m + i - 1 \in 1..Len(Q)
        BY <1>8, <3>2, <4>2
      <4>4. B[i] = Q[m + i - 1]
        BY <3>5, <4>2
      <4> QED
        BY <1>8, <4>3, <4>4
    <3> QED
      BY <3>5, <3>6
  <2> QED
    BY <2>1, <2>2
<1>10. Observed(queue, update) = B
  BY DEF Observed, Q, W, p
<1> QED
  BY <1>9, <1>10 DEF Known, p

\* What is flown, what is predicted of it, and what is said of that.
SteadyKept ==
    \A a \in Aircraft :
        \E headings \in SUBSET Heading : \E speeds \in SUBSET Nat :
            /\ FliesAmong(world[a], headings, speeds)
            /\ Steady(truth[a], world[a], headings, speeds, elapsed)
PredictionsAccounted ==
    \A a \in Aircraft :
        /\ pending[a] \in Seq(Prediction)
        /\ pending[a] # <<>> => world[a].entry <= elapsed
        /\ \A i \in DOMAIN pending[a] :
              Accounted(pending[a][i], truth[a], world[a], elapsed)
AdvisoriesCaused ==
    \A a \in Aircraft : \A t \in advisories[a] : Causes(Manoeuvres(a), t) # {}

CauseInv == SteadyKept /\ PredictionsAccounted /\ AdvisoriesCaused /\ AdvisoriesHaveACause

\* At the start everyone is on course.
LEMMA CauseInit == ASSUME ManoeuvresSettle PROVE Init => CauseInv
<1> SUFFICES ASSUME Init PROVE CauseInv
  OBVIOUS
<1>1. /\ world \in Worlds /\ elapsed = 0 /\ \A a \in Aircraft : truth[a] = InitialTruth(world[a])
      /\ \A a \in Aircraft : pending[a] = <<>> /\ advisories[a] = {}
      /\ outcome = NotScored
  BY DEF Init
<1>2. ASSUME NEW a \in Aircraft
      PROVE  \E headings \in SUBSET Heading : \E speeds \in SUBSET Nat :
                /\ FliesAmong(world[a], headings, speeds)
                /\ Steady(truth[a], world[a], headings, speeds, elapsed)
  <2>1. PICK headings \in SUBSET Heading, speeds \in SUBSET Nat :
           FliesAmong(world[a], headings, speeds)
    BY <1>1 DEF ManoeuvresSettle
  <2>2. world[a].heading \in Heading /\ world[a].speed \in Nat
    <3>1. world[a] \in AircraftSpec
      BY <1>1, ReplayAssumption
    <3> QED
      BY <3>1 DEF AircraftSpec
  <2>3. /\ truth[a].heading = world[a].heading /\ truth[a].speed = world[a].speed
        /\ truth[a].turn = [target |-> world[a].heading, rate |-> 1]
        /\ truth[a].pace = [target |-> world[a].speed, rate |-> 1]
    <3>1. truth[a] = InitialTruth(world[a])
      BY <1>1
    <3> QED
      BY <3>1 DEF InitialTruth
  <2>4. truth[a].turn.target = world[a].heading /\ truth[a].pace.target = world[a].speed
        /\ truth[a].turn.rate = 1 /\ truth[a].pace.rate = 1
    BY <2>3
  <2>5. LeftOfTurn(truth[a]) = 0 /\ LeftOfPace(truth[a]) = 0
    <3>1. BearingDifference(world[a].heading, world[a].heading) = 0
      BY <2>2, OnCourse
    <3>2. world[a].speed - world[a].speed = 0 /\ Size(0) = 0
      BY <2>2 DEF Size
    <3> QED
      BY <2>3, <2>4, <3>1, <3>2 DEF LeftOfTurn, LeftOfPace
  <2>6. world[a].heading \in headings /\ world[a].speed \in speeds
    BY <2>1 DEF FliesAmong
  <2>7. Steady(truth[a], world[a], headings, speeds, elapsed)
    BY <2>3, <2>4, <2>5, <2>6 DEF Steady
  <2> QED
    BY <2>1, <2>7
<1>3. PredictionsAccounted
  <2>1. <<>> \in Seq(Prediction) /\ DOMAIN <<>> = {}
    OBVIOUS
  <2> QED
    BY <1>1, <2>1 DEF PredictionsAccounted
<1> QED
  BY <1>1, <1>2, <1>3 DEF CauseInv, SteadyKept, AdvisoriesCaused, AdvisoriesHaveACause

\* What was predicted before is accounted for where the aircraft have moved to.
LEMMA MovedAccounted ==
    ASSUME ManoeuvresSettle, LoopTypeOK, SteadyKept, PredictionsAccounted,
           NEW a \in Aircraft, NEW i \in DOMAIN pending[a]
    PROVE  Accounted(pending[a][i], Moved[a], world[a], elapsed + 1)
<1>1. /\ truth[a] \in AircraftTruth /\ world[a] \in AircraftSpec /\ elapsed \in Nat
      /\ Settle \in Nat
  BY ReplayAssumption DEF LoopTypeOK, ManoeuvresSettle
<1>2. truth[a].turn.rate \in Nat /\ truth[a].pace.rate \in Nat
  BY DEF SteadyKept, Steady
<1>3. /\ pending[a][i] \in Prediction /\ pending[a] # <<>>
      /\ Accounted(pending[a][i], truth[a], world[a], elapsed)
  <2>1. pending[a] \in Seq(Prediction)
    BY DEF PredictionsAccounted
  <2>2. pending[a][i] \in Prediction
    BY <2>1, PredictionsFit
  <2>3. DOMAIN <<>> = {}
    OBVIOUS
  <2> QED
    BY <2>2, <2>3 DEF PredictionsAccounted
<1>4. world[a].entry <= elapsed + 1
  <2>1. world[a].entry <= elapsed /\ world[a].entry \in Nat
    BY <1>1, <1>3 DEF PredictionsAccounted, AircraftSpec
  <2> QED
    BY <1>1, <2>1
<1>5. Moved[a] = Advanced(truth[a], world[a], elapsed, 1)
  BY DEF Moved
<1> QED
  BY <1>1, <1>2, <1>3, <1>4, <1>5, StaysAccounted

\* Whoever flies has entered.
LEMMA FlyingHasEntered ==
    ASSUME LoopTypeOK, NEW a \in Aircraft, Moved[a].airborne
    PROVE  world[a].entry <= elapsed + 1
<1> DEFINE c == Commanded(truth[a], world[a].plan, elapsed, elapsed + 1)
<1>1. truth[a] \in AircraftTruth /\ world[a] \in AircraftSpec /\ elapsed \in Nat
  BY ReplayAssumption DEF LoopTypeOK
<1>2. Moved[a] = IF elapsed + 1 >= world[a].entry THEN Flown(c, 1)
                 ELSE [c EXCEPT !.airborne = FALSE]
  BY DEF Moved, Advanced
<1>3. c \in AircraftTruth
  BY <1>1, CommandedCourse
<1> HIDE DEF c
<1>4. [c EXCEPT !.airborne = FALSE].airborne = FALSE
  BY <1>3 DEF AircraftTruth
<1>5. elapsed + 1 >= world[a].entry
  BY <1>2, <1>4
<1> QED
  BY <1>1, <1>5 DEF AircraftSpec

\* An aircraft that is found to deviate was told something not long ago.
LEMMA DeviationHasACause ==
    ASSUME ManoeuvresSettle, Orthonormal, Typed, SteadyKept, PredictionsAccounted,
           NEW reporting \in SUBSET Aircraft, Step(Moved, reporting), NEW a \in reporting,
           IsFinding(pending[a], Absorbed(Moved, reporting)[a])
    PROVE  Causes(Manoeuvres(a), elapsed + 1) # {}
<1> DEFINE update == Absorbed(Moved, reporting)[a]
           now == elapsed + 1
           s == Moved[a]
<1>1. LoopTypeOK /\ elapsed \in Nat /\ now \in Nat
  BY DEF Typed, LoopTypeOK
<1>2. /\ s \in AircraftTruth /\ update.at = now /\ update.east = s.east /\ update.north = s.north
  <2>1. update = Update(Moved, a)
    BY DEF Absorbed
  <2>2. Moved[a] \in AircraftTruth
    BY <1>1, MovedFits
  <2> QED
    BY <2>1, <2>2 DEF Update, Seen
<1> HIDE DEF now
<1>3. PICK p \in Checked(pending[a], now) : ErrorSquared(p, update) > Threshold * Threshold
  BY <1>2 DEF IsFinding
<1>4. pending[a] \in Seq(Prediction)
  BY DEF PredictionsAccounted
<1>5. /\ \E i \in DOMAIN pending[a] : p = pending[a][i]
      /\ p \in Prediction /\ now <= p.valid_at + Tolerance /\ p.valid_at <= now + Tolerance
  BY <1>1, <1>4, CheckedFits
<1>6. Accounted(p, s, world[a], now)
  BY <1>1, <1>5, MovedAccounted DEF now
<1>7. s.speed \in Nat /\ Tolerance * s.speed <= Threshold
  <2>1. PICK headings \in SUBSET Heading, speeds \in SUBSET Nat :
           /\ FliesAmong(world[a], headings, speeds)
           /\ Steady(truth[a], world[a], headings, speeds, elapsed)
    BY DEF SteadyKept
  <2>2. truth[a] \in AircraftTruth /\ world[a] \in AircraftSpec /\ Settle \in Nat
    BY <1>1, ReplayAssumption DEF LoopTypeOK, ManoeuvresSettle
  <2>3. s = Advanced(truth[a], world[a], elapsed, 1)
    BY DEF Moved
  <2>4. Steady(s, world[a], headings, speeds, elapsed + 1)
    BY <1>1, <2>1, <2>2, <2>3, SteadyStep
  <2>5. s.speed \in speeds
    BY <2>4 DEF Steady
  <2> QED
    BY <2>1, <2>5 DEF FliesAmong
<1> HIDE DEF s, update
<1>8. ~ Foreseen(p, s, now)
  <2>1. Foreseen(p, s, now) => ErrorSquared(p, update) <= Threshold * Threshold
    BY <1>1, <1>2, <1>5, <1>7, SlipIsTolerated
  <2>2. ErrorSquared(p, update) \in Int /\ Threshold * Threshold \in Int
    <3>1. p.east \in Int /\ p.north \in Int
      BY <1>5 DEF Prediction
    <3>2. update.east \in Int /\ update.north \in Int
      BY <1>2 DEF AircraftTruth
    <3>3. p.east - update.east \in Int /\ p.north - update.north \in Int
      BY <3>1, <3>2
    <3>4. \A x, y \in Int : x * x + y * y \in Int
      OBVIOUS
    <3> QED
      BY <3>3, <3>4, MonitorAssumption DEF ErrorSquared
  <2> QED
    BY <1>3, <2>1, <2>2
<1>9. PICK i \in DOMAIN world[a].plan :
         world[a].plan[i].at <= now /\ p.valid_at + Tolerance <= world[a].plan[i].at + Attribution
  BY <1>6, <1>8 DEF Accounted, Excused
<1>10. world[a].plan[i].at \in Nat
  <2>1. world[a] \in AircraftSpec
    BY <1>1, ReplayAssumption DEF LoopTypeOK
  <2>2. world[a].plan[i] \in Command
    BY <2>1 DEF AircraftSpec
  <2> QED
    BY <2>2 DEF Command
<1>11. now <= world[a].plan[i].at + Attribution
  <2>1. p.valid_at \in Nat /\ Tolerance \in Nat /\ Attribution \in Nat
    BY <1>5, MonitorAssumption, TruthAssumption DEF Prediction
  <2> QED
    BY <1>1, <1>5, <1>9, <1>10, <2>1
<1>12. world[a].plan[i].at \in Manoeuvres(a)
  BY DEF Manoeuvres
<1>13. world[a].plan[i].at \in Causes(Manoeuvres(a), now)
  BY <1>9, <1>11, <1>12 DEF Causes
<1> QED
  BY <1>13 DEF now

\* An advisory is raised about who deviates.
LEMMA AdvisoryIsOfDeviation ==
    ASSUME Typed, NEW reporting \in SUBSET Aircraft, Step(Moved, reporting),
           NEW a \in Aircraft, NEW t \in advisories'[a], t \notin advisories[a]
    PROVE  /\ t = elapsed + 1 /\ a \in reporting
           /\ IsFinding(pending[a], Absorbed(Moved, reporting)[a])
<1> DEFINE known == Absorbed(Moved, reporting)
           gone == Stale(known)
           current == [b \in DOMAIN known \ gone |-> known[b]]
           detections == Detections(current, reporting)
           keys == {d.key : d \in detections}
           before == Manager!Older(active, 1)
           alerts == Manager!ReconcileAlerts(before, keys)
           Published(c, states) == \E alert \in alerts : alert.key = c /\ alert.state \in states
<1>1. Scanned(known, gone, detections)
  BY DEF Step
<1>2. advisories' = [b \in Aircraft |->
                        IF Published(Deviation(b), {"NEW"}) THEN advisories[b] \cup {elapsed + 1}
                        ELSE advisories[b]]
  BY <1>1 DEF Scanned
<1>3. t = elapsed + 1 /\ Published(Deviation(a), {"NEW"})
  BY <1>2
<1>4. Deviation(a) \in keys
  <2>1. PICK alert \in alerts : alert.key = Deviation(a) /\ alert.state = "NEW"
    BY <1>3
  <2>2. alert.key \in Manager!Raised(before, keys)
    BY <2>1 DEF Manager!ReconcileAlerts, Manager!Alerts
  <2> QED
    BY <2>1, <2>2 DEF Manager!Raised
<1>5. /\ DOMAIN current = DOMAIN known \ gone /\ \A b \in DOMAIN current : current[b] = known[b]
      /\ DOMAIN current \subseteq Aircraft /\ reporting \subseteq DOMAIN current
  <2>1. /\ DOMAIN known = DOMAIN picture \cup reporting
        /\ gone \subseteq DOMAIN known \ reporting
    BY KnownFits
  <2>2. DOMAIN picture \subseteq Aircraft
    BY DEF Typed, SeenTypeOK
  <2> HIDE DEF known, gone
  <2> QED
    BY <2>1, <2>2
<1> HIDE DEF current, known, gone
<1>6. PICK d \in detections : d.key = Deviation(a)
  BY <1>4
<1>7. d \notin Detected(current)
  <2>1. d \in Detected(current) => d.key.kind # "non_conformance"
    BY <1>5, DetectedFits
  <2>2. Deviation(a).kind = "non_conformance"
    BY DEF Deviation, Alone
  <2> QED
    BY <1>6, <2>1, <2>2
<1>8. PICK b \in Deviating(current, reporting) :
         d = [key |-> Deviation(b), severity |-> "ADVISORY"]
  BY <1>6, <1>7 DEF Detections
<1>9. a = b
  <2>1. d.key = Deviation(b)
    BY <1>8
  <2>2. Alone("non_conformance", a) = Alone("non_conformance", b)
    BY <1>6, <2>1 DEF Deviation
  <2> QED
    BY <2>2, KeysDiffer
<1>10. a \in reporting /\ IsFinding(pending[a], current[a])
  BY <1>8, <1>9 DEF Deviating
<1>11. current[a] = known[a]
  BY <1>5, <1>10
<1> QED
  BY <1>3, <1>10, <1>11 DEF known

\* A turn of the loop.
LEMMA CauseStep ==
    ASSUME ManoeuvresSettle, Orthonormal, Typed, CauseInv,
           NEW reporting \in SUBSET Aircraft, Step(Moved, reporting)
    PROVE  CauseInv'
<1> DEFINE known == Absorbed(Moved, reporting)
           gone == Stale(known)
<1>1. /\ LoopTypeOK /\ SteadyKept /\ PredictionsAccounted /\ AdvisoriesCaused
      /\ AdvisoriesHaveACause /\ elapsed \in Nat /\ Settle \in Nat
  BY DEF Typed, LoopTypeOK, CauseInv, ManoeuvresSettle
<1>2. /\ world' = world /\ elapsed' = elapsed + 1 /\ truth' = Moved /\ outcome' = outcome
      /\ pending' = [a \in Aircraft |->
                        IF a \in gone THEN <<>>
                        ELSE IF a \in reporting THEN Observed(pending[a], known[a])
                        ELSE pending[a]]
      /\ reporting \subseteq Flying(Moved)
  BY DEF Step
<1>3. \A a \in reporting : known[a] = Update(Moved, a) /\ known[a] \in AircraftUpdate
  BY KnownFits DEF Absorbed
<1>4. SteadyKept'
  <2>1. ASSUME NEW a \in Aircraft
        PROVE  \E headings \in SUBSET Heading : \E speeds \in SUBSET Nat :
                  /\ FliesAmong(world[a], headings, speeds)
                  /\ Steady(Moved[a], world[a], headings, speeds, elapsed + 1)
    <3>1. PICK headings \in SUBSET Heading, speeds \in SUBSET Nat :
             /\ FliesAmong(world[a], headings, speeds)
             /\ Steady(truth[a], world[a], headings, speeds, elapsed)
      BY <1>1 DEF SteadyKept
    <3>2. truth[a] \in AircraftTruth /\ world[a] \in AircraftSpec
      BY <1>1, ReplayAssumption DEF LoopTypeOK
    <3>3. Moved[a] = Advanced(truth[a], world[a], elapsed, 1)
      BY DEF Moved
    <3>4. Steady(Moved[a], world[a], headings, speeds, elapsed + 1)
      BY <1>1, <3>1, <3>2, <3>3, SteadyStep
    <3> QED
      BY <3>1, <3>4
  <2> QED
    BY <1>2, <2>1 DEF SteadyKept
<1> HIDE DEF known, gone
<1>5. PredictionsAccounted'
  <2>1. ASSUME NEW a \in Aircraft
        PROVE  /\ pending'[a] \in Seq(Prediction)
               /\ pending'[a] # <<>> => world[a].entry <= elapsed + 1
               /\ \A i \in DOMAIN pending'[a] :
                     Accounted(pending'[a][i], Moved[a], world[a], elapsed + 1)
    <3>1. pending[a] \in Seq(Prediction)
      BY <1>1 DEF PredictionsAccounted
    <3>2. \A i \in DOMAIN pending[a] : Accounted(pending[a][i], Moved[a], world[a], elapsed + 1)
      BY <1>1, MovedAccounted
    <3>3. CASE a \in gone
      <4>1. pending'[a] = <<>>
        BY <1>2, <3>3
      <4>2. <<>> \in Seq(Prediction) /\ DOMAIN <<>> = {}
        OBVIOUS
      <4> QED
        BY <4>1, <4>2
    <3>4. CASE a \notin gone /\ a \in reporting
      <4>1. pending'[a] = Observed(pending[a], known[a])
        BY <1>2, <3>4
      <4>2. /\ pending'[a] \in Seq(Prediction)
            /\ \A i \in DOMAIN pending'[a] :
                  \/ pending'[a][i] = Predict(known[a])
                  \/ \E j \in DOMAIN pending[a] : pending'[a][i] = pending[a][j]
        BY <1>3, <3>1, <3>4, <4>1, ObservedHolds
      <4>3. world[a].entry <= elapsed + 1
        BY <1>1, <1>2, <3>4, FlyingHasEntered DEF Flying
      <4>4. Accounted(Predict(known[a]), Moved[a], world[a], elapsed + 1)
        <5>1. PICK headings \in SUBSET Heading, speeds \in SUBSET Nat :
                 Steady(Moved[a], world[a], headings, speeds, elapsed + 1)
          BY <1>2, <1>4 DEF SteadyKept
        <5>2. Moved[a] \in AircraftTruth /\ world[a] \in AircraftSpec /\ elapsed + 1 \in Nat
          BY <1>1, MovedFits, ReplayAssumption DEF LoopTypeOK
        <5>3. /\ known[a].at = elapsed + 1
              /\ known[a].east = Moved[a].east /\ known[a].north = Moved[a].north
              /\ known[a].v_east = Moved[a].speed * Unit[Moved[a].heading].east
              /\ known[a].v_north = Moved[a].speed * Unit[Moved[a].heading].north
          <6>1. known[a] = Update(Moved, a)
            BY <1>3, <3>4
          <6> QED
            BY <6>1 DEF Update, Seen
        <5> QED
          BY <1>1, <5>1, <5>2, <5>3, PredictedAccounted
      <4>5. ASSUME NEW i \in DOMAIN pending'[a]
            PROVE  Accounted(pending'[a][i], Moved[a], world[a], elapsed + 1)
        BY <3>2, <4>2, <4>4
      <4> QED
        BY <4>2, <4>3, <4>5
    <3>5. CASE a \notin gone /\ a \notin reporting
      <4>1. pending'[a] = pending[a]
        BY <1>2, <3>5
      <4>2. pending[a] # <<>> => world[a].entry <= elapsed + 1
        <5>1. world[a].entry \in Nat
          BY <1>1, ReplayAssumption DEF LoopTypeOK, AircraftSpec
        <5>2. pending[a] # <<>> => world[a].entry <= elapsed
          BY <1>1 DEF PredictionsAccounted
        <5> QED
          BY <1>1, <5>1, <5>2
      <4> QED
        BY <3>1, <3>2, <4>1, <4>2
    <3> QED
      BY <3>3, <3>4, <3>5
  <2> QED
    BY <1>2, <2>1 DEF PredictionsAccounted
<1>6. AdvisoriesCaused'
  <2>1. ASSUME NEW a \in Aircraft, NEW t \in advisories'[a]
        PROVE  Causes(Manoeuvres(a), t) # {}
    <3>1. CASE t \in advisories[a]
      BY <1>1, <3>1 DEF AdvisoriesCaused
    <3>2. CASE t \notin advisories[a]
      <4>1. /\ t = elapsed + 1 /\ a \in reporting
            /\ IsFinding(pending[a], Absorbed(Moved, reporting)[a])
        BY <3>2, AdvisoryIsOfDeviation
      <4> QED
        BY <1>1, <4>1, DeviationHasACause
    <3> QED
      BY <3>1, <3>2
  <2>2. \A a : Manoeuvres(a)' = Manoeuvres(a)
    BY <1>2 DEF Manoeuvres
  <2> QED
    BY <2>1, <2>2 DEF AdvisoriesCaused
<1>7. AdvisoriesHaveACause'
  BY <1>1, <1>2 DEF AdvisoriesHaveACause
<1> QED
  BY <1>4, <1>5, <1>6, <1>7 DEF CauseInv

\* The invariant holds throughout.
LEMMA CauseCorrect ==
    ASSUME ManoeuvresSettle, Orthonormal
    PROVE  Spec => [](Typed /\ CauseInv)
<1>1. Typed /\ CauseInv /\ [Next]_vars => CauseInv'
  <2> SUFFICES ASSUME Typed, CauseInv, [Next]_vars PROVE CauseInv'
    OBVIOUS
  <2>1. ASSUME NEW reporting \in SUBSET Aircraft, Step(Moved, reporting) PROVE CauseInv'
    BY <2>1, CauseStep
  <2>2. CASE Score
    <3>1. UNCHANGED <<world, elapsed, truth, pending, advisories>>
      BY <2>2 DEF Score
    <3>2. SteadyKept' /\ PredictionsAccounted' /\ AdvisoriesCaused'
      BY <3>1 DEF CauseInv, SteadyKept, PredictionsAccounted, AdvisoriesCaused, Manoeuvres
    <3>3. AdvisoriesHaveACause'
      <4>1. \A a \in Aircraft : {t \in advisories[a] : Causes(Manoeuvres(a), t) = {}} = {}
        BY DEF CauseInv, AdvisoriesCaused
      <4>2. outcome'.unattributed =
               [a \in Aircraft |-> {t \in advisories[a] : Causes(Manoeuvres(a), t) = {}}]
        BY <2>2 DEF Score
      <4> QED
        BY <4>1, <4>2 DEF AdvisoriesHaveACause
    <3> QED
      BY <3>2, <3>3 DEF CauseInv
  <2>3. CASE UNCHANGED vars
    BY <2>3 DEF vars, CauseInv, SteadyKept, PredictionsAccounted, AdvisoriesCaused,
                Manoeuvres, AdvisoriesHaveACause
  <2> QED
    BY <2>1, <2>2, <2>3 DEF Next
<1> QED
  BY <1>1, CauseInit, TypedInit, TypedNext, PTL DEF Spec

\* The monitor does not cry wolf: whatever reports are lost, an advisory about a deviation
\* is raised only while a manoeuvre of the aircraft counts as its cause, if manoeuvres are
\* over in time and nobody is too fast for the tolerance.
THEOREM AdvisoriesHaveACauseCorrect ==
    ASSUME ManoeuvresSettle, Orthonormal
    PROVE  Spec => []AdvisoriesHaveACause
<1>1. Typed /\ CauseInv => AdvisoriesHaveACause
  BY DEF CauseInv
<1> QED
  BY <1>1, CauseCorrect, PTL

-----------------------------------------------------------------------------
(* NearnessIsTrue. *)

\* A path has the state of every instant since the first step.
PathsWhole ==
    \A a \in Aircraft : \A t \in FirstStep(world[a])..elapsed : t \in DOMAIN path[a]

\* Two aircraft are at no instant nearer than the closest they came.
BetweenAt(a, b, t) == Relative(Seen(path[a][t]), Seen(path[b][t]))
ClosestKept ==
    /\ closest = NeverSeen \/ closest.horizontal_sq \in Nat
    /\ \A a, b \in Aircraft : \A t \in DOMAIN path[a] \cap DOMAIN path[b] :
          a # b => /\ closest # NeverSeen
                   /\ closest.horizontal_sq <= DistanceSquared(BetweenAt(a, b, t))
                   /\ TooClose(BetweenAt(a, b, t)) => closest.conflicted

\* Who is on the picture has flown.
SeenHasFlown == \A a \in DOMAIN picture : FirstStep(world[a]) <= elapsed

\* Two courses come at an instant nearer than the standard and what both fly in a step.
NearAt(w, a, b, t) ==
    LET r == Relative(Seen(InitialTruth(w[a])), Seen(InitialTruth(w[b])))
        within == Horizontal + Size(r.v_east) + Size(r.v_north)
    IN  /\ FirstStep(w[a]) <= t /\ FirstStep(w[b]) <= t
        /\ DistanceSquared(ApartBy(w, a, b, t)) < within * within

\* The pair of an alert raised in straight flight of which nothing was lost comes near
\* within the lookahead.
RaisedNear ==
    (Straight /\ dropped = 0) =>
        \A a, b \in Aircraft : \A c \in Conflicts :
            (a # b /\ raised[c] # NotRaised) =>
                \E n \in 0..Lookahead : NearAt(world, a, b, raised[c] + n)

\* Who has begun flies, and who flies has begun.
LEMMA FliesSinceEntry ==
    ASSUME LoopTypeOK, NEW a \in Aircraft
    PROVE  Moved[a].airborne <=> FirstStep(world[a]) <= elapsed + 1
<1> DEFINE c == Commanded(truth[a], world[a].plan, elapsed, elapsed + 1)
<1>1. world[a] \in AircraftSpec /\ elapsed \in Nat /\ world[a].entry \in Nat
  BY ReplayAssumption DEF LoopTypeOK, AircraftSpec
<1>2. Moved[a] = IF elapsed + 1 >= world[a].entry THEN Flown(c, 1)
                 ELSE [c EXCEPT !.airborne = FALSE]
  BY DEF Moved, Advanced
<1>3. Flown(c, 1).airborne = TRUE
  BY DEF Flown
<1> HIDE DEF c
<1>4. FirstStep(world[a]) <= elapsed + 1 <=> elapsed + 1 >= world[a].entry
  BY <1>1 DEF FirstStep
<1>5. ASSUME elapsed + 1 >= world[a].entry PROVE Moved[a].airborne
  BY <1>2, <1>3, <1>5
<1>6. ASSUME Moved[a].airborne PROVE elapsed + 1 >= world[a].entry
  BY <1>1, <1>6, FlyingHasEntered
<1> QED
  BY <1>4, <1>5, <1>6

\* Seen from either of the two, the distance is the same.
LEMMA SeenFromEither ==
    ASSUME NEW x \in AircraftTruth, NEW y \in AircraftTruth
    PROVE  LET r == Relative(Seen(x), Seen(y))
               o == Relative(Seen(y), Seen(x))
           IN  /\ DistanceSquared(r) \in Nat /\ Size(r.altitude) \in Nat
               /\ DistanceSquared(o) = DistanceSquared(r) /\ (TooClose(o) <=> TooClose(r))
<1> DEFINE r == Relative(Seen(x), Seen(y))
           o == Relative(Seen(y), Seen(x))
<1>1. /\ r.east = y.east - x.east /\ r.north = y.north - x.north
      /\ r.altitude = y.altitude - x.altitude
      /\ o.east = x.east - y.east /\ o.north = x.north - y.north
      /\ o.altitude = x.altitude - y.altitude
  BY DEF Relative, Seen
<1>2. /\ x.east \in Int /\ x.north \in Int /\ x.altitude \in Int
      /\ y.east \in Int /\ y.north \in Int /\ y.altitude \in Int
  BY DEF AircraftTruth
<1>3. /\ r.east \in Int /\ r.north \in Int /\ r.altitude \in Int
      /\ o.east = -r.east /\ o.north = -r.north /\ o.altitude = -r.altitude
  BY <1>1, <1>2
<1> HIDE DEF r, o
<1>4. \A i \in Int : (-i) * (-i) = i * i /\ Size(-i) = Size(i) /\ Size(i) \in Nat
  BY DEF Size
<1>5. DistanceSquared(o) = DistanceSquared(r) /\ Size(o.altitude) = Size(r.altitude)
  BY <1>3, <1>4 DEF DistanceSquared
<1>6. DistanceSquared(r) \in Nat
  <2>1. r.east * r.east \in Nat /\ r.north * r.north \in Nat
    BY <1>3, SquaresArePositive
  <2> QED
    BY <2>1 DEF DistanceSquared
<1>7. TooClose(o) <=> TooClose(r)
  BY <1>5 DEF TooClose
<1> QED
  BY <1>3, <1>4, <1>5, <1>6, <1>7 DEF r, o

\* The nearest so far is no farther than it was, and no farther than now.
LEMMA ApproachedFits ==
    ASSUME NEW c, c = NeverSeen \/ c.horizontal_sq \in Nat, c.conflicted \in BOOLEAN,
           NEW sq \in Nat, NEW vertical, NEW lost \in BOOLEAN
    PROVE  LET d == Approached(c, sq, vertical, lost)
           IN  /\ d # NeverSeen /\ d.horizontal_sq \in Nat /\ d.horizontal_sq <= sq
               /\ c # NeverSeen => d.horizontal_sq <= c.horizontal_sq
               /\ lost \/ c.conflicted => d.conflicted
<1> DEFINE d == Approached(c, sq, vertical, lost)
           nearer == c = NeverSeen \/ sq < c.horizontal_sq
<1>1. /\ d.horizontal_sq = IF nearer THEN sq ELSE c.horizontal_sq
      /\ d.conflicted = (c.conflicted \/ lost)
  BY DEF Approached
<1> HIDE DEF d, nearer
<1>4. lost \/ c.conflicted => d.conflicted
  BY <1>1, Zenon
<1> USE DEF nearer
<1>2. d.horizontal_sq \in Nat /\ d.horizontal_sq <= sq
      /\ (c # NeverSeen => d.horizontal_sq <= c.horizontal_sq)
  BY <1>1
<1>3. d # NeverSeen
  <2>1. NeverSeen.horizontal_sq = -1
    BY DEF NeverSeen
  <2> QED
    BY <1>2, <2>1
<1> QED
  BY <1>2, <1>3, <1>4 DEF d

\* Paths have no gaps.
LEMMA WholeStep ==
    ASSUME Typed, PathsWhole, NEW reporting \in SUBSET Aircraft, Step(Moved, reporting)
    PROVE  PathsWhole'
<1>1. path' = Recorded(Moved) /\ world' = world /\ elapsed' = elapsed + 1 /\ elapsed \in Nat
  BY DEF Step, Typed, LoopTypeOK
<1> SUFFICES ASSUME NEW a \in Aircraft, NEW t \in FirstStep(world[a])..(elapsed + 1)
             PROVE  t \in DOMAIN path'[a]
  BY <1>1 DEF PathsWhole
<1>2. FirstStep(world[a]) \in Nat
  BY ReplayAssumption DEF Typed, LoopTypeOK, FirstStep, AircraftSpec
<1>3. CASE t = elapsed + 1
  <2>1. Moved[a].airborne
    BY <1>1, <1>2, <1>3, FliesSinceEntry DEF Typed
  <2> QED
    BY <1>1, <1>3, <2>1, RecordedFits
<1>4. CASE t # elapsed + 1
  <2>1. t \in DOMAIN path[a]
    BY <1>1, <1>2, <1>4 DEF PathsWhole
  <2> QED
    BY <1>1, <2>1, RecordedFits
<1> QED
  BY <1>3, <1>4

\* Who is seen now flies now.
LEMMA SeenFlies ==
    ASSUME Typed, SeenHasFlown, NEW reporting \in SUBSET Aircraft, Step(Moved, reporting)
    PROVE  SeenHasFlown'
<1>1. /\ world' = world /\ elapsed' = elapsed + 1 /\ elapsed \in Nat
      /\ reporting \subseteq Flying(Moved)
  BY DEF Step, Typed, LoopTypeOK
<1> DEFINE known == Absorbed(Moved, reporting)
           gone == Stale(known)
<1>2. DOMAIN known = DOMAIN picture \cup reporting /\ DOMAIN picture' = DOMAIN known \ gone
  BY KnownFits
<1> HIDE DEF known, gone
<1> SUFFICES ASSUME NEW a \in DOMAIN picture' PROVE FirstStep(world[a]) <= elapsed + 1
  BY <1>1 DEF SeenHasFlown
<1>3. a \in Aircraft
  BY <1>2 DEF Typed, SeenTypeOK
<1>4. FirstStep(world[a]) \in Nat
  BY <1>3, ReplayAssumption DEF Typed, LoopTypeOK, FirstStep, AircraftSpec
<1>5. CASE a \in DOMAIN picture
  BY <1>1, <1>4, <1>5 DEF SeenHasFlown
<1>6. CASE a \in reporting
  <2>1. Moved[a].airborne
    BY <1>1, <1>6 DEF Flying
  <2> QED
    BY <1>3, <2>1, FliesSinceEntry DEF Typed
<1> QED
  BY <1>2, <1>5, <1>6

\* There are two aircraft, and no third.
LEMMA TwoFly ==
    /\ \E a, b \in Aircraft : a # b
    /\ \A a, b \in Aircraft : a # b => Aircraft = {a, b}
<1>1. IsFiniteSet(Aircraft) /\ Cardinality(Aircraft) = 2
  BY ReplayAssumption
<1>2. ASSUME NEW a \in Aircraft, NEW b \in Aircraft, a # b PROVE Aircraft = {a, b}
  <2>1. Conflicts = {Conflict({a, b})}
    BY <1>2, OnlyPair
  <2>2. Conflict(Aircraft) \in Conflicts
    BY <1>1 DEF Conflicts, kSubset
  <2> QED
    BY <2>1, <2>2, KeysDiffer
<1>3. \E a, b \in Aircraft : a # b
  <2> SUFFICES ASSUME \A a, b \in Aircraft : a = b PROVE FALSE
    OBVIOUS
  <2>1. CASE Aircraft = {}
    BY <1>1, <2>1, FS_EmptySet
  <2>2. CASE Aircraft # {}
    <3>1. PICK a \in Aircraft : Aircraft = {a}
      BY <2>2
    <3> QED
      BY <1>1, <3>1, FS_Singleton
  <2> QED
    BY <2>1, <2>2
<1> QED
  BY <1>2, <1>3

\* The closest that two have come takes every step into account.
LEMMA ClosestStep ==
    ASSUME Typed, PathsKept, ClosestKept, NEW reporting \in SUBSET Aircraft, Step(Moved, reporting)
    PROVE  ClosestKept'
<1>1. /\ path' = Recorded(Moved) /\ closest' = Closest(Moved)
      /\ closest = NeverSeen \/ closest.horizontal_sq \in Nat
      /\ closest.conflicted \in BOOLEAN
  BY DEF Step, ClosestKept, Typed, LoopTypeOK
<1>2. \A x \in Aircraft : Moved[x] \in AircraftTruth
  BY MovedFits DEF Typed
<1> DEFINE first == CHOOSE x \in Aircraft : TRUE
           second == CHOOSE x \in Aircraft : x # first
           r == TrueBetween(Moved, first, second)
           sq == DistanceSquared(r)
           lost == TooClose(r)
<1>3. ASSUME NEW a \in Aircraft, NEW b \in Aircraft, a # b
      PROVE  /\ first \in Aircraft /\ second \in Aircraft /\ first # second
             /\ (first = a /\ second = b) \/ (first = b /\ second = a)
  <2>1. first \in Aircraft
    OBVIOUS
  <2>2. second \in Aircraft /\ second # first
    <3> HIDE DEF first
    <3> QED
      BY <1>3
  <2> HIDE DEF first, second
  <2>4. {a, b} = {first, second}
    BY <1>3, <2>1, <2>2, TwoFly
  <2> QED
    BY <1>3, <2>1, <2>2, <2>4
<1>4. closest' = IF Flying(Moved) # Aircraft THEN closest
                 ELSE Approached(closest, sq, Size(r.altitude), lost)
  BY <1>1 DEF Closest
<1> HIDE DEF first, second
<1>5. ASSUME NEW a \in Aircraft, NEW b \in Aircraft, a # b
      PROVE  /\ DistanceSquared(TrueBetween(Moved, a, b)) = sq /\ sq \in Nat
             /\ TooClose(TrueBetween(Moved, a, b)) <=> lost
  <2>1. /\ DistanceSquared(r) \in Nat
        /\ DistanceSquared(TrueBetween(Moved, second, first)) = DistanceSquared(r)
        /\ TooClose(TrueBetween(Moved, second, first)) <=> TooClose(r)
    BY <1>2, <1>3, <1>5, SeenFromEither DEF TrueBetween
  <2> QED
    BY <1>3, <1>5, <2>1
<1>6. lost \in BOOLEAN
  BY DEF TooClose
<1> HIDE DEF r, sq, lost
<1>7. ASSUME NEW a \in Aircraft, NEW b \in Aircraft, a # b
      PROVE  /\ closest' = NeverSeen \/ closest'.horizontal_sq \in Nat
             /\ closest # NeverSeen => /\ closest' # NeverSeen
                                       /\ closest'.horizontal_sq <= closest.horizontal_sq
                                       /\ closest.conflicted => closest'.conflicted
             /\ Flying(Moved) = Aircraft => /\ closest' # NeverSeen
                                            /\ closest'.horizontal_sq <= sq
                                            /\ lost => closest'.conflicted
  <2>1. CASE Flying(Moved) # Aircraft
    BY <1>1, <1>4, <2>1
  <2>2. CASE Flying(Moved) = Aircraft
    <3>1. closest' = Approached(closest, sq, Size(r.altitude), lost)
      BY <1>4, <2>2
    <3>2. LET d == Approached(closest, sq, Size(r.altitude), lost)
          IN  /\ d # NeverSeen /\ d.horizontal_sq \in Nat /\ d.horizontal_sq <= sq
              /\ closest # NeverSeen => d.horizontal_sq <= closest.horizontal_sq
              /\ lost \/ closest.conflicted => d.conflicted
      BY <1>1, <1>5, <1>6, <1>7, ApproachedFits
    <3> QED
      BY <3>1, <3>2
  <2> QED
    BY <2>1, <2>2
<1>8. closest' = NeverSeen \/ closest'.horizontal_sq \in Nat
  <2>1. PICK a \in Aircraft, b \in Aircraft : a # b
    BY TwoFly
  <2> QED
    BY <1>7, <2>1
<1> SUFFICES ASSUME NEW a \in Aircraft, NEW b \in Aircraft, a # b,
                    NEW t \in DOMAIN path'[a] \cap DOMAIN path'[b]
             PROVE  LET o == Relative(Seen(path'[a][t]), Seen(path'[b][t]))
                    IN  /\ closest' # NeverSeen
                        /\ closest'.horizontal_sq <= DistanceSquared(o)
                        /\ TooClose(o) => closest'.conflicted
  BY <1>8 DEF ClosestKept, BetweenAt
<1> DEFINE o == Relative(Seen(path'[a][t]), Seen(path'[b][t]))
<1>9. CASE t \in DOMAIN path[a] /\ t \in DOMAIN path[b]
  <2>1. path'[a][t] = path[a][t] /\ path'[b][t] = path[b][t]
    BY <1>1, <1>9, RecordedFits
  <2>2. o = BetweenAt(a, b, t)
    BY <2>1 DEF BetweenAt
  <2> HIDE DEF o
  <2>3. /\ closest # NeverSeen /\ closest.horizontal_sq <= DistanceSquared(o)
        /\ TooClose(o) => closest.conflicted
    BY <1>9, <2>2 DEF ClosestKept
  <2>4. DistanceSquared(o) \in Nat
    <3>1. path[a][t] \in AircraftTruth /\ path[b][t] \in AircraftTruth
      BY <1>9 DEF PathsKept
    <3> QED
      BY <2>2, <3>1, SeenFromEither DEF BetweenAt
  <2>5. /\ closest' # NeverSeen /\ closest'.horizontal_sq <= closest.horizontal_sq
        /\ closest.conflicted => closest'.conflicted
    BY <1>7, <2>3
  <2>6. closest'.horizontal_sq \in Nat /\ closest.horizontal_sq \in Nat
    BY <1>1, <1>8, <2>3, <2>5
  <2>7. closest'.horizontal_sq <= DistanceSquared(o)
    BY <2>3, <2>4, <2>5, <2>6
  <2> QED
    BY <2>3, <2>5, <2>7 DEF o
<1>10. CASE ~ (t \in DOMAIN path[a] /\ t \in DOMAIN path[b])
  <2>1. t = elapsed + 1 /\ Moved[a].airborne /\ Moved[b].airborne
    <3>1. \A x \in Aircraft : t \in DOMAIN path'[x] =>
             t \in DOMAIN path[x] \/ (t = elapsed + 1 /\ Moved[x].airborne)
      BY <1>1, RecordedFits
    <3>2. t = elapsed + 1
      BY <1>10, <3>1
    <3>3. elapsed + 1 \notin DOMAIN path[a] /\ elapsed + 1 \notin DOMAIN path[b]
      BY RecordedFits
    <3> QED
      BY <3>1, <3>2, <3>3
  <2>2. path'[a][t] = Moved[a] /\ path'[b][t] = Moved[b]
    BY <1>1, <2>1, RecordedFits
  <2>3. Flying(Moved) = Aircraft
    <3>1. \A x \in Aircraft : x = a \/ x = b
      BY <1>3
    <3> QED
      BY <2>1, <3>1 DEF Flying
  <2>4. o = TrueBetween(Moved, a, b)
    BY <2>2 DEF TrueBetween
  <2> HIDE DEF o
  <2>5. DistanceSquared(o) = sq /\ (TooClose(o) <=> lost)
    BY <1>5, <2>4
  <2>6. /\ closest' # NeverSeen /\ closest'.horizontal_sq <= DistanceSquared(o)
        /\ TooClose(o) => closest'.conflicted
    BY <1>7, <2>3, <2>5
  <2> QED
    BY <2>6 DEF o
<1> QED
  BY <1>9, <1>10

\* A pair that a sample of a scan's forecast brings near a breach comes near at a whole
\* step as well.
LEMMA NearAtWholeStep ==
    ASSUME NEW r \in Geometry, NEW n \in 0..(Lookahead * Finest), NearBreach(r, n)
    PROVE  \E k \in 0..Lookahead :
              LET x == r.east + r.v_east * k
                  y == r.north + r.v_north * k
                  within == Horizontal + Size(r.v_east) + Size(r.v_north)
              IN  x * x + y * y < within * within
<1> DEFINE m == 2 * Finest
           slack == Size(r.v_east) + Size(r.v_north)
           e == r.east * m + r.v_east * 2 * n
           f == r.north * m + r.v_north * 2 * n
           g == Horizontal * m + slack
<1>1. /\ r.east \in Int /\ r.north \in Int /\ r.v_east \in Int /\ r.v_north \in Int
      /\ Horizontal \in Nat /\ Lookahead \in Nat /\ Finest \in Nat /\ Finest > 0 /\ n \in Nat
      /\ n <= Lookahead * Finest
  BY SeparationAssumption, ReplayAssumption DEF Geometry
<1>2. /\ m \in Nat /\ m > 0 /\ slack \in Nat
      /\ Size(r.v_east) \in Nat /\ Size(r.v_north) \in Nat
  BY <1>1 DEF Size
<1>3. e \in Int /\ f \in Int /\ g \in Nat
  <2>1. \A x, v \in Int : x * m + v * 2 * n \in Int
    BY <1>1, <1>2
  <2>2. Horizontal * m \in Nat
    BY <1>1, <1>2
  <2> QED
    BY <1>1, <1>2, <2>1, <2>2
<1>4. e * e + f * f < g * g
  BY DEF NearBreach
<1>5. PICK k \in 0..Lookahead : LET off == 2 * (k * Finest - n)
                                 IN  -Finest <= off /\ off <= Finest
  <2>1. ASSUME NEW up \in BOOLEAN
        PROVE  \E k \in 0..(Lookahead * 1) :
                  LET off == 2 * (k * Finest - 1 * n)
                  IN  /\ -Finest <= off /\ off <= Finest
                      /\ (up => -Finest < off) /\ (~ up => off < Finest)
    <3>1. 1 \in Nat /\ 1 > 0
      OBVIOUS
    <3> QED
      BY <1>1, <3>1, NearestSample
  <2>2. \E k \in 0..(Lookahead * 1) : -Finest <= 2 * (k * Finest - 1 * n)
                                    /\ 2 * (k * Finest - 1 * n) <= Finest
    BY <2>1, Zenon
  <2>3. Lookahead * 1 = Lookahead /\ 1 * n = n
    BY <1>1
  <2> QED
    BY <2>2, <2>3
<1> DEFINE off == 2 * (k * Finest - n)
           x == r.east + r.v_east * k
           y == r.north + r.v_north * k
           within == Horizontal + Size(r.v_east) + Size(r.v_north)
<1>6. k \in Nat /\ off \in Int /\ -Finest <= off /\ off <= Finest
  <2>1. k * Finest \in Int
    BY <1>1
  <2> QED
    BY <1>1, <1>5, <2>1
<1>7. \A c, v \in Int : 1 * (c * m + v * 2 * n) + v * off = m * (c + v * k)
  <2>1. \A c, v \in Int : 1 * (c * m + v * 2 * n) = c * m + v * 2 * n
    BY <1>1, <1>2
  <2>2. \A c, v \in Int : v * off = v * k * m - v * 2 * n
    BY <1>1, <1>6
  <2>3. \A c, v \in Int : m * (c + v * k) = c * m + v * k * m
    BY <1>1, <1>2, <1>6
  <2>4. \A v \in Int : v * 2 * n \in Int /\ v * k * m \in Int
    BY <1>1, <1>2, <1>6
  <2>5. \A c \in Int : c * m \in Int
    BY <1>2
  <2> HIDE DEF m, off
  <2>6. \A c, p, q \in Int : (c + p) + (q - p) = c + q
    OBVIOUS
  <2> QED
    BY <2>1, <2>2, <2>3, <2>4, <2>5, <2>6
<1> HIDE DEF off
<1>8. LET p == 1 * e + r.v_east * off
          q == 1 * f + r.v_north * off
          most == 1 * g + (Size(r.v_east) + Size(r.v_north)) * Finest
      IN  p * p + q * q < most * most
  <2> HIDE DEF e, f, g, m
  <2> DEFINE v == r.v_east
             w == r.v_north
             q == Finest
  <2>1. /\ 1 \in Nat /\ 1 > 0 /\ v \in Int /\ w \in Int /\ q \in Nat
        /\ -q <= off /\ off <= q /\ off \in Int
    BY <1>1, <1>6
  <2> HIDE DEF v, w, q
  <2>2. LET p == 1 * e + v * off
            o == 1 * f + w * off
            most == 1 * g + (Size(v) + Size(w)) * q
        IN  p * p + o * o < most * most
    BY <1>3, <1>4, <2>1, StillNear
  <2> QED
    BY <2>2 DEF v, w, q
<1>9. (m * x) * (m * x) + (m * y) * (m * y) < (g + slack * Finest) * (g + slack * Finest)
  <2>1. 1 * e + r.v_east * off = m * x /\ 1 * f + r.v_north * off = m * y
    BY <1>1, <1>7
  <2>2. 1 * g = g
    BY <1>3
  <2> HIDE DEF e, f, g, m, x, y
  <2> QED
    BY <1>8, <2>1, <2>2
<1>10. g + slack * Finest <= m * within /\ g + slack * Finest \in Nat /\ m * within \in Nat
  <2>1. within = Horizontal + slack /\ within \in Nat
    BY <1>1, <1>2
  <2> HIDE DEF slack, within
  <2>2. slack * Finest \in Nat /\ slack * Finest >= slack
    <3>1. 1 * slack <= Finest * slack
      BY <1>1, <1>2, Products
    <3>2. Finest * slack = slack * Finest /\ 1 * slack = slack /\ slack * Finest \in Nat
      BY <1>1, <1>2
    <3> QED
      BY <3>1, <3>2
  <2>3. m * within = Horizontal * m + slack * Finest + slack * Finest
    BY <1>1, <1>2, <2>1
  <2>4. Horizontal * m \in Nat
    BY <1>1, <1>2
  <2> DEFINE h == Horizontal * m
             s == slack * Finest
  <2>5. g + s = h + slack + s /\ m * within = h + s + s /\ s >= slack /\ h \in Nat /\ s \in Nat
    BY <2>2, <2>3, <2>4
  <2> HIDE DEF h, s, g, m
  <2> QED
    BY <1>2, <2>5 DEF s
<1>11. x \in Int /\ y \in Int /\ within \in Nat
  <2>1. r.v_east * k \in Int /\ r.v_north * k \in Int
    BY <1>1, <1>6
  <2> QED
    BY <1>1, <1>2, <2>1
<1>12. (m * x) * (m * x) + (m * y) * (m * y) < (m * within) * (m * within)
  <2> DEFINE A == (m * x) * (m * x) + (m * y) * (m * y)
             G == g + slack * Finest
             W == m * within
  <2>1. G * G <= W * W
    <3> HIDE DEF G, W
    <3> QED
      BY <1>10, Squares DEF G, W
  <2>2. A < G * G
    BY <1>9
  <2>3. A \in Int
    <3>1. \A i, j \in Int : (m * i) * (m * i) + (m * j) * (m * j) \in Int
      BY <1>2
    <3> QED
      BY <1>11, <3>1
  <2>4. G * G \in Int /\ W * W \in Int
    <3>1. G \in Nat /\ W \in Nat
      BY <1>10
    <3> HIDE DEF G, W
    <3> QED
      BY <3>1
  <2> HIDE DEF A, G, W
  <2>5. A < W * W
    BY <2>1, <2>2, <2>3, <2>4
  <2> QED
    BY <2>5 DEF A, W
<1> HIDE DEF m, x, y, within
<1>13. x * x + y * y < within * within
  <2> DEFINE B == x * x + y * y
             C == within * within
             M == m * m
  <2>1. (m * x) * (m * x) + (m * y) * (m * y) = B * M /\ (m * within) * (m * within) = C * M
    BY <1>2, <1>11
  <2>2. B \in Int /\ C \in Int /\ M \in Nat
    BY <1>2, <1>11
  <2> HIDE DEF B, C, M
  <2>3. B * M < C * M
    BY <1>12, <2>1
  <2>4. B < C
    BY <2>2, <2>3, Cancelled
  <2> QED
    BY <2>4 DEF B, C
<1> QED
  BY <1>13 DEF x, y, within

\* While nothing is lost, everyone who flies reports, and is seen where it is.
LEMMA AllReport ==
    ASSUME Typed, NEW reporting \in SUBSET Aircraft, Step(Moved, reporting), dropped' = 0
    PROVE  /\ dropped = 0 /\ Flying(Moved) \subseteq reporting
           /\ \A a \in Flying(Moved) : a \in DOMAIN picture' /\ picture'[a] = Update(Moved, a)
<1> DEFINE lost == Cardinality(Flying(Moved) \ reporting)
           known == Absorbed(Moved, reporting)
           gone == Stale(known)
<1>1. IsFiniteSet(Flying(Moved) \ reporting)
  <2>1. Flying(Moved) \ reporting \subseteq Aircraft
    BY DEF Flying
  <2> QED
    BY <2>1, ReplayAssumption, FS_Subset
<1>2. lost \in Nat /\ dropped \in Nat /\ dropped' = dropped + lost
  BY <1>1, FS_CardinalityType DEF Step, Typed, LoopTypeOK
<1>3. dropped = 0 /\ lost = 0
  <2> HIDE DEF lost
  <2> QED
    BY <1>2
<1>4. Flying(Moved) \subseteq reporting
  BY <1>1, <1>3, FS_EmptySet
<1>5. /\ DOMAIN known = DOMAIN picture \cup reporting /\ gone \subseteq DOMAIN known \ reporting
      /\ DOMAIN picture' = DOMAIN known \ gone
      /\ \A a \in DOMAIN picture' : picture'[a] = known[a]
  BY KnownFits
<1>6. \A a \in reporting : known[a] = Update(Moved, a)
  BY DEF Absorbed
<1> HIDE DEF known, gone
<1>7. ASSUME NEW a \in Flying(Moved) PROVE a \in DOMAIN picture' /\ picture'[a] = Update(Moved, a)
  BY <1>4, <1>5, <1>6
<1> QED
  BY <1>3, <1>4, <1>7

\* A conflict is raised for what the scan found.
LEMMA RaisedIsScanned ==
    ASSUME Typed, NEW reporting \in SUBSET Aircraft, Step(Moved, reporting),
           NEW pair, Conflict(pair) \in Conflicts, raised'[Conflict(pair)] # raised[Conflict(pair)]
    PROVE  raised'[Conflict(pair)] = elapsed + 1 /\ pair \in Scan(picture')
<1> DEFINE c == Conflict(pair)
           known == Absorbed(Moved, reporting)
           gone == Stale(known)
           current == [b \in DOMAIN known \ gone |-> known[b]]
           detections == Detections(current, reporting)
           keys == {d.key : d \in detections}
           before == Manager!Older(active, 1)
           alerts == Manager!ReconcileAlerts(before, keys)
           Published(k, states) == \E alert \in alerts : alert.key = k /\ alert.state \in states
<1>1. Scanned(known, gone, detections)
  BY DEF Step
<1>2. /\ raised' = [k \in Condition |->
                      IF Published(k, {"NEW"}) /\ raised[k] = NotRaised THEN elapsed + 1
                      ELSE raised[k]]
      /\ picture' = current
  BY <1>1 DEF Scanned
<1>3. c \in Condition
  BY DEF Condition
<1>4. raised'[c] = elapsed + 1 /\ Published(c, {"NEW"})
  <2> HIDE DEF alerts, c
  <2> QED
    BY <1>2, <1>3 DEF c
<1>5. c \in keys
  <2>1. PICK alert \in alerts : alert.key = c /\ alert.state = "NEW"
    BY <1>4
  <2>2. alert.key \in Manager!Raised(before, keys)
    BY <2>1 DEF Manager!ReconcileAlerts, Manager!Alerts
  <2> QED
    BY <2>1, <2>2 DEF Manager!Raised
<1> HIDE DEF current, known, gone
<1>6. PICK d \in detections : d.key = c
  BY <1>5
<1>7. \A k, a : k # "predicted_conflict" => c # Alone(k, a)
  BY KeysDiffer
<1>8. d \in Detected(current)
  <2>1. \A b : Deviation(b) # c
    BY <1>7 DEF Deviation
  <2> QED
    BY <1>6, <2>1 DEF Detections
<1>9. \E scanned \in Scan(current) : c = Conflict(scanned)
  <2>1. ASSUME NEW a \in DOMAIN current, NEW f \in Findings(current[a]) PROVE c # Alone(f.kind, a)
    BY <1>7, FindingsFit
  <2> QED
    BY <1>6, <1>8, <2>1 DEF Detected
<1>10. pair \in Scan(current)
  BY <1>9, KeysDiffer
<1> QED
  BY <1>2, <1>4, <1>10

\* The update of a straight flight tells where its course is later on.
LEMMA PlaceIsTold ==
    ASSUME NEW spec \in AircraftSpec, NEW s, NEW u, NEW t \in Nat, NEW n \in Nat,
           FirstStep(spec) <= t, StraightAt(s, spec, StepsAt(spec, t)), TellsOf(u, s)
    PROVE  /\ u.east + u.v_east * n = EastAt(spec, t + n)
           /\ u.north + u.v_north * n = NorthAt(spec, t + n)
           /\ u.v_east = spec.speed * Unit[spec.heading].east
           /\ u.v_north = spec.speed * Unit[spec.heading].north
<1> DEFINE k == StepsAt(spec, t)
           ve == spec.speed * Unit[spec.heading].east
           vn == spec.speed * Unit[spec.heading].north
<1>1. /\ k \in Nat /\ ve \in Int /\ vn \in Int
      /\ spec.east \in Int /\ spec.north \in Int /\ FirstStep(spec) \in Nat
  BY CourseFits
<1>2. StepsAt(spec, t + n) = k + n
  BY <1>1 DEF StepsAt
<1>3. /\ EastAt(spec, t + n) = spec.east + (k + n) * ve
      /\ NorthAt(spec, t + n) = spec.north + (k + n) * vn
  BY <1>2 DEF EastAt, NorthAt
<1>4. /\ u.east = spec.east + k * ve /\ u.north = spec.north + k * vn
      /\ u.v_east = ve /\ u.v_north = vn
  BY DEF TellsOf, StraightAt
<1>5. \A x, y \in Int : (x + k * y) + y * n = x + (k + n) * y
  BY <1>1
<1> HIDE DEF k, ve, vn
<1>6. /\ u.east + u.v_east * n = EastAt(spec, t + n)
      /\ u.north + u.v_north * n = NorthAt(spec, t + n)
  BY <1>1, <1>3, <1>4, <1>5
<1> QED
  BY <1>4, <1>6 DEF ve, vn

\* The pair of a conflict that is raised while nothing was lost comes near.
LEMMA RaisedNearStep ==
    ASSUME Typed, StraightKept', SeenHasFlown', NoConflictInvented', RaisedNear,
           NEW reporting \in SUBSET Aircraft, Step(Moved, reporting)
    PROVE  RaisedNear'
<1>1. /\ world' = world /\ elapsed' = elapsed + 1 /\ elapsed \in Nat /\ elapsed + 1 \in Nat
      /\ path' = Recorded(Moved)
  BY DEF Step, Typed, LoopTypeOK
<1> SUFFICES ASSUME Straight, dropped' = 0, NEW a \in Aircraft, NEW b \in Aircraft, a # b,
                    NEW c \in Conflicts, raised'[c] # NotRaised
             PROVE  \E n \in 0..Lookahead : NearAt(world, a, b, raised'[c] + n)
  BY <1>1 DEF RaisedNear, Straight
<1> DEFINE t == elapsed + 1
<1>2. /\ dropped = 0
      /\ \A x \in Flying(Moved) : x \in DOMAIN picture' /\ picture'[x] = Update(Moved, x)
  BY AllReport
<1>3. CASE raised'[c] = raised[c]
  BY <1>2, <1>3 DEF RaisedNear
<1>4. CASE raised'[c] # raised[c]
  <2>1. c = Conflict({a, b})
    BY OnlyPair
  <2>2. raised'[c] = t /\ {a, b} \in Scan(picture')
    BY <1>4, <2>1, RaisedIsScanned
  <2>3. a \in Eligible(picture') /\ b \in Eligible(picture')
    BY <2>2 DEF Scan, CandidatePairs, kSubset
  <2>4. ASSUME NEW x \in Aircraft, x \in Eligible(picture')
        PROVE  /\ world[x] \in AircraftSpec /\ FirstStep(world[x]) <= t /\ IsFlown(picture'[x])
               /\ StraightAt(Moved[x], world[x], StepsAt(world[x], t))
               /\ TellsOf(picture'[x], Moved[x])
    <3>1. x \in DOMAIN picture'
      BY <2>4 DEF Eligible
    <3>2. FirstStep(world[x]) <= t
      BY <1>1, <3>1 DEF SeenHasFlown
    <3>3. x \in Flying(Moved)
      BY <3>2, FliesSinceEntry DEF Flying, Typed
    <3>4. picture'[x] = Update(Moved, x) /\ Update(Moved, x) \in AircraftUpdate
      BY <1>2, <3>3, MovedFits, UpdateFits DEF Typed
    <3>5. TellsOf(Update(Moved, x), Moved[x])
      BY DEF TellsOf, Update, Seen
    <3>6. IsFlown(picture'[x])
      BY <3>4 DEF AircraftUpdate, IsFlown
    <3>7. world[x].plan = <<>>
      BY DEF Straight
    <3>8. world[x] \in AircraftSpec /\ StraightAt(Moved[x], world[x], StepsAt(world[x], t))
      BY <3>3, <3>7, FlyingOnCourse
    <3> QED
      BY <3>2, <3>4, <3>5, <3>6, <3>8
  <2> DEFINE r == Relative(picture'[a], picture'[b])
  <2>5. r \in Geometry
    BY <2>3, <2>4, RelativeFits
  <2>6. PICK n \in 0..(Lookahead * Finest) : NearBreach(r, n)
    <3>1. \E n \in 0..(Lookahead * Finest) : NearBreach(Between(a, b)', n)
      BY <2>2, <2>3 DEF NoConflictInvented
    <3>2. Between(a, b)' = r
      BY DEF Between
    <3> QED
      BY <3>1, <3>2
  <2>7. PICK k \in 0..Lookahead :
           LET x == r.east + r.v_east * k
               y == r.north + r.v_north * k
               within == Horizontal + Size(r.v_east) + Size(r.v_north)
           IN  x * x + y * y < within * within
    <3> HIDE DEF r
    <3> QED
      BY <2>5, <2>6, NearAtWholeStep
  <2>8. k \in Nat
    BY SeparationAssumption
  <2> DEFINE i == Relative(Seen(InitialTruth(world[a])), Seen(InitialTruth(world[b])))
             d == ApartBy(world, a, b, t + k)
  <2>9. /\ picture'[a].east + picture'[a].v_east * k = EastAt(world[a], t + k)
        /\ picture'[a].north + picture'[a].v_north * k = NorthAt(world[a], t + k)
        /\ picture'[a].v_east = world[a].speed * Unit[world[a].heading].east
        /\ picture'[a].v_north = world[a].speed * Unit[world[a].heading].north
    BY <1>1, <2>3, <2>4, <2>8, PlaceIsTold
  <2>10. /\ picture'[b].east + picture'[b].v_east * k = EastAt(world[b], t + k)
         /\ picture'[b].north + picture'[b].v_north * k = NorthAt(world[b], t + k)
         /\ picture'[b].v_east = world[b].speed * Unit[world[b].heading].east
         /\ picture'[b].v_north = world[b].speed * Unit[world[b].heading].north
    BY <1>1, <2>3, <2>4, <2>8, PlaceIsTold
  <2>11. r.v_east = i.v_east /\ r.v_north = i.v_north
    BY <2>9, <2>10 DEF Relative, Seen, InitialTruth
  <2>12. d.east = r.east + r.v_east * k /\ d.north = r.north + r.v_north * k
    <3>1. /\ r.east = picture'[b].east - picture'[a].east
          /\ r.north = picture'[b].north - picture'[a].north
          /\ r.v_east = picture'[b].v_east - picture'[a].v_east
          /\ r.v_north = picture'[b].v_north - picture'[a].v_north
      BY DEF Relative
    <3>2. /\ d.east = EastAt(world[b], t + k) - EastAt(world[a], t + k)
          /\ d.north = NorthAt(world[b], t + k) - NorthAt(world[a], t + k)
      BY DEF ApartBy
    <3>3. \A x, y, v, w \in Int : (y + w * k) - (x + v * k) = (y - x) + (w - v) * k
      BY <2>8
    <3>4. IsFlown(picture'[a]) /\ IsFlown(picture'[b])
      BY <2>3, <2>4
    <3> HIDE DEF r, d
    <3> QED
      BY <2>9, <2>10, <3>1, <3>2, <3>3, <3>4 DEF IsFlown
  <2> HIDE DEF r, d, i
  <2>13. LET within == Horizontal + Size(i.v_east) + Size(i.v_north)
         IN  DistanceSquared(d) < within * within
    BY <2>7, <2>11, <2>12 DEF DistanceSquared
  <2>14. FirstStep(world[a]) <= t + k /\ FirstStep(world[b]) <= t + k
    <3>1. \A x \in Aircraft : FirstStep(world[x]) \in Nat
      BY ReplayAssumption DEF Typed, LoopTypeOK, FirstStep, AircraftSpec
    <3> QED
      BY <1>1, <2>3, <2>4, <2>8, <3>1
  <2>15. NearAt(world, a, b, t + k)
    BY <2>13, <2>14 DEF NearAt, i, d
  <2> QED
    BY <2>2, <2>15
<1> QED
  BY <1>3, <1>4

-----------------------------------------------------------------------------
(* Staged encounters. *)

\* Half a circle from a heading is the opposite direction.
LEMMA OppositeFits ==
    ASSUME Orthonormal, NEW h \in Heading
    PROVE  /\ Opposite(h) \in Heading /\ RightOf(h) \in Heading
           /\ Unit[Opposite(h)].east = -Unit[h].east
           /\ Unit[Opposite(h)].north = -Unit[h].north
           /\ Unit[RightOf(h)].east * Unit[RightOf(h)].east
                  + Unit[RightOf(h)].north * Unit[RightOf(h)].north = 1
<1> DEFINE q == Circle \div 4
           right == RightOf(h)
<1>1. Circle \in Nat /\ Circle > 1 /\ Circle = 4 * q /\ Circle \div 2 = 2 * q /\ q \in Nat
  BY SimulationAssumption, GeneratorAssumption
<1>2. h \in Int /\ 0 <= h /\ h < Circle
  BY <1>1 DEF Heading
<1> HIDE DEF q
<1>3. right = (h + q) % Circle /\ right \in Heading
  BY <1>1, <1>2 DEF RightOf, TurnedBy, Heading, q
<1>4. Opposite(h) = (h + 2 * q) % Circle /\ Opposite(h) \in Heading
  BY <1>1, <1>2 DEF Opposite, TurnedBy, Heading
<1>5. (right + q) % Circle = (h + 2 * q) % Circle
  <2>1. right = IF h + q < Circle THEN h + q ELSE h + q - Circle
    BY <1>1, <1>2, <1>3
  <2> QED
    BY <1>1, <1>2, <2>1
<1> HIDE DEF right
<1>6. Right(h) = Unit[right] /\ Right(right) = Unit[Opposite(h)]
  BY <1>3, <1>4, <1>5 DEF Right, q
<1>7. /\ Right(h).east = Unit[h].north /\ Right(h).north = -Unit[h].east
      /\ Right(right).east = Unit[right].north /\ Right(right).north = -Unit[right].east
      /\ Unit[right].east * Unit[right].east + Unit[right].north * Unit[right].north = 1
  BY <1>3 DEF Orthonormal
<1>8. Unit[h].east \in Int /\ Unit[h].north \in Int
  BY SimulationAssumption DEF Heading
<1>9. Unit[Opposite(h)].east = -Unit[h].east /\ Unit[Opposite(h)].north = -Unit[h].north
  BY <1>6, <1>7, <1>8
<1> QED
  BY <1>3, <1>4, <1>7, <1>9 DEF right

\* The courses of a staged pair pass each other as they were aimed to.
LEMMA StagedPasses ==
    ASSUME Orthonormal, NEW d \in Draw, NEW w, NEW a, NEW b,
           w[a] = SpecA(d, <<>>), w[b] = SpecB(d, <<>>)
    PROVE  LET t == d.time_to_meet
               r == ApartBy(w, a, b, t)
           IN  /\ t \in Nat /\ t >= 1 /\ d.miss \in Nat /\ d.offset \in Nat
               /\ FirstStep(w[a]) = 1 /\ FirstStep(w[b]) = 1
               /\ w[a].plan = <<>> /\ w[b].plan = <<>>
               /\ LevelAt(w[a], t) \in Nat /\ LevelAt(w[b], t) \in Nat
               /\ DistanceSquared(r) = d.miss * d.miss /\ r.altitude = d.offset
<1> DEFINE t == d.time_to_meet
           r == ApartBy(w, a, b, t)
           h == d.track_a
           k == TrackB(d)
           miss == d.miss
           v == d.speed_a
           u == d.speed_b
<1>1. /\ t \in Nat /\ t >= 1 /\ miss \in Nat /\ d.offset \in Nat /\ d.level \in Nat
      /\ v \in Nat /\ u \in Nat /\ h \in Heading /\ d.crossing \in Int
  <2>1. /\ d.time_to_meet \in MeetTimes /\ d.miss \in MissDistances
        /\ d.offset \in VerticalOffsets /\ d.level \in FlightLevels
        /\ d.speed_a \in SpeedRange /\ d.speed_b \in SpeedRange
        /\ d.track_a \in FirstTrack /\ d.crossing \in CrossingAngles
    BY DEF Draw
  <2>2. t \in Nat \ {0}
    BY <2>1, GeneratorAssumption
  <2>3. t >= 1 /\ t \in Nat
    <3> HIDE DEF t
    <3> QED
      BY <2>2
  <2> QED
    BY <2>1, <2>3, GeneratorAssumption
<1>2. k \in Heading
  <2>1. h + d.crossing \in Int /\ Circle \in Nat /\ Circle > 1
    BY <1>1, SimulationAssumption DEF Heading
  <2>2. \A x \in Int : x % Circle \in 0..(Circle - 1)
    BY <2>1
  <2> QED
    BY <2>1, <2>2 DEF TrackB, TurnedBy, Heading
<1>3. /\ w[a].plan = <<>> /\ w[b].plan = <<>> /\ w[a].entry = 0 /\ w[b].entry = 0
      /\ w[a].altitude = d.level /\ w[b].altitude = d.level + d.offset
      /\ w[a].v_altitude = 0 /\ w[b].v_altitude = 0
      /\ w[a].heading = h /\ w[b].heading = k /\ w[a].speed = v /\ w[b].speed = u
      /\ w[a].east = StartA(d).east /\ w[a].north = StartA(d).north
      /\ w[b].east = StartB(d).east /\ w[b].north = StartB(d).north
  BY DEF SpecA, SpecB, Aircrafts
<1> DEFINE o == Opposite(h)
           p == Opposite(k)
           q == RightOf(k)
<1>4. /\ StartA(d).east = 0 + (v * t) * Unit[o].east
      /\ StartA(d).north = 0 + (v * t) * Unit[o].north
      /\ StartB(d).east = (0 + (u * t) * Unit[p].east) + miss * Unit[q].east
      /\ StartB(d).north = (0 + (u * t) * Unit[p].north) + miss * Unit[q].north
  BY DEF StartA, StartB, DestinationPoint, Centre
<1>5. /\ Unit[o].east = -Unit[h].east /\ Unit[o].north = -Unit[h].north
      /\ Unit[p].east = -Unit[k].east /\ Unit[p].north = -Unit[k].north
      /\ Unit[q].east * Unit[q].east + Unit[q].north * Unit[q].north = 1
      /\ Unit[q].east \in Int /\ Unit[q].north \in Int
      /\ Unit[h].east \in Int /\ Unit[h].north \in Int
      /\ Unit[k].east \in Int /\ Unit[k].north \in Int
  <2>1. q \in Heading
    BY <1>2, OppositeFits
  <2>2. \A x \in Heading : Unit[x].east \in Int /\ Unit[x].north \in Int
    BY SimulationAssumption DEF Heading
  <2> QED
    BY <1>1, <1>2, <2>1, <2>2, OppositeFits
<1>6. /\ FirstStep(w[a]) = 1 /\ FirstStep(w[b]) = 1
      /\ StepsAt(w[a], t) = t /\ StepsAt(w[b], t) = t
  BY <1>1, <1>3 DEF FirstStep, StepsAt
<1>7. /\ EastAt(w[a], t) = w[a].east + t * (v * Unit[h].east)
      /\ NorthAt(w[a], t) = w[a].north + t * (v * Unit[h].north)
      /\ EastAt(w[b], t) = w[b].east + t * (u * Unit[k].east)
      /\ NorthAt(w[b], t) = w[b].north + t * (u * Unit[k].north)
      /\ LevelAt(w[a], t) = d.level + t * 0 /\ LevelAt(w[b], t) = (d.level + d.offset) + t * 0
  BY <1>3, <1>6 DEF EastAt, NorthAt, LevelAt
<1> HIDE DEF t, h, k, miss, v, u, o, p, q
<1>8. \A n \in Nat : \A i, j \in Int : (0 + (n * t) * (-i)) + j + t * (n * i) = j
  <2> TAKE n \in Nat
  <2> TAKE i, j \in Int
  <2> DEFINE back == (n * t) * (-i)
             forth == t * (n * i)
  <2>1. back = -forth /\ forth \in Int
    BY <1>1
  <2> HIDE DEF back, forth
  <2>2. (0 + back) + j + forth = j
    BY <2>1
  <2> QED
    BY <2>2 DEF back, forth
<1>9. \A n \in Nat : \A i \in Int : (0 + (n * t) * (-i)) + t * (n * i) = 0
  <2> TAKE n \in Nat
  <2> TAKE i \in Int
  <2> DEFINE back == (n * t) * (-i)
             forth == t * (n * i)
  <2>1. back = -forth /\ forth \in Int
    BY <1>1
  <2> HIDE DEF back, forth
  <2>2. (0 + back) + forth = 0
    BY <2>1
  <2> QED
    BY <2>2 DEF back, forth
<1>10. EastAt(w[a], t) = 0 /\ NorthAt(w[a], t) = 0
  <2> DEFINE x == Unit[h].east
             y == Unit[h].north
  <2>1. x \in Int /\ y \in Int
    BY <1>5
  <2>2. /\ EastAt(w[a], t) = (0 + (v * t) * (-x)) + t * (v * x)
        /\ NorthAt(w[a], t) = (0 + (v * t) * (-y)) + t * (v * y)
    BY <1>3, <1>4, <1>5, <1>7
  <2> HIDE DEF x, y
  <2> QED
    BY <1>1, <1>9, <2>1, <2>2
<1>11. /\ miss * Unit[q].east \in Int /\ miss * Unit[q].north \in Int
       /\ EastAt(w[b], t) = miss * Unit[q].east /\ NorthAt(w[b], t) = miss * Unit[q].north
  <2>1. miss * Unit[q].east \in Int /\ miss * Unit[q].north \in Int
    <3>1. \A i, j \in Int : i * j \in Int
      OBVIOUS
    <3>2. Unit[q].east \in Int /\ Unit[q].north \in Int /\ miss \in Int
      BY <1>1, <1>5
    <3> QED
      BY <3>1, <3>2
  <2> DEFINE x == miss * Unit[q].east
             y == miss * Unit[q].north
             i == Unit[k].east
             j == Unit[k].north
  <2>2. /\ EastAt(w[b], t) = (0 + (u * t) * (-i)) + x + t * (u * i)
        /\ NorthAt(w[b], t) = (0 + (u * t) * (-j)) + y + t * (u * j)
    BY <1>3, <1>4, <1>5, <1>7
  <2>3. x \in Int /\ y \in Int /\ i \in Int /\ j \in Int
    BY <1>5, <2>1
  <2> HIDE DEF x, y, i, j
  <2>4. EastAt(w[b], t) = x /\ NorthAt(w[b], t) = y
    BY <1>1, <1>8, <2>2, <2>3
  <2> QED
    BY <2>1, <2>4 DEF x, y
<1>12. LevelAt(w[a], t) = d.level /\ LevelAt(w[b], t) = d.level + d.offset
  <2>1. t * 0 = 0
    BY <1>1
  <2> QED
    BY <1>1, <1>7, <2>1
<1>13. /\ r.east = miss * Unit[q].east - 0 /\ r.north = miss * Unit[q].north - 0
       /\ r.altitude = (d.level + d.offset) - d.level
  BY <1>10, <1>11, <1>12 DEF ApartBy
<1> HIDE DEF r
<1>14. DistanceSquared(r) = miss * miss
  <2> DEFINE e == Unit[q].east
             n == Unit[q].north
  <2>1. r.east = miss * e /\ r.north = miss * n
    BY <1>11, <1>13
  <2>2. e \in Int /\ n \in Int /\ e * e + n * n = 1
    BY <1>5
  <2> HIDE DEF e, n
  <2>3. (miss * e) * (miss * e) + (miss * n) * (miss * n) = (miss * miss) * (e * e + n * n)
    BY <1>1, <2>2
  <2>4. (miss * miss) * 1 = miss * miss
    BY <1>1
  <2> QED
    BY <2>1, <2>2, <2>3, <2>4 DEF DistanceSquared
<1>15. r.altitude = d.offset
  BY <1>1, <1>13
<1>16. LevelAt(w[a], t) \in Nat /\ LevelAt(w[b], t) \in Nat
  BY <1>1, <1>12
<1> QED
  BY <1>1, <1>3, <1>6, <1>14, <1>15, <1>16 DEF t, miss, r

\* What the invariant knows of how near pairs came.
NearInv == FlightsInv /\ PathsWhole /\ ClosestKept /\ SeenHasFlown /\ RaisedNear

\* Two straight flights are at an instant of both where their courses are.
LEMMA CoursesOfPaths ==
    ASSUME NearInv, NEW a \in Aircraft, NEW b \in Aircraft,
           world[a].plan = <<>>, world[b].plan = <<>>,
           NEW t \in Nat, FirstStep(world[a]) <= t, FirstStep(world[b]) <= t, t <= elapsed
    PROVE  /\ t \in DOMAIN path[a] /\ t \in DOMAIN path[b]
           /\ BetweenAt(a, b, t).east = ApartBy(world, a, b, t).east
           /\ BetweenAt(a, b, t).north = ApartBy(world, a, b, t).north
           /\ (LevelAt(world[a], t) >= 0 /\ LevelAt(world[b], t) >= 0) =>
                 BetweenAt(a, b, t).altitude = ApartBy(world, a, b, t).altitude
<1>1. elapsed \in Nat /\ \A x \in Aircraft : world[x] \in AircraftSpec /\ FirstStep(world[x]) \in Nat
  BY ReplayAssumption
     DEF NearInv, FlightsInv, Typed, LoopTypeOK, FirstStep, AircraftSpec
<1>2. ASSUME NEW x \in Aircraft, world[x].plan = <<>>, FirstStep(world[x]) <= t
      PROVE  /\ t \in DOMAIN path[x]
             /\ path[x][t].east = EastAt(world[x], t) /\ path[x][t].north = NorthAt(world[x], t)
             /\ LevelAt(world[x], t) >= 0 => path[x][t].altitude = LevelAt(world[x], t)
  <2>1. t \in DOMAIN path[x]
    <3>1. t \in FirstStep(world[x])..elapsed
      BY <1>1, <1>2
    <3> QED
      BY <3>1 DEF NearInv, PathsWhole
  <2>2. path[x][t] \in AircraftTruth
    BY <2>1 DEF NearInv, FlightsInv, PathsKept
  <2>3. StraightAt(path[x][t], world[x], StepsAt(world[x], t))
    BY <1>2, <2>1 DEF NearInv, FlightsInv, StraightKept
  <2>4. world[x] \in AircraftSpec /\ LevelAt(world[x], t) \in Int
    BY <1>1, CourseFits
  <2> QED
    BY <2>1, <2>2, <2>3, <2>4, LevelOrGround
<1>3. /\ BetweenAt(a, b, t).east = path[b][t].east - path[a][t].east
      /\ BetweenAt(a, b, t).north = path[b][t].north - path[a][t].north
      /\ BetweenAt(a, b, t).altitude = path[b][t].altitude - path[a][t].altitude
  BY DEF BetweenAt, Relative, Seen
<1>4. /\ ApartBy(world, a, b, t).east = EastAt(world[b], t) - EastAt(world[a], t)
      /\ ApartBy(world, a, b, t).north = NorthAt(world[b], t) - NorthAt(world[a], t)
      /\ ApartBy(world, a, b, t).altitude = LevelAt(world[b], t) - LevelAt(world[a], t)
  BY DEF ApartBy
<1> QED
  BY <1>2, <1>3, <1>4

\* How near a pair is said to have come is how near it came: a staged pair as near as it
\* was aimed at, and the pair of an alert raised in straight flight near.
THEOREM NearnessIsTrueCorrect ==
    ASSUME NeverAtCeiling, Orthonormal
    PROVE  Spec => []NearnessIsTrue
<1>1. NearInv => StagedPairMeets
  <2> SUFFICES ASSUME NearInv, NEW s \in Stagings[world], elapsed >= s.draw.time_to_meet
               PROVE  LET t == s.draw.time_to_meet
                          r == BetweenAt(s.first, s.second, t)
                          miss == s.draw.miss
                      IN  /\ DistanceSquared(r) = miss * miss /\ r.altitude = s.draw.offset
                          /\ closest # NeverSeen /\ closest.horizontal_sq <= miss * miss
                          /\ miss < Horizontal /\ s.draw.offset < Vertical => closest.conflicted
    BY DEF StagedPairMeets, BetweenAt
  <2> DEFINE a == s.first
             b == s.second
             d == s.draw
             t == d.time_to_meet
             r == BetweenAt(a, b, t)
             o == ApartBy(world, a, b, t)
             miss == d.miss
  <2>1. world \in Worlds /\ elapsed \in Nat
    BY DEF NearInv, FlightsInv, Typed, LoopTypeOK
  <2>2. /\ a \in Aircraft /\ b \in Aircraft /\ d \in Draw /\ a # b
        /\ world[a] = SpecA(d, <<>>) /\ world[b] = SpecB(d, <<>>)
    BY <2>1 DEF Stagings, Staging
  <2> HIDE DEF a, b, d
  <2>3. /\ t \in Nat /\ t >= 1 /\ miss \in Nat /\ d.offset \in Nat
        /\ FirstStep(world[a]) = 1 /\ FirstStep(world[b]) = 1
        /\ world[a].plan = <<>> /\ world[b].plan = <<>>
        /\ LevelAt(world[a], t) \in Nat /\ LevelAt(world[b], t) \in Nat
        /\ DistanceSquared(o) = miss * miss /\ o.altitude = d.offset
    BY <2>2, StagedPasses
  <2>4. t <= elapsed
    BY DEF d
  <2>5. /\ t \in DOMAIN path[a] /\ t \in DOMAIN path[b]
        /\ r.east = o.east /\ r.north = o.north
        /\ (LevelAt(world[a], t) >= 0 /\ LevelAt(world[b], t) >= 0) => r.altitude = o.altitude
    <3>1. FirstStep(world[a]) <= t /\ FirstStep(world[b]) <= t
      BY <2>3
    <3> HIDE DEF t, o, r
    <3> QED
      BY <2>2, <2>3, <2>4, <3>1, CoursesOfPaths DEF o, r
  <2> HIDE DEF t, r, o, miss
  <2>6. DistanceSquared(r) = miss * miss /\ r.altitude = d.offset
    BY <2>3, <2>5 DEF DistanceSquared
  <2>7. /\ closest # NeverSeen /\ closest.horizontal_sq <= DistanceSquared(r)
        /\ TooClose(r) => closest.conflicted
    BY <2>2, <2>5 DEF NearInv, ClosestKept, r
  <2>8. miss < Horizontal /\ d.offset < Vertical => TooClose(r)
    <3> SUFFICES ASSUME miss < Horizontal, d.offset < Vertical PROVE TooClose(r)
      OBVIOUS
    <3>1. Horizontal \in Nat /\ Horizontal > 0
      BY SeparationAssumption
    <3>2. miss * miss < Horizontal * Horizontal
      <4>1. miss * miss <= Horizontal * miss
        BY <2>3, <3>1, Products
      <4>2. miss * Horizontal < Horizontal * Horizontal
        BY <2>3, <3>1, StrictProducts
      <4>3. miss * Horizontal = Horizontal * miss /\ miss * miss \in Int
            /\ Horizontal * miss \in Int /\ Horizontal * Horizontal \in Int
        BY <2>3, <3>1
      <4> QED
        BY <4>1, <4>2, <4>3
    <3>3. Size(d.offset) = d.offset
      BY <2>3 DEF Size
    <3> QED
      BY <2>6, <3>2, <3>3 DEF TooClose
  <2> QED
    BY <2>6, <2>7, <2>8 DEF a, b, d, t, r, miss
<1>2. NearInv => StraightAlertsAreNear
  <2> SUFFICES ASSUME NearInv, Straight, outcome # NotScored, dropped = 0,
                      NEW u \in Alerts, u + Lookahead <= Duration,
                      NEW a \in Aircraft, NEW b \in Aircraft, a # b
               PROVE  LET r == Relative(Seen(InitialTruth(world[a])), Seen(InitialTruth(world[b])))
                          within == Horizontal + Size(r.v_east) + Size(r.v_north)
                      IN  closest # NeverSeen /\ closest.horizontal_sq < within * within
    BY DEF StraightAlertsAreNear
  <2>1. /\ elapsed \in Nat /\ elapsed >= Duration /\ Duration \in Nat /\ Lookahead \in Nat
        /\ raised \in [Condition -> 1..NotRaised]
    BY ReplayAssumption, SeparationAssumption
       DEF NearInv, FlightsInv, SamplesKept, Typed, LoopTypeOK
  <2>2. PICK c \in Conflicts : u = raised[c] /\ u # NotRaised
    BY DEF Alerts
  <2>3. u \in Nat
    BY <2>1, <2>2 DEF Condition, NotRaised
  <2>4. PICK n \in 0..Lookahead : NearAt(world, a, b, u + n)
    BY <2>2 DEF NearInv, RaisedNear
  <2> DEFINE t == u + n
             r == Relative(Seen(InitialTruth(world[a])), Seen(InitialTruth(world[b])))
             within == Horizontal + Size(r.v_east) + Size(r.v_north)
             o == ApartBy(world, a, b, t)
             s == BetweenAt(a, b, t)
  <2>5. t \in Nat /\ t <= elapsed
    BY <2>1, <2>3
  <2>6. /\ FirstStep(world[a]) <= t /\ FirstStep(world[b]) <= t
        /\ DistanceSquared(o) < within * within
    BY <2>4 DEF NearAt
  <2>7. world[a].plan = <<>> /\ world[b].plan = <<>>
    BY DEF Straight
  <2> HIDE DEF t, within
  <2>8. t \in DOMAIN path[a] /\ t \in DOMAIN path[b] /\ s.east = o.east /\ s.north = o.north
    BY <2>5, <2>6, <2>7, CoursesOfPaths
  <2>9. path[a][t] \in AircraftTruth /\ path[b][t] \in AircraftTruth
    BY <2>8 DEF NearInv, FlightsInv, PathsKept
  <2>10. DistanceSquared(s) \in Nat
    BY <2>9, SeenFromEither DEF BetweenAt
  <2>11. closest # NeverSeen /\ closest.horizontal_sq <= DistanceSquared(s)
    BY <2>8 DEF NearInv, ClosestKept
  <2>12. closest.horizontal_sq \in Nat
    BY <2>11 DEF NearInv, ClosestKept
  <2>13. DistanceSquared(s) = DistanceSquared(o)
    BY <2>8 DEF DistanceSquared
  <2>14. within * within \in Int
    <3>1. r.v_east \in Int /\ r.v_north \in Int
      <4>1. ASSUME NEW x \in Aircraft
            PROVE  /\ world[x].speed * Unit[world[x].heading].east \in Int
                   /\ world[x].speed * Unit[world[x].heading].north \in Int
        <5>1. world[x] \in AircraftSpec
          BY ReplayAssumption DEF NearInv, FlightsInv, Typed, LoopTypeOK
        <5>2. world[x].speed \in Int /\ world[x].heading \in Heading
          BY <5>1 DEF AircraftSpec
        <5>3. Unit[world[x].heading].east \in Int /\ Unit[world[x].heading].north \in Int
          BY <5>2, SimulationAssumption DEF Heading
        <5>4. \A i, j \in Int : i * j \in Int
          OBVIOUS
        <5> QED
          BY <5>2, <5>3, <5>4
      <4> DEFINE ve(x) == world[x].speed * Unit[world[x].heading].east
                 vn(x) == world[x].speed * Unit[world[x].heading].north
      <4>2. r.v_east = ve(b) - ve(a) /\ r.v_north = vn(b) - vn(a)
        BY DEF Relative, Seen, InitialTruth
      <4>3. ve(a) \in Int /\ ve(b) \in Int /\ vn(a) \in Int /\ vn(b) \in Int
        BY <4>1
      <4> HIDE DEF r, ve, vn
      <4> QED
        BY <4>2, <4>3
    <3> HIDE DEF r
    <3>2. within \in Int
      BY <3>1, SeparationAssumption DEF within, Size
    <3> QED
      BY <3>2
  <2> HIDE DEF s, o
  <2>15. closest.horizontal_sq < within * within
    BY <2>6, <2>10, <2>11, <2>12, <2>13, <2>14
  <2> QED
    BY <2>11, <2>15 DEF within
<1>3. Init => NearInv
  <2> SUFFICES ASSUME Init PROVE NearInv
    OBVIOUS
  <2>1. FlightsInv
    BY TypedInit, FlightsInit DEF FlightsInv
  <2>2. /\ elapsed = 0 /\ closest = NeverSeen /\ picture = <<>> /\ world \in Worlds
        /\ \A a \in Aircraft : path[a] = <<>>
        /\ \A c \in Condition : raised[c] = NotRaised
    BY DEF Init
  <2>3. PathsWhole
    <3>1. \A a \in Aircraft : FirstStep(world[a]) \in Nat /\ FirstStep(world[a]) > 0
      BY <2>2, ReplayAssumption DEF FirstStep, AircraftSpec
    <3> QED
      BY <2>2, <3>1 DEF PathsWhole
  <2>4. ClosestKept
    BY <2>2 DEF ClosestKept
  <2>5. SeenHasFlown
    BY <2>2 DEF SeenHasFlown
  <2>6. RaisedNear
    BY <2>2 DEF RaisedNear, Condition
  <2> QED
    BY <2>1, <2>3, <2>4, <2>5, <2>6 DEF NearInv
<1>4. NearInv /\ FlightsInv' /\ NoConflictInvented' /\ [Next]_vars => NearInv'
  <2> SUFFICES ASSUME NearInv, FlightsInv', NoConflictInvented', [Next]_vars PROVE NearInv'
    OBVIOUS
  <2>1. ASSUME NEW reporting \in SUBSET Aircraft, Step(Moved, reporting)
        PROVE  PathsWhole' /\ ClosestKept' /\ SeenHasFlown' /\ RaisedNear'
    <3>1. Typed /\ PathsKept
      BY DEF NearInv, FlightsInv
    <3>2. PathsWhole' /\ ClosestKept' /\ SeenHasFlown'
      BY <2>1, <3>1, WholeStep, ClosestStep, SeenFlies DEF NearInv
    <3>3. RaisedNear'
      BY <2>1, <3>1, <3>2, RaisedNearStep DEF NearInv, FlightsInv
    <3> QED
      BY <3>2, <3>3
  <2>2. ASSUME UNCHANGED <<world, elapsed, picture, path, closest, raised, dropped>>
        PROVE  PathsWhole' /\ ClosestKept' /\ SeenHasFlown' /\ RaisedNear'
    <3>1. /\ world' = world /\ elapsed' = elapsed /\ picture' = picture /\ path' = path
          /\ closest' = closest /\ raised' = raised /\ dropped' = dropped
      BY <2>2
    <3>2. PathsWhole' /\ SeenHasFlown'
      BY <3>1 DEF NearInv, PathsWhole, SeenHasFlown
    <3>3. ClosestKept'
      BY <3>1 DEF NearInv, ClosestKept, BetweenAt
    <3>4. RaisedNear'
      BY <3>1 DEF NearInv, RaisedNear, Straight
    <3> QED
      BY <3>2, <3>3, <3>4
  <2>3. Score \/ UNCHANGED vars =>
           UNCHANGED <<world, elapsed, picture, path, closest, raised, dropped>>
    BY DEF Score, vars
  <2> QED
    BY <2>1, <2>2, <2>3 DEF Next, NearInv
<1>5. NearInv => NearnessIsTrue
  BY <1>1, <1>2 DEF NearnessIsTrue
<1> QED
  BY <1>3, <1>4, <1>5, FlightsCorrect, NoConflictInventedCorrect, PTL DEF Spec

-----------------------------------------------------------------------------
(* StrayingIsNoticed. *)

\* Who has flown at an instant had begun by then.
PathsBegun == \A a \in Aircraft : \A t \in DOMAIN path[a] : FirstStep(world[a]) <= t

\* Where the course of an instant leads within a horizon, and when that may be compared.
Led(a, from) ==
    LET was == Seen(path[a][from])
    IN  [valid_at |-> from + Horizon,
         east |-> was.east + Horizon * was.v_east, north |-> was.north + Horizon * was.v_north]
Due(from) == from + Horizon - Tolerance

\* While reports get through, the prediction of every instant waits until then.
LedAwaited ==
    \A a \in Aircraft : \A from \in DOMAIN path[a] :
        dropped = 0 /\ elapsed < Due(from) =>
            \E i \in DOMAIN pending[a] : pending[a][i] = Led(a, from)

\* A deviation that is known was advised of.
ActiveAdvised ==
    \A a \in Aircraft :
        active[Deviation(a)] # Manager!NotActive => \E t \in advisories[a] : t <= elapsed

\* Who was off its course when the prediction was compared was advised of by then.
StrayedAdvised ==
    \A a \in Aircraft : \A from \in DOMAIN path[a] :
        /\ dropped = 0 /\ Due(from) <= elapsed
        /\ DriftSquared(a, from, Due(from)) > Threshold * Threshold
        => \E t \in advisories[a] : t <= Due(from)

\* The score is what the advisories at the end of the scenario give.
NoticedKept ==
    outcome # NotScored =>
        /\ elapsed >= Duration
        /\ outcome.noticed = [a \in Aircraft |-> DetectedManoeuvres(Manoeuvres(a), advisories[a])]

StrayInv ==
    PathsWhole /\ PathsBegun /\ LedAwaited /\ ActiveAdvised /\ StrayedAdvised /\ NoticedKept

\* A prediction waits until it is due.
LEMMA WaitsUntilDue ==
    ASSUME QueueSuffices, NEW queue, NEW update \in AircraftUpdate, Predicted(queue, update.at),
           NEW i \in DOMAIN queue, update.at + Tolerance < queue[i].valid_at
    PROVE  \E j \in DOMAIN Observed(queue, update) : Observed(queue, update)[j] = queue[i]
<1> DEFINE now == update.at
           n == DueCount(queue, now)
           W == Waiting(queue, now)
<1>1. /\ queue \in Seq(Prediction) /\ Len(queue) \in Nat /\ DOMAIN queue = 1..Len(queue)
      /\ \A l \in 1..Len(queue) : queue[l].valid_at \in Nat
  BY PredictionsFit DEF Predicted
<1>2. now \in Nat /\ Tolerance \in Nat
  BY MonitorAssumption DEF AircraftUpdate
<1>3. /\ n \in 0..Len(queue)
      /\ \A l \in 1..n : queue[l].valid_at <= now + Tolerance
  BY <1>1, <1>2, PoppedIsDue
<1>4. /\ W \in Seq(Prediction) /\ Len(W) = Len(queue) - n /\ DOMAIN W = 1..Len(W)
      /\ \A l \in 1..Len(W) : W[l] = queue[l + n]
  BY <1>1, <1>2, WaitingIsRest
<1>5. Observed(queue, update) = Append(W, Predict(update))
  BY ObservedFits
<1>6. Predict(update) \in Prediction
  BY PredictFits
<1> HIDE DEF n, W
<1>7. ~ (i \in 1..n)
  <2> DEFINE at == queue[i].valid_at
  <2>1. at \in Nat /\ now + Tolerance < at
    BY <1>1
  <2>2. i \in 1..n => at <= now + Tolerance
    BY <1>3
  <2> HIDE DEF at
  <2> QED
    BY <1>2, <2>1, <2>2
<1>8. n \in Nat /\ i \in Nat /\ i > n /\ i <= Len(queue) /\ i - n \in 1..Len(W) /\ (i - n) + n = i
  BY <1>1, <1>3, <1>4, <1>7
<1>9. W[i - n] = queue[i]
  BY <1>4, <1>8
<1>10. /\ DOMAIN Append(W, Predict(update)) = 1..(Len(W) + 1)
       /\ \A l \in 1..Len(W) : Append(W, Predict(update))[l] = W[l]
  BY <1>4, <1>6, AppendProperties
<1>11. i - n \in 1..(Len(W) + 1)
  BY <1>4, <1>8
<1> QED
  BY <1>5, <1>8, <1>9, <1>10, <1>11

\* And then is compared.
LEMMA ComparedWhenDue ==
    ASSUME NEW queue, NEW now \in Nat, Predicted(queue, now),
           NEW i \in DOMAIN queue, queue[i].valid_at = now + Tolerance
    PROVE  queue[i] \in Checked(queue, now)
<1> DEFINE n == DueCount(queue, now)
           P == Popped(queue, now)
<1>1. /\ queue \in Seq(Prediction) /\ Len(queue) \in Nat /\ DOMAIN queue = 1..Len(queue)
      /\ \A l \in 1..Len(queue) : queue[l].valid_at \in Nat
  BY PredictionsFit DEF Predicted
<1>2. /\ n \in 0..Len(queue) /\ P \in Seq(Prediction) /\ Len(P) = n
      /\ \A l \in 1..n : P[l] = queue[l]
  BY <1>1, PoppedIsDue
<1>3. n < Len(queue) => now + Tolerance < queue[n + 1].valid_at
  BY <1>1, DueCountFits
<1> HIDE DEF n, P
<1>4. Tolerance \in Nat
  BY MonitorAssumption
<1>5. i \in 1..n
  <2> SUFFICES ASSUME ~ (i \in 1..n) PROVE FALSE
    OBVIOUS
  <2>1. n \in Nat /\ i \in Nat /\ n < i /\ n < Len(queue) /\ n + 1 \in 1..Len(queue)
    BY <1>1, <1>2
  <2>2. CASE n + 1 = i
    BY <1>3, <1>4, <2>1, <2>2
  <2>3. CASE n + 1 # i
    <3> DEFINE first == queue[n + 1].valid_at
               at == queue[i].valid_at
    <3>1. n + 1 < i
      BY <2>1, <2>3
    <3>2. i - (n + 1) <= at - first
      BY <1>1, <2>1, <3>1 DEF Predicted
    <3>3. first \in Nat /\ at \in Nat /\ now + Tolerance < first /\ at = now + Tolerance
      BY <1>1, <1>3, <2>1
    <3> HIDE DEF first, at
    <3> QED
      BY <1>4, <2>1, <3>1, <3>2, <3>3
  <2> QED
    BY <2>2, <2>3
<1>6. queue[i] \in ToSet(P)
  <2>1. DOMAIN P = 1..n
    BY <1>2
  <2> QED
    BY <1>2, <1>5, <2>1 DEF ToSet
<1>7. now <= queue[i].valid_at + Tolerance
  <2> DEFINE at == queue[i].valid_at
  <2>1. at = now + Tolerance
    OBVIOUS
  <2> HIDE DEF at
  <2>2. now <= at + Tolerance
    BY <1>4, <2>1
  <2> QED
    BY <2>2 DEF at
<1> QED
  BY <1>6, <1>7 DEF Checked, P

\* An advisory stays.
LEMMA AdvisoriesStay ==
    ASSUME NEW reporting \in SUBSET Aircraft, Step(Moved, reporting), NEW a \in Aircraft
    PROVE  advisories[a] \subseteq advisories'[a]
<1> DEFINE known == Absorbed(Moved, reporting)
           gone == Stale(known)
           detections == Detections([b \in DOMAIN known \ gone |-> known[b]], reporting)
           alerts == Manager!ReconcileAlerts(Manager!Older(active, 1), {d.key : d \in detections})
           Published(c, states) == \E alert \in alerts : alert.key = c /\ alert.state \in states
<1>1. advisories' = [b \in Aircraft |->
                        IF Published(Deviation(b), {"NEW"}) THEN advisories[b] \cup {elapsed + 1}
                        ELSE advisories[b]]
  BY DEF Step, Scanned
<1> HIDE DEF alerts
<1> QED
  BY <1>1

\* Of what a scan finds there is an alert, and of a deviation without one an advisory.
LEMMA DetectedIsActive ==
    ASSUME Typed, ActiveAdvised, NEW reporting \in SUBSET Aircraft, Step(Moved, reporting),
           NEW a \in Aircraft
    PROVE  /\ active'[Deviation(a)] # Manager!NotActive =>
                 \E t \in advisories'[a] : t <= elapsed + 1
           /\ a \in reporting /\ IsFinding(pending[a], Absorbed(Moved, reporting)[a]) =>
                 \E t \in advisories'[a] : t <= elapsed + 1
<1> DEFINE known == Absorbed(Moved, reporting)
           gone == Stale(known)
           current == [b \in DOMAIN known \ gone |-> known[b]]
           detections == Detections(current, reporting)
           keys == {d.key : d \in detections}
           before == Manager!Older(active, 1)
           alerts == Manager!ReconcileAlerts(before, keys)
           Published(c, states) == \E alert \in alerts : alert.key = c /\ alert.state \in states
           dev == Deviation(a)
<1>1. Scanned(known, gone, detections)
  BY DEF Step
<1>2. /\ active' = Manager!Forgotten(Manager!Reconciled(before, keys), gone)
      /\ advisories' = [b \in Aircraft |->
                        IF Published(Deviation(b), {"NEW"}) THEN advisories[b] \cup {elapsed + 1}
                        ELSE advisories[b]]
  BY <1>1 DEF Scanned
<1>3. dev \in Condition
  BY DEF Condition, Deviation
<1>4. elapsed \in Nat
  BY DEF Typed, LoopTypeOK
<1>5. before[dev] # Manager!NotActive => active[dev] # Manager!NotActive
  BY <1>3 DEF Manager!Older
<1>6. before[dev] # Manager!NotActive => \E t \in advisories'[a] : t <= elapsed + 1
  <2> SUFFICES ASSUME before[dev] # Manager!NotActive
               PROVE  \E t \in advisories'[a] : t <= elapsed + 1
    OBVIOUS
  <2>1. PICK t \in advisories[a] : t <= elapsed
    BY <1>5 DEF ActiveAdvised
  <2>2. t \in advisories'[a]
    BY <2>1, AdvisoriesStay
  <2>3. t \in Nat
    BY <2>1 DEF Typed, LoopTypeOK
  <2> QED
    BY <1>4, <2>1, <2>2, <2>3
<1>7. dev \in keys => \E t \in advisories'[a] : t <= elapsed + 1
  <2> SUFFICES ASSUME dev \in keys, before[dev] = Manager!NotActive
               PROVE  \E t \in advisories'[a] : t <= elapsed + 1
    BY <1>6
  <2> HIDE DEF keys, before
  <2>1. dev \in Manager!Raised(before, keys)
    BY <1>3 DEF Manager!Raised, Manager!ActiveKeys
  <2>2. [key |-> dev, state |-> "NEW"] \in alerts
    BY <2>1 DEF Manager!ReconcileAlerts, Manager!Alerts
  <2> HIDE DEF alerts, dev
  <2>3. Published(dev, {"NEW"})
    <3> DEFINE new == [key |-> dev, state |-> "NEW"]
    <3>1. new.key = dev /\ new.state = "NEW" /\ new \in alerts
      BY <2>2
    <3> HIDE DEF new
    <3> QED
      BY <3>1
  <2>4. elapsed + 1 \in advisories'[a]
    <3> HIDE DEF Published
    <3> QED
      BY <1>2, <2>3 DEF dev
  <2>5. elapsed + 1 <= elapsed + 1
    BY <1>4
  <2> QED
    BY <2>4, <2>5
<1>8. ASSUME active'[dev] # Manager!NotActive
      PROVE  dev \in keys \/ before[dev] # Manager!NotActive
  <2> HIDE DEF keys, before, gone
  <2>1. Manager!Reconciled(before, keys)[dev] # Manager!NotActive
    BY <1>2, <1>3, <1>8 DEF Manager!Forgotten
  <2>2. \/ dev \in Manager!Raised(before, keys) \cup Manager!Due(before, keys)
        \/ dev \in keys
        \/ dev \in Manager!Missed(before, keys)
    BY <1>3, <2>1 DEF Manager!Reconciled
  <2> QED
    BY <2>2 DEF Manager!Raised, Manager!Due, Manager!Missed, Manager!ActiveKeys
<1>9. ASSUME a \in reporting, IsFinding(pending[a], known[a])
      PROVE  dev \in keys
  <2>1. /\ DOMAIN known = DOMAIN picture \cup reporting
        /\ gone \subseteq DOMAIN known \ reporting
    BY KnownFits
  <2>2. current[a] = known[a]
    <3> HIDE DEF known, gone
    <3> QED
      BY <1>9, <2>1
  <2> HIDE DEF current
  <2>3. a \in Deviating(current, reporting)
    BY <1>9, <2>2 DEF Deviating
  <2>4. [key |-> dev, severity |-> "ADVISORY"] \in detections
    BY <2>3 DEF Detections
  <2> DEFINE found == [key |-> dev, severity |-> "ADVISORY"]
  <2>5. found.key = dev /\ found \in detections
    BY <2>4
  <2> HIDE DEF found, detections
  <2> QED
    BY <2>5
<1>10. active'[Deviation(a)] # Manager!NotActive => \E t \in advisories'[a] : t <= elapsed + 1
  BY <1>6, <1>7, <1>8
<1> QED
  BY <1>7, <1>9, <1>10 DEF known

\* The horizon is longer than the tolerance.
LEMMA DueFits ==
    ASSUME QueueSuffices, NEW from \in Nat
    PROVE  /\ Due(from) \in Nat /\ from < Due(from) /\ Due(from) <= from + Horizon
           /\ Due(from) + Tolerance = from + Horizon
BY MonitorAssumption DEF QueueSuffices, Due

\* Who flies reports while nothing is lost.
LEMMA FlierReports ==
    ASSUME QueueSuffices, ReplayInv, NEW reporting \in SUBSET Aircraft, Step(Moved, reporting),
           dropped' = 0, NEW a \in Aircraft, Moved[a].airborne
    PROVE  /\ dropped = 0 /\ a \in reporting
           /\ Absorbed(Moved, reporting)[a] = Update(Moved, a)
           /\ Update(Moved, a) \in AircraftUpdate /\ Update(Moved, a).at = elapsed + 1
           /\ Predicted(pending[a], Update(Moved, a).at)
           /\ pending'[a] = Observed(pending[a], Update(Moved, a))
<1> DEFINE known == Absorbed(Moved, reporting)
           gone == Stale(known)
<1>1. Typed /\ LoopTypeOK /\ elapsed \in Nat
  BY DEF ReplayInv, Typed, LoopTypeOK
<1>2. dropped = 0 /\ Flying(Moved) \subseteq reporting
  BY <1>1, AllReport
<1>3. a \in reporting
  BY <1>2 DEF Flying
<1>4. known[a] = Update(Moved, a)
  BY <1>3 DEF Absorbed
<1>5. a \notin gone
  BY <1>1, <1>3, KnownFits
<1>6. pending'[a] = IF a \in gone THEN <<>>
                    ELSE IF a \in reporting THEN Observed(pending[a], known[a])
                    ELSE pending[a]
  BY DEF Step
<1>7. Update(Moved, a) \in AircraftUpdate /\ Update(Moved, a).at = elapsed + 1
  BY <1>1, MovedFits, UpdateFits
<1>8. Predicted(pending[a], elapsed + 1)
  BY QueueBefore
<1> HIDE DEF known, gone
<1>9. pending'[a] = Observed(pending[a], Update(Moved, a))
  BY <1>3, <1>4, <1>5, <1>6
<1> QED
  BY <1>2, <1>3, <1>4, <1>7, <1>8, <1>9 DEF known

\* A step adds an instant to the path of who flies, and leaves the others as they were.
LEMMA PathGrows ==
    ASSUME Typed, PathsBegun, NEW reporting \in SUBSET Aircraft, Step(Moved, reporting),
           NEW a \in Aircraft, NEW from \in DOMAIN path'[a]
    PROVE  /\ Moved[a].airborne /\ FirstStep(world[a]) <= from /\ from \in 1..(elapsed + 1)
           /\ path'[a][elapsed + 1] = Moved[a]
           /\ \A t \in DOMAIN path[a] : path'[a][t] = path[a][t]
           /\ from # elapsed + 1 => from \in DOMAIN path[a]
<1>1. path' = Recorded(Moved) /\ elapsed \in Nat /\ LoopTypeOK /\ DOMAIN path[a] \subseteq 1..elapsed
  BY DEF Step, Typed, LoopTypeOK, SeenTypeOK
<1>2. FirstStep(world[a]) \in Nat
  BY ReplayAssumption DEF Typed, LoopTypeOK, FirstStep, AircraftSpec
<1>3. from \in DOMAIN path[a] => Moved[a].airborne
  <2> SUFFICES ASSUME from \in DOMAIN path[a] PROVE Moved[a].airborne
    OBVIOUS
  <2>1. FirstStep(world[a]) <= from /\ from \in 1..elapsed
    BY <1>1 DEF PathsBegun
  <2>2. FirstStep(world[a]) <= elapsed + 1
    BY <1>1, <1>2, <2>1
  <2> QED
    BY <1>1, <2>2, FliesSinceEntry
<1>4. Moved[a].airborne
  BY <1>1, <1>3, RecordedFits
<1>5. /\ DOMAIN path'[a] = DOMAIN path[a] \cup {elapsed + 1}
      /\ path'[a][elapsed + 1] = Moved[a]
      /\ \A t \in DOMAIN path[a] : path'[a][t] = path[a][t]
  BY <1>1, <1>4, RecordedFits
<1>6. from \in DOMAIN path[a] \/ from = elapsed + 1
  BY <1>5
<1>7. FirstStep(world[a]) <= from
  <2>1. FirstStep(world[a]) <= elapsed + 1
    BY <1>1, <1>4, FliesSinceEntry
  <2> QED
    BY <1>6, <2>1 DEF PathsBegun
<1>8. from \in 1..(elapsed + 1)
  BY <1>1, <1>6
<1> QED
  BY <1>4, <1>5, <1>6, <1>7, <1>8

\* The prediction of this instant joins the queue, and those not yet due stay in it.
LEMMA LedAwaitedStep ==
    ASSUME QueueSuffices, ReplayInv, PathsBegun, LedAwaited,
           NEW reporting \in SUBSET Aircraft, Step(Moved, reporting)
    PROVE  LedAwaited'
<1>1. /\ Typed /\ elapsed \in Nat /\ world' = world /\ elapsed' = elapsed + 1
      /\ Horizon \in Nat /\ Tolerance \in Nat
  BY MonitorAssumption DEF ReplayInv, Typed, LoopTypeOK, Step
<1> SUFFICES ASSUME NEW a \in Aircraft, NEW from \in DOMAIN path'[a], dropped' = 0,
                    elapsed + 1 < Due(from)
             PROVE  \E i \in DOMAIN pending'[a] : pending'[a][i] = Led(a, from)'
  BY <1>1 DEF LedAwaited, Due
<1> DEFINE update == Update(Moved, a)
<1>2. /\ Moved[a].airborne /\ from \in 1..(elapsed + 1)
      /\ path'[a][elapsed + 1] = Moved[a]
      /\ \A t \in DOMAIN path[a] : path'[a][t] = path[a][t]
      /\ from # elapsed + 1 => from \in DOMAIN path[a]
  BY <1>1, PathGrows
<1>3. /\ dropped = 0 /\ update \in AircraftUpdate /\ update.at = elapsed + 1
      /\ Predicted(pending[a], update.at) /\ pending'[a] = Observed(pending[a], update)
  BY <1>2, FlierReports
<1>4. CASE from = elapsed + 1
  <2> DEFINE p == Predict(update)
             W == Waiting(pending[a], update.at)
  <2>1. pending'[a] = Append(W, p)
    BY <1>3, ObservedFits
  <2>2. p \in Prediction
    BY <1>3, PredictFits
  <2>3. p = Led(a, from)'
    BY <1>1, <1>2, <1>4 DEF Led, Predict, Update, Seen
  <2>4. W \in Seq(Prediction)
    <3>1. pending[a] \in Seq(Prediction)
      BY <1>3 DEF Predicted
    <3>2. update.at \in Nat
      BY <1>1, <1>3
    <3> QED
      BY <3>1, <3>2, WaitingIsRest
  <2> HIDE DEF W, p
  <2>5. /\ Len(W) \in Nat /\ DOMAIN pending'[a] = 1..(Len(W) + 1)
        /\ pending'[a][Len(W) + 1] = p
    BY <2>1, <2>2, <2>4, AppendProperties
  <2>6. Len(W) + 1 \in DOMAIN pending'[a]
    BY <2>5
  <2> QED
    BY <2>3, <2>5, <2>6
<1>5. CASE from # elapsed + 1
  <2>1. from \in DOMAIN path[a] /\ from \in Nat /\ elapsed < Due(from)
    BY <1>1, <1>2, <1>5, DueFits
  <2>2. PICK i \in DOMAIN pending[a] : pending[a][i] = Led(a, from)
    BY <1>3, <2>1 DEF LedAwaited
  <2>3. update.at + Tolerance < pending[a][i].valid_at
    <3>1. pending[a][i].valid_at = Due(from) + Tolerance
      BY <2>1, <2>2, DueFits DEF Led
    <3> HIDE DEF update
    <3> QED
      BY <1>1, <1>3, <2>1, <3>1, DueFits
  <2>4. PICK j \in DOMAIN Observed(pending[a], update) :
           Observed(pending[a], update)[j] = pending[a][i]
    BY <1>3, <2>3, WaitsUntilDue
  <2>5. Led(a, from)' = Led(a, from)
    BY <1>2, <2>1 DEF Led
  <2> HIDE DEF update
  <2> QED
    BY <1>3, <2>2, <2>4, <2>5
<1> QED
  BY <1>4, <1>5

\* When it falls due, a prediction that is off is a finding.
LEMMA StrayingIsFound ==
    ASSUME QueueSuffices, ReplayInv, PathsBegun, LedAwaited,
           NEW reporting \in SUBSET Aircraft, Step(Moved, reporting), dropped' = 0,
           NEW a \in Aircraft, NEW from \in DOMAIN path'[a], Due(from) = elapsed + 1,
           DriftSquared(a, from, Due(from))' > Threshold * Threshold
    PROVE  a \in reporting /\ IsFinding(pending[a], Absorbed(Moved, reporting)[a])
<1> DEFINE update == Update(Moved, a)
           p == Led(a, from)
<1>1. /\ Typed /\ elapsed \in Nat /\ Horizon \in Nat /\ Tolerance \in Nat
  BY MonitorAssumption DEF ReplayInv, Typed, LoopTypeOK
<1>2. /\ Moved[a].airborne /\ from \in 1..(elapsed + 1)
      /\ path'[a][elapsed + 1] = Moved[a]
      /\ \A t \in DOMAIN path[a] : path'[a][t] = path[a][t]
      /\ from # elapsed + 1 => from \in DOMAIN path[a]
  BY <1>1, PathGrows
<1>3. /\ dropped = 0 /\ a \in reporting /\ Absorbed(Moved, reporting)[a] = update
      /\ update.at = elapsed + 1 /\ Predicted(pending[a], update.at)
  BY <1>2, FlierReports
<1>4. from \in DOMAIN path[a] /\ from \in Nat /\ elapsed < Due(from)
  BY <1>1, <1>2, DueFits
<1>5. PICK i \in DOMAIN pending[a] : pending[a][i] = p
  BY <1>3, <1>4 DEF LedAwaited
<1>6. p.valid_at = update.at + Tolerance
  <2>1. p.valid_at = Due(from) + Tolerance
    BY <1>4, DueFits DEF Led
  <2> HIDE DEF update, p
  <2> QED
    BY <1>3, <2>1
<1>7. p \in Checked(pending[a], update.at)
  <2>1. update.at \in Nat
    BY <1>1, <1>3
  <2> HIDE DEF update, p
  <2> QED
    BY <1>3, <1>5, <1>6, <2>1, ComparedWhenDue
<1>8. ErrorSquared(p, update) > Threshold * Threshold
  <2> DEFINE was == Seen(path[a][from])
             then == path'[a][Due(from)]
  <2>1. then = Moved[a] /\ path'[a][from] = path[a][from]
    BY <1>2, <1>4
  <2>2. p.east = was.east + Horizon * was.v_east /\ p.north = was.north + Horizon * was.v_north
    BY DEF Led
  <2>3. update.east = then.east /\ update.north = then.north
    BY <2>1 DEF Update, Seen
  <2>4. Due(from)' = Due(from)
    BY DEF Due
  <2>5. Seen(path'[a][from]) = was
    BY <2>1
  <2>6. DriftSquared(a, from, Due(from))' = Drift(was, then)
    BY <2>4, <2>5, Zenon DEF DriftSquared
  <2> HIDE DEF p, update, was, then
  <2>7. Drift(was, then) = ErrorSquared(p, update)
    <3> DEFINE led_east == was.east + Horizon * was.v_east
               led_north == was.north + Horizon * was.v_north
    <3>1. p.east = led_east /\ p.north = led_north
      BY <2>2
    <3>2. Drift(was, then)
            = (led_east - then.east) * (led_east - then.east)
                + (led_north - then.north) * (led_north - then.north)
      BY DEF Drift
    <3> HIDE DEF led_east, led_north
    <3>3. ErrorSquared(p, update)
            = (led_east - then.east) * (led_east - then.east)
                + (led_north - then.north) * (led_north - then.north)
      BY <3>1, <2>3, Zenon DEF ErrorSquared
    <3> QED
      BY <3>2, <3>3
  <2> QED
    BY <2>6, <2>7
<1> HIDE DEF p, update
<1>9. IsFinding(pending[a], update)
  BY <1>7, <1>8 DEF IsFinding
<1> QED
  BY <1>3, <1>9

\* And of a finding there is an advisory, now or since before.
LEMMA StrayedAdvisedStep ==
    ASSUME QueueSuffices, ReplayInv, StrayInv,
           NEW reporting \in SUBSET Aircraft, Step(Moved, reporting)
    PROVE  StrayedAdvised'
<1>1. /\ Typed /\ elapsed \in Nat /\ world' = world /\ elapsed' = elapsed + 1
      /\ PathsWhole /\ PathsBegun /\ LedAwaited /\ ActiveAdvised /\ StrayedAdvised
  BY DEF ReplayInv, Typed, LoopTypeOK, Step, StrayInv
<1> SUFFICES ASSUME NEW a \in Aircraft, NEW from \in DOMAIN path'[a], dropped' = 0,
                    Due(from) <= elapsed + 1,
                    DriftSquared(a, from, Due(from))' > Threshold * Threshold
             PROVE  \E t \in advisories'[a] : t <= Due(from)
  BY <1>1 DEF StrayedAdvised, Due
<1>2. /\ FirstStep(world[a]) <= from /\ from \in 1..(elapsed + 1)
      /\ \A t \in DOMAIN path[a] : path'[a][t] = path[a][t]
      /\ from # elapsed + 1 => from \in DOMAIN path[a]
  BY <1>1, PathGrows
<1>3. from \in Nat /\ Due(from) \in Nat /\ from < Due(from)
  BY <1>1, <1>2, DueFits
<1>4. CASE Due(from) = elapsed + 1
  <2>1. a \in reporting /\ IsFinding(pending[a], Absorbed(Moved, reporting)[a])
    BY <1>1, <1>4, StrayingIsFound
  <2>2. PICK t \in advisories'[a] : t <= elapsed + 1
    BY <1>1, <2>1, DetectedIsActive
  <2> QED
    BY <1>4, <2>2
<1>5. CASE Due(from) # elapsed + 1
  <2>1. Due(from) <= elapsed /\ from \in DOMAIN path[a]
    BY <1>1, <1>2, <1>3, <1>5
  <2>2. Due(from) \in DOMAIN path[a]
    <3>1. FirstStep(world[a]) \in Nat
      BY <1>1, ReplayAssumption DEF Typed, LoopTypeOK, FirstStep, AircraftSpec
    <3>2. Due(from) \in FirstStep(world[a])..elapsed
      BY <1>1, <1>2, <1>3, <2>1, <3>1
    <3> QED
      BY <1>1, <3>2 DEF PathsWhole
  <2>3. DriftSquared(a, from, Due(from))' = DriftSquared(a, from, Due(from))
    BY <1>2, <2>1, <2>2 DEF DriftSquared, Due
  <2>4. dropped = 0
    BY <1>1, AllReport
  <2>5. PICK t \in advisories[a] : t <= Due(from)
    BY <1>1, <2>1, <2>3, <2>4 DEF StrayedAdvised
  <2>6. t \in advisories'[a]
    BY <2>5, AdvisoriesStay
  <2> QED
    BY <2>5, <2>6
<1> QED
  BY <1>4, <1>5

\* At the start nothing has been flown yet.
LEMMA StrayInit == Init => StrayInv
<1> SUFFICES ASSUME Init PROVE StrayInv
  OBVIOUS
<1>1. /\ elapsed = 0 /\ outcome = NotScored /\ world \in Worlds
      /\ \A a \in Aircraft : DOMAIN path[a] = {}
  BY DEF Init
<1>2. PathsWhole
  <2>1. \A a \in Aircraft : FirstStep(world[a]) \in Nat /\ FirstStep(world[a]) > 0
    BY <1>1, ReplayAssumption DEF FirstStep, AircraftSpec
  <2> QED
    BY <1>1, <2>1 DEF PathsWhole
<1>3. PathsBegun /\ LedAwaited /\ StrayedAdvised
  BY <1>1 DEF PathsBegun, LedAwaited, StrayedAdvised
<1>4. ActiveAdvised
  <2> SUFFICES ASSUME NEW a \in Aircraft PROVE active[Deviation(a)] = Manager!NotActive
    BY DEF ActiveAdvised
  <2>1. Deviation(a) \in Condition
    BY DEF Condition, Deviation
  <2> QED
    BY <2>1 DEF Init
<1>5. NoticedKept
  BY <1>1 DEF NoticedKept
<1> QED
  BY <1>2, <1>3, <1>4, <1>5 DEF StrayInv

\* Every step keeps it.
LEMMA StrayNext ==
    ASSUME QueueSuffices
    PROVE  ReplayInv /\ StrayInv /\ [Next]_vars => StrayInv'
<1> SUFFICES ASSUME ReplayInv, StrayInv, [Next]_vars PROVE StrayInv'
  OBVIOUS
<1>1. /\ Typed /\ elapsed \in Nat /\ Duration \in Nat /\ PathsWhole /\ PathsBegun
      /\ LedAwaited /\ ActiveAdvised /\ StrayedAdvised /\ NoticedKept
  BY ReplayAssumption DEF ReplayInv, Typed, LoopTypeOK, StrayInv
<1>2. ASSUME NEW reporting \in SUBSET Aircraft, Step(Moved, reporting) PROVE StrayInv'
  <2>1. /\ elapsed' = elapsed + 1 /\ outcome' = outcome /\ elapsed < Duration /\ world' = world
    BY <1>2 DEF Step
  <2>2. PathsWhole'
    BY <1>1, <1>2, WholeStep
  <2>3. PathsBegun'
    <3> SUFFICES ASSUME NEW a \in Aircraft, NEW t \in DOMAIN path'[a]
                 PROVE  FirstStep(world[a]) <= t
      BY <2>1 DEF PathsBegun
    <3> QED
      BY <1>1, <1>2, PathGrows
  <2>4. LedAwaited'
    BY <1>1, <1>2, LedAwaitedStep
  <2>5. ActiveAdvised'
    <3> SUFFICES ASSUME NEW a \in Aircraft, active'[Deviation(a)] # Manager!NotActive
                 PROVE  \E t \in advisories'[a] : t <= elapsed + 1
      BY <2>1 DEF ActiveAdvised, Deviation, Alone
    <3> QED
      BY <1>1, <1>2, DetectedIsActive
  <2>6. StrayedAdvised'
    BY <1>2, StrayedAdvisedStep
  <2>7. NoticedKept'
    <3>1. outcome = NotScored
      BY <1>1, <2>1 DEF NoticedKept
    <3> QED
      BY <2>1, <3>1 DEF NoticedKept
  <2> QED
    BY <2>2, <2>3, <2>4, <2>5, <2>6, <2>7 DEF StrayInv
<1>3. ASSUME UNCHANGED <<world, elapsed, path, pending, active, dropped, advisories>>
      PROVE  PathsWhole' /\ PathsBegun' /\ LedAwaited' /\ ActiveAdvised' /\ StrayedAdvised'
  <2>1. PathsWhole' /\ PathsBegun'
    BY <1>1, <1>3 DEF PathsWhole, PathsBegun
  <2>2. LedAwaited' /\ StrayedAdvised'
    BY <1>1, <1>3 DEF LedAwaited, StrayedAdvised, Led, Due, DriftSquared
  <2>3. ActiveAdvised'
    BY <1>1, <1>3 DEF ActiveAdvised, Deviation, Alone
  <2> QED
    BY <2>1, <2>2, <2>3
<1>4. CASE Score
  <2>1. UNCHANGED <<world, elapsed, path, pending, active, dropped, advisories>>
    BY <1>4 DEF Score
  <2>2. NoticedKept'
    <3>1. elapsed' = elapsed /\ elapsed >= Duration
      BY <1>4 DEF Score
    <3>2. outcome'.noticed = [a \in Aircraft |-> DetectedManoeuvres(Manoeuvres(a), advisories[a])]
      BY <1>4 DEF Score
    <3>3. \A a \in Aircraft : Manoeuvres(a)' = Manoeuvres(a)
      BY <2>1 DEF Manoeuvres
    <3> QED
      BY <2>1, <3>1, <3>2, <3>3 DEF NoticedKept
  <2> QED
    BY <1>3, <2>1, <2>2 DEF StrayInv
<1>5. CASE UNCHANGED vars
  <2>1. UNCHANGED <<world, elapsed, path, pending, active, dropped, advisories, outcome>>
    BY <1>5 DEF vars
  <2>2. NoticedKept'
    BY <1>1, <2>1 DEF NoticedKept, Manoeuvres
  <2> QED
    BY <1>3, <2>1, <2>2 DEF StrayInv
<1> QED
  BY <1>2, <1>4, <1>5 DEF Next

\* An advisory from before the horizon of a lone manoeuvre is over has it for a cause, or
\* none, and is credited to it.
LEMMA LoneIsCredited ==
    ASSUME Typed, AdvisoriesCaused, NEW a \in Aircraft, NEW at \in Manoeuvres(a), Lone(a, at),
           NEW t \in advisories[a], t <= at + Horizon
    PROVE  at \in DetectedManoeuvres(Manoeuvres(a), advisories[a])
<1>1. at \in Nat /\ t \in Nat /\ Horizon \in Nat /\ Manoeuvres(a) \subseteq Nat
  <2>1. world[a] \in AircraftSpec
    BY ReplayAssumption DEF Typed, LoopTypeOK
  <2>2. world[a].plan \in Seq(Command)
    BY <2>1 DEF AircraftSpec
  <2>3. \A i \in DOMAIN world[a].plan : world[a].plan[i] \in Command
    BY <2>2
  <2>4. \A c \in Command : c.at \in Nat
    BY DEF Command
  <2>5. Manoeuvres(a) \subseteq Nat
    BY <2>3, <2>4 DEF Manoeuvres
  <2> QED
    BY <2>5, MonitorAssumption DEF Typed, LoopTypeOK
<1>2. Causes(Manoeuvres(a), t) = {at}
  <2>1. Causes(Manoeuvres(a), t) # {}
    BY DEF AdvisoriesCaused
  <2>2. \A m \in Causes(Manoeuvres(a), t) : m \in Manoeuvres(a) /\ m <= t
    BY DEF Causes
  <2>3. \A m \in Causes(Manoeuvres(a), t) : m = at
    <3> SUFFICES ASSUME NEW m \in Manoeuvres(a), m <= t, m # at PROVE FALSE
      BY <2>2
    <3>1. m > at + Horizon /\ m \in Nat
      BY <1>1 DEF Lone
    <3> QED
      BY <1>1, <3>1
  <2> QED
    BY <2>1, <2>3
<1>3. Max({at}) = at
  <2>1. \E x \in {at} : \A y \in {at} : x >= y
    BY <1>1
  <2> QED
    BY <2>1 DEF Max
<1>4. t \in Credited(Manoeuvres(a), advisories[a], at)
  BY <1>2, <1>3 DEF Credited
<1> QED
  BY <1>4 DEF DetectedManoeuvres

\* A manoeuvre that takes an aircraft farther than the threshold off the straight course it
\* was on before, with no other command within a horizon, is among those the monitor is
\* credited with.
THEOREM StrayingIsNoticedCorrect ==
    ASSUME QueueSuffices, Orthonormal, ManoeuvresSettle
    PROVE  Spec => []StrayingIsNoticed
<1>1. Spec => []ReplayInv
  BY ReplayInvCorrect
<1>2. Spec => [](Typed /\ CauseInv)
  BY CauseCorrect
<1>3. Init => StrayInv
  BY StrayInit
<1>4. ReplayInv /\ StrayInv /\ [Next]_vars => StrayInv'
  BY StrayNext
<1>5. ReplayInv /\ CauseInv /\ StrayInv => StrayingIsNoticed
  <2> SUFFICES ASSUME ReplayInv, CauseInv, StrayInv, outcome # NotScored, dropped = 0,
                      NEW a \in Aircraft, NEW at \in Manoeuvres(a), Lone(a, at),
                      at + Horizon <= Duration,
                      NEW from \in 1..(at - 1), Strayed(a, from)
               PROVE  at \in outcome.noticed[a]
    BY DEF StrayingIsNoticed
  <2>1. /\ Typed /\ AdvisoriesCaused /\ elapsed >= Duration /\ StrayedAdvised
        /\ outcome.noticed = [b \in Aircraft |-> DetectedManoeuvres(Manoeuvres(b), advisories[b])]
    BY DEF ReplayInv, CauseInv, StrayInv, NoticedKept
  <2>2. at \in Nat
    <3>1. world[a].plan \in Seq(Command)
      BY <2>1, ReplayAssumption DEF Typed, LoopTypeOK, AircraftSpec
    <3>2. \A i \in DOMAIN world[a].plan : world[a].plan[i] \in Command
      BY <3>1
    <3>3. \A c \in Command : c.at \in Nat
      BY DEF Command
    <3> QED
      BY <3>2, <3>3 DEF Manoeuvres
  <2>3. /\ from \in Nat /\ from < at /\ elapsed \in Nat /\ Duration \in Nat
        /\ Horizon \in Nat /\ Tolerance \in Nat
    BY <2>1, <2>2, MonitorAssumption, ReplayAssumption DEF Typed, LoopTypeOK
  <2>4. /\ Due(from) \in Nat /\ Due(from) <= from + Horizon
    BY <2>3, DueFits
  <2>5. DriftSquared(a, from, Due(from)) > Threshold * Threshold
    <3>1. Due(from) \in (from + Horizon - Tolerance)..(from + Horizon)
      BY <2>3, <2>4 DEF Due
    <3> QED
      BY <3>1 DEF Strayed
  <2>6. Due(from) <= elapsed /\ from \in DOMAIN path[a]
    BY <2>1, <2>2, <2>3, <2>4 DEF Strayed
  <2>7. PICK t \in advisories[a] : t <= Due(from)
    BY <2>1, <2>5, <2>6 DEF StrayedAdvised
  <2>8. t <= at + Horizon
    <3>1. t \in Nat
      BY <2>1, <2>7 DEF Typed, LoopTypeOK
    <3> QED
      BY <2>2, <2>3, <2>4, <2>7, <3>1
  <2> QED
    BY <2>1, <2>7, <2>8, LoneIsCredited
<1> QED
  BY <1>1, <1>2, <1>3, <1>4, <1>5, PTL DEF Spec

=============================================================================
