------------------------------ MODULE Dataset -------------------------------
(***************************************************************************)
(* The training examples of the trajectory models: the baseline            *)
(* (ml/baselines.py), its error in the aircraft's own axes, which is what a *)
(* model learns, and the windows of updates it is learnt from              *)
(* (ml/dataset.py, ml/features.py).                                        *)
(*                                                                         *)
(* The features stay a window of updates.  An update is one of the         *)
(* tracker's, with at and heading; a path is the truth of one aircraft,    *)
(* from instants to states, and has no state where it did not fly.         *)
(***************************************************************************)
EXTENDS Simulation

CONSTANTS
    WindowLength,      \* updates in a window
    ConfirmAfter       \* reports that make a track confirmed

ASSUME DatasetAssumption ==
    /\ WindowLength \in Nat \ {0} /\ ConfirmAfter \in Nat
    /\ Circle % 4 = 0

\* Constant velocity, down to the ground.
DeadReckoned(update, horizon) ==
    [east |-> update.east + horizon * update.v_east,
     north |-> update.north + horizon * update.v_north,
     altitude |-> IF update.altitude + horizon * update.v_altitude < 0 THEN 0
                  ELSE update.altitude + horizon * update.v_altitude]

Along(heading) == Unit[heading]
Right(heading) == Unit[(heading + Circle \div 4) % Circle]
Left(heading) == Unit[(heading + 3 * (Circle \div 4)) % Circle]

Component(east, north, axis) == east * axis.east + north * axis.north

AlongCrossMirrored(reference, actual, heading) ==
    LET east == actual.east - reference.east
        north == actual.north - reference.north
    IN  [along |-> Component(east, north, Along(heading)),
         cross |-> Component(east, north, Left(heading))]

\* The way from the reference to the actual position, in the axes of a heading.
AlongCross(reference, actual, heading) ==
    LET east == actual.east - reference.east
        north == actual.north - reference.north
    IN  [along |-> Component(east, north, Along(heading)),
         cross |-> Component(east, north, Right(heading))]

\* What a prediction makes of a residual.
Corrected(reference, residual, heading) ==
    [east |-> reference.east + residual.along * Along(heading).east
                             + residual.cross * Right(heading).east,
     north |-> reference.north + residual.along * Along(heading).north
                               + residual.cross * Right(heading).north,
     altitude |-> IF reference.altitude + residual.altitude < 0 THEN 0
                  ELSE reference.altitude + residual.altitude]

-----------------------------------------------------------------------------
(* The samples of one aircraft, from the updates of its confirmed track. *)

Confirmed(update) == update.update_count >= ConfirmAfter

\* A window of updates, however much time it spans.
Target(update, answer, horizon) ==
    LET baseline == DeadReckoned(update, horizon)
        error == AlongCross(baseline, answer, update.heading)
    IN  [along |-> error.along, cross |-> error.cross,
         altitude |-> answer.altitude - baseline.altitude]

\* An answer is looked up by the update's own time; where there is none, the
\* aircraft had left or the run was over.
Answerable(updates, path, horizon) ==
    {i \in WindowLength..Len(updates) :
        {updates[i].at, updates[i].at + horizon} \subseteq DOMAIN path}

SamplesFrom(updates, path, horizon) ==
    {[window |-> SubSeq(updates, i - WindowLength + 1, i),
      target |-> Target(updates[i], path[updates[i].at + horizon], horizon)] :
        i \in Answerable(updates, path, horizon)}

=============================================================================
