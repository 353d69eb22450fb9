------------------------- MODULE ConformanceMonitor -------------------------
(***************************************************************************)
(* ConformanceMonitor (services/conformance/monitor.py) as operators on    *)
(* the queue of one track's predictions.  The predictor is the one used    *)
(* when no model is loaded: straight flight from the latest update.        *)
(***************************************************************************)
EXTENDS Integers, Sequences, SequencesExt

CONSTANTS
    Horizon,          \* how far ahead predictions are made
    Tolerance,        \* how far from its instant a prediction may be checked
    MaxPending,       \* the length of the queue
    Threshold         \* the error that is reported when exceeded

ASSUME MonitorAssumption ==
    /\ Horizon \in Nat \ {0}
    /\ Tolerance \in Nat
    /\ MaxPending \in Nat \ {0}
    /\ Threshold \in Nat

Prediction == [valid_at : Nat, east : Int, north : Int]

\* Where an aircraft that keeps its track and speed is after the horizon.
Predict(update) ==
    [valid_at |-> update.at + Horizon,
     east |-> update.east + Horizon * update.v_east,
     north |-> update.north + Horizon * update.v_north]

\* The queue is popped up to the first prediction that is not due.
DueSooner(queue, now) ==
    LET later == SelectInSeq(queue, LAMBDA p : now < p.valid_at - 2 * Tolerance)
    IN  IF later = 0 THEN Len(queue) ELSE later - 1
DueCount(queue, now) ==
    LET later == SelectInSeq(queue, LAMBDA p : now < p.valid_at - Tolerance)
    IN  IF later = 0 THEN Len(queue) ELSE later - 1

Popped(queue, now) == SubSeq(queue, 1, DueCount(queue, now))
Waiting(queue, now) == SubSeq(queue, DueCount(queue, now) + 1, Len(queue))

\* Of these, the ones that did not miss their window are compared.
Checked(queue, now) == {p \in ToSet(Popped(queue, now)) : now <= p.valid_at + Tolerance}

ErrorSquared(prediction, update) ==
    (prediction.east - update.east) * (prediction.east - update.east)
        + (prediction.north - update.north) * (prediction.north - update.north)

\* A finding is the worst comparison beyond the threshold.
IsFinding(queue, update) ==
    \E p \in Checked(queue, update.at) : ErrorSquared(p, update) > Threshold * Threshold

\* A bounded deque drops from its other end.
Bounded(queue) ==
    IF Len(queue) > MaxPending THEN SubSeq(queue, Len(queue) - MaxPending + 1, Len(queue))
    ELSE queue

ObservedInReverse(queue, update) == Bounded(<<Predict(update)>> \o Waiting(queue, update.at))
Observed(queue, update) == Bounded(Append(Waiting(queue, update.at), Predict(update)))

=============================================================================
