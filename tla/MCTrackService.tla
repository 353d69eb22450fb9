--------------------------- MODULE MCTrackService ---------------------------
(* TLC instances of TrackService: replicas and aircraft are model values,   *)
(* one partition for two aircraft, or partitions for one.                   *)
EXTENDS TrackService, TLC

CONSTANTS a1, a2, p1, p2

OnePartition == a1 :> p1 @@ a2 :> p1
Alone        == a1 :> p1

\* Replicas are interchangeable.
ReplicaSymmetry == Permutations(Replica)

=============================================================================
