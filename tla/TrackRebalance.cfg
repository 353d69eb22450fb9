CONSTANTS
    a1 = a1  a2 = a2  p1 = p1  p2 = p2  r1 = r1  r2 = r2
    NoReplica = NoReplica  NoAircraft = NoAircraft
    Replica = {r1, r2}
    Aircraft = {a1}
    Partition = {p1, p2}
    PartitionFor <- Alone
    CoastAfter = 1  TerminateAfter = 2  ConfirmationUpdates = 2  PruneAfter = 2
    BatchSize = 2
    MaxTime = 2  MaxReports = 2  MaxRebalances = 1
    MaxCrashes = 0  MaxFaults = 0  MaxStops = 0
SPECIFICATION Spec
SYMMETRY ReplicaSymmetry
INVARIANTS TypeOK OwnershipInv ReleasedNotShown LiveIsCurrent OwnerListens
