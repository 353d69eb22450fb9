CONSTANTS
    t1 = t1  t2 = t2  conflict = conflict  deviation = deviation
    Track = {t1, t2}
    Condition = {conflict, deviation}
    About <- Pair
    Measured = {deviation}
    ClearAfter = 2  SustainInterval = 2  StaleAfter = 1  TTL = 4
    MaxLead = 0  MaxSkew = 0
    MaxCrashes = 1  MaxFaults = 0
SPECIFICATION Spec
INVARIANTS TypeOK AlertsAreAnswerable DisplayIsManagers
PROPERTIES ProtocolKept
