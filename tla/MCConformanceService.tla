------------------------ MODULE MCConformanceService ------------------------
(* TLC instances of ConformanceService: two tracks that may conflict, one of *)
(* them also monitored for conformance, and each instance on its own.       *)
EXTENDS ConformanceService, TLC

CONSTANTS t1, t2, conflict, deviation

Pair == conflict :> {t1, t2} @@ deviation :> {t1}
ConflictOnly == conflict :> {t1, t2}
DeviationOnly == deviation :> {t1}

=============================================================================
