------------------------------- MODULE Rules --------------------------------
(***************************************************************************)
(* What one aircraft's track alone gives cause for                         *)
(* (services/conformance/rules.py), and how urgent a predicted conflict is *)
(* (_severity_for in services/conformance/runner.py).                      *)
(***************************************************************************)
EXTENDS Integers

CONSTANTS
    EmergencySquawks,
    ExcessiveDescent,      \* a rate of descent that is abnormal anywhere,
    LowAltitudeDescent,    \* and one that is abnormal
    LowAltitude,           \* below this altitude
    WarningTime,           \* a conflict no further away is a warning,
    CautionTime            \* and one no further away a caution

ASSUME RulesAssumption ==
    /\ ExcessiveDescent \in Nat /\ LowAltitudeDescent \in Nat /\ LowAltitude \in Nat
    /\ WarningTime \in Nat /\ CautionTime \in Nat /\ WarningTime < CautionTime

Severity == {"ADVISORY", "CAUTION", "WARNING"}

LowAndSteep(track) ==
    track.altitude < LowAltitude /\ track.v_altitude <= -LowAltitudeDescent
VerySteep(track) == track.v_altitude <= -ExcessiveDescent

SquawkFindings(track) ==
    IF track.squawk \in EmergencySquawks
    THEN {[kind |-> "emergency_squawk", severity |-> "WARNING"]} ELSE {}

DescentFindings(track) ==
    IF track.v_altitude < 0 /\ (LowAndSteep(track) \/ VerySteep(track))
    THEN {[kind |-> "excessive_descent",
           severity |-> IF LowAndSteep(track) THEN "WARNING" ELSE "CAUTION"]}
    ELSE {}

Findings(track) == SquawkFindings(track) \cup DescentFindings(track)

\* Time drives the severity of a conflict; within are those of the two limits
\* that closest approach is no further away than.
SeverityFor(within) ==
    IF WarningTime \in within THEN "WARNING"
    ELSE IF CautionTime \in within THEN "CAUTION" ELSE "ADVISORY"

=============================================================================
