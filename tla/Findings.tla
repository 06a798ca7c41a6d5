------------------------------ MODULE Findings ------------------------------
(***************************************************************************)
(* The vocabulary of every audit result (scanit/models.py): the status,    *)
(* severity and confidence enumerations, the Finding record reduced to the *)
(* fields that drive behaviour, and the two aggregates a ScanReport        *)
(* derives from its findings.  Titles, summaries, evidence texts and       *)
(* remediations are left out here; the modules of the checks keep the      *)
(* evidence as sets of paths where a property is about it.                 *)
(***************************************************************************)
EXTENDS Integers, Sequences, FiniteSets, Functions

Status == {"pass", "fail", "review", "unknown", "error", "not_applicable"}

Severity == {"critical", "high", "medium", "low", "info"}

Confidence == {"high", "medium", "low"}

(* A Finding whose identifier is id.                                       *)
Finding(id, area, status, severity, confidence) ==
    [check_id |-> id, area |-> area, status |-> status,
     severity |-> severity, confidence |-> confidence]

FindingOf(Ids, Areas) ==
    [check_id : Ids, area : Areas, status : Status,
     severity : Severity, confidence : Confidence]

-----------------------------------------------------------------------------
(* The triage score.  weights and confidence are products such as 8 * 0.7, *)
(* so the total is kept exactly, in tenths.                                *)
Weight == [critical |-> 40, high |-> 20, medium |-> 8, low |-> 3, info |-> 0]

(* Mutant: a factor so small that a failure no longer scores.              *)
FadedConfidenceTenths == [high |-> 10, medium |-> 7, low |-> 1]

ConfidenceTenths == [high |-> 10, medium |-> 7, low |-> 4]

(* Contribution of one finding: only failures count.                       *)
RiskTenths(f) ==
    IF f.status = "fail"
    THEN Weight[f.severity] * ConfidenceTenths[f.confidence]
    ELSE 0

TotalTenths(findings) ==
    SumFunction([i \in DOMAIN findings |-> RiskTenths(findings[i])])

(* min(100, round(total)).  The code sums binary floating-point products,  *)
(* so a total that is exactly half way may be rounded to either side; every *)
(* other total has one nearest integer.                                    *)
RiskScores(findings) ==
    LET tenths  == TotalTenths(findings)
        floor   == tenths \div 10
        nearest == CASE tenths % 10 < 5 -> {floor}
                     [] tenths % 10 = 5 -> {floor, floor + 1}
                     [] OTHER           -> {floor + 1}
    IN  {IF r > 100 THEN 100 ELSE r : r \in nearest}

(* How many findings carry each status.                                    *)
Coverage(findings) ==
    [s \in Status |-> Cardinality({i \in DOMAIN findings : findings[i].status = s})]

=============================================================================
