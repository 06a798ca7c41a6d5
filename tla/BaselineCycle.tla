--------------------------- MODULE BaselineCycle ---------------------------
(***************************************************************************)
(* Scan after scan with a saved baseline (README.md:58-59):                *)
(*                                                                         *)
(*     scanit --json > baseline.json                                       *)
(*     scanit --baseline baseline.json                                     *)
(*                                                                         *)
(* Each invocation of scanit (module Cli) is one step here: what it prints *)
(* and the baseline delta.  Between two invocations the machine may change *)
(* in any way, so every scan takes any of the results its checks can have. *)
(* The reader is modelled too: ledger is the set of failures that somebody *)
(* who follows the deltas believes to be open.                             *)
(***************************************************************************)
EXTENDS Comparison

CONSTANTS
    Outcomes,     \* for each check, the status maps its findings may have
    Selections,   \* the sets of checks an invocation may be narrowed to
    Filters,      \* the --status sets; {} when the option is not given
    NoReport      \* no scan has been completed yet

(* A report is kept as the map from its identifiers to their statuses,     *)
(* which is all that comparison.py reads of it.  This loses nothing: the   *)
(* identifiers of two checks differ, and a check uses each of its own once. *)
ASSUME DistinctIdentifiers ==
    \A c, d \in DOMAIN Outcomes : c # d =>
        \A f \in Outcomes[c], g \in Outcomes[d] : DOMAIN f \cap DOMAIN g = {}

ASSUME OutcomesAreStatuses ==
    /\ \A c \in DOMAIN Outcomes : \A f \in Outcomes[c] : f \in [DOMAIN f -> Status]
    /\ \A selection \in Selections : selection \subseteq DOMAIN Outcomes

VARIABLES
    file,         \* the document in baseline.json
    report,       \* the full report of the last completed scan
    compared,     \* the document that scan was compared with, if it was
    delta,        \* the delta it reported, if it was compared
    ledger,       \* failures the reader believes open
    untracked     \* history: ledger entries that a saved file left out

cycleVars == <<file, report, compared, delta, ledger, untracked>>

Failing(statuses) == WithStatus(statuses, {"fail"})

-----------------------------------------------------------------------------
(* A full report: one outcome of every selected check.                     *)
Reports(selection) ==
    LET Merge(choice) ==
            LET Owner(id) == CHOOSE c \in selection : id \in DOMAIN choice[c]
            IN  [id \in UNION {DOMAIN choice[c] : c \in selection} |->
                    choice[Owner(id)][id]]
    IN  {Merge(choice) : choice \in
            {f \in [selection -> UNION {Outcomes[c] : c \in selection}] :
                \A c \in selection : f[c] \in Outcomes[c]}}

(* Mutant: what the filter rejects is blanked instead of left out.         *)
ShownBlanked(full, filter) ==
    IF filter = {} THEN full
    ELSE [id \in DOMAIN full |-> IF full[id] \in filter THEN full[id] ELSE "hidden"]

(* What --json prints under a status filter.                               *)
Shown(full, filter) ==
    IF filter = {} THEN full
    ELSE [id \in WithStatus(full, filter) |-> full[id]]

(* The reader applies a delta to what they believed.                       *)
Follow(open, d) == (open \ d.resolved_failures) \cup d.new_failures

NoDelta ==
    [new_failures |-> {}, resolved_failures |-> {}, new_reviews |-> {},
     coverage_regressions |-> {}]

-----------------------------------------------------------------------------
CycleInit ==
    /\ file = NotAReport
    /\ report = NoReport
    /\ compared = NotAReport
    /\ delta = NoDelta
    /\ ledger = {}
    /\ untracked = {}

(* --json > baseline.json: the displayed findings replace the file, and    *)
(* the reader starts over from the failures they were shown.               *)
Establish(full, filter) ==
    /\ report' = full
    /\ file' = Shown(full, filter)
    /\ ledger' = Failing(file')
    /\ untracked' = {}
    /\ compared' = NotAReport
    /\ delta' = NoDelta

(* --baseline baseline.json: the delta is computed from the full report,   *)
(* whatever --status lets through.  Nothing is saved.                      *)
Peek(full) ==
    /\ file # NotAReport
    /\ report' = full
    /\ compared' = file
    /\ delta' = Delta(full, file)
    /\ UNCHANGED <<file, ledger, untracked>>

(* --json --baseline baseline.json > next.json; mv next.json baseline.json *)
Roll(full, filter) ==
    /\ file # NotAReport
    /\ report' = full
    /\ compared' = file
    /\ delta' = Delta(full, file)
    /\ file' = Shown(full, filter)
    /\ ledger' = Follow(ledger, delta')
    /\ untracked' = (untracked \cup (ledger' \ DOMAIN file')) \cap ledger'

(* The shell truncates the target of > before scanit starts.  A scan that  *)
(* is interrupted then leaves an empty file, and so does one that names    *)
(* the same file as its baseline: it finds it empty after the scan and     *)
(* ends with a usage error, without a report.                              *)
LoseFile ==
    /\ file # NotAReport
    /\ file' = NotAReport
    /\ UNCHANGED <<report, compared, delta, ledger, untracked>>

CycleNext ==
    \/ \E selection \in Selections : \E full \in Reports(selection) :
          \/ \E filter \in Filters : Establish(full, filter) \/ Roll(full, filter)
          \/ Peek(full)
    \/ LoseFile

CycleSpec == CycleInit /\ [][CycleNext]_cycleVars

-----------------------------------------------------------------------------
CycleTypeOK ==
    LET FindingIds == UNION {DOMAIN f : f \in UNION {Outcomes[c] : c \in DOMAIN Outcomes}}
    IN  /\ file = NotAReport \/ file \in [DOMAIN file -> Status]
        /\ ledger \subseteq FindingIds
        /\ untracked \subseteq ledger
        /\ \A field \in DOMAIN delta : delta[field] \subseteq FindingIds

Compared == compared # NotAReport

(* What the reader believes after the last delta; Roll has applied it.     *)
Belief == Follow(ledger, delta)

(* No failure is ever missed by somebody who only reads deltas: after any  *)
(* sequence of scans, saved with any --status filter or narrowed to any    *)
(* selection, what fails in the report just compared is believed open      *)
(* (comparison.py:36-39: a failure the baseline does not know is new).     *)
FailuresNeverMissed == Compared => Failing(report) \subseteq Belief

(* Conversely the reader is not left with failures that are gone: an open  *)
(* entry that the last compared report shows as not failing is one that a  *)
(* filtered or narrowed baseline, or a check that changed its identifiers, *)
(* had dropped from the file.                                              *)
LedgerExact ==
    Compared => \A id \in Belief \cap DOMAIN report :
                    id \notin Failing(report) => id \in untracked

(* An unchanged machine is quiet: a scan compared with the complete report *)
(* of an identical one announces nothing.                                  *)
QuietWhenUnchanged == Compared /\ compared = report => delta = NoDelta

(* A failure never leaves the list silently: if it is announced as         *)
(* resolved although the scan had no evidence about it, the same delta     *)
(* lists it as a loss of coverage (comparison.py:40-45 and 52-55).         *)
DroppedIsAccountedFor ==
    Compared => \A id \in delta.resolved_failures :
        report[id] \in Incomplete => id \in delta.coverage_regressions

-----------------------------------------------------------------------------
(* ROADMAP.md:28, "Preserve `unknown`, `error`, and `not_applicable`       *)
(* instead of guessing": a failure that is announced as resolved has been  *)
(* seen not to fail.                                                       *)
ResolvedIsEstablished ==
    \A id \in delta.resolved_failures : report[id] \notin Incomplete

ChecksOf(statuses) ==
    {c \in DOMAIN Outcomes : \E f \in Outcomes[c] : DOMAIN f \cap DOMAIN statuses # {}}

(* README.md:87, "Finding IDs are semantic and stable across runs": a scan *)
(* compared with a complete report of the same selection speaks about the  *)
(* same identifiers.                                                       *)
IdentifiersStable ==
    Compared /\ (\A f \in Filters : f = {}) /\ ChecksOf(report) = ChecksOf(compared)
        => DOMAIN report = DOMAIN compared

=============================================================================
