------------------------------- MODULE Runner -------------------------------
(***************************************************************************)
(* The fault-isolated audit runner (scanit/runner.py).                     *)
(*                                                                         *)
(* run_checks calls the selected checks one after the other.  A check      *)
(* either returns its list of findings or raises; an exception becomes one *)
(* "error" finding carrying the check's own identifier and area, and the   *)
(* loop goes on.  Only an exception that is not an Exception (the user's   *)
(* Ctrl-C) leaves the loop, and then the whole report is lost.             *)
(***************************************************************************)
EXTENDS Findings

CONSTANTS
    Check,       \* the checks that exist (a check is named by its check_id)
    AreaOf,      \* the area attribute of each check
    FindingId,   \* identifiers a finding may carry; includes Check
    Returns,     \* the finding lists that run() of each check may return
    Selections   \* the lists of checks the command line may hand over

AreaName == {AreaOf[c] : c \in Check}

(* Every run() in scanit/checks returns a list with at least one finding.  *)
ASSUME RunnerAssumption ==
    /\ Check \subseteq FindingId
    /\ AreaOf \in [Check -> AreaName]
    /\ Returns \in [Check -> SUBSET (Seq(FindingOf(FindingId, AreaName)) \ {<<>>})]
    /\ Selections \subseteq Seq(Check)

VARIABLES
    phase,       \* idle, running, done or interrupted
    selected,    \* the checks handed to run_checks, in registry order
    position,    \* index of the check whose run() is being called
    findings,    \* report.findings
    author,      \* history: author[i] is the position that produced findings[i]
    raised       \* history: the positions whose check raised

runnerVars == <<phase, selected, position, findings, author, raised>>

Phase == {"idle", "running", "done", "interrupted"}

-----------------------------------------------------------------------------
RunnerInit ==
    /\ phase = "idle"
    /\ selected = <<>>
    /\ position = 1
    /\ findings = <<>>
    /\ author = <<>>
    /\ raised = {}

(* run_checks is entered with an empty report.                             *)
Start(checks) ==
    /\ phase = "idle"
    /\ phase' = "running"
    /\ selected' = checks
    /\ UNCHANGED <<position, findings, author, raised>>

Running == phase = "running" /\ position <= Len(selected)

(* The finding the runner puts in the place of a check that raised.        *)
ErrorFinding(c) == Finding(c, AreaOf[c], "error", "info", "high")

(* Extend the report with what one check contributed and take the next.    *)
Contribute(list) ==
    /\ findings' = findings \o list
    /\ author' = author \o [i \in 1..Len(list) |-> position]
    /\ position' = position + 1

CheckReturns ==
    /\ Running
    /\ \E list \in Returns[selected[position]] : Contribute(list)
    /\ UNCHANGED <<phase, selected, raised>>

(* Mutant: the exception lets through what the check had found before.     *)
KeepPartialFindings ==
    /\ Running
    /\ \E list \in Returns[selected[position]] :
          Contribute(list \o <<ErrorFinding(selected[position])>>)
    /\ raised' = raised \cup {position}
    /\ UNCHANGED <<phase, selected>>

CheckRaises ==
    /\ Running
    /\ Contribute(<<ErrorFinding(selected[position])>>)
    /\ raised' = raised \cup {position}
    /\ UNCHANGED <<phase, selected>>

(* KeyboardInterrupt is not an Exception: it leaves run_checks.            *)
Interrupt ==
    /\ phase = "running"
    /\ phase' = "interrupted"
    /\ UNCHANGED <<selected, position, findings, author, raised>>

(* Mutant: the loop waits for one check more than there is.                *)
FinishOffByOne ==
    /\ phase = "running"
    /\ position > Len(selected) + 1
    /\ phase' = "done"
    /\ UNCHANGED <<selected, position, findings, author, raised>>

Finish ==
    /\ phase = "running"
    /\ position > Len(selected)
    /\ phase' = "done"
    /\ UNCHANGED <<selected, position, findings, author, raised>>

RunnerStep == CheckReturns \/ CheckRaises \/ Finish

RunnerNext ==
    \/ \E checks \in Selections : Start(checks)
    \/ RunnerStep
    \/ Interrupt

RunnerSpec == RunnerInit /\ [][RunnerNext]_runnerVars

-----------------------------------------------------------------------------
TypeOK ==
    /\ phase \in Phase
    /\ selected \in Seq(Check)
    /\ position \in 1..(Len(selected) + 1)
    /\ findings \in Seq(FindingOf(FindingId, AreaName))
    /\ author \in Seq(1..Len(selected))
    /\ raised \subseteq 1..Len(selected)

(* Fault isolation (runner.py:17, "A broken check must not abort the       *)
(* remaining audit"): whatever raised before, every check the loop has     *)
(* passed is represented in the report, and a report that is finished      *)
(* represents every selected check.                                        *)
EveryCheckReported ==
    /\ \A k \in 1..(position - 1) : \E i \in DOMAIN author : author[i] = k
    /\ phase = "done" => position = Len(selected) + 1

(* The findings of a check stay together and in the order of the registry: *)
(* the report, which readers scan in order, never interleaves two checks.  *)
RegistryOrder ==
    \A i, j \in DOMAIN author : i <= j => author[i] <= author[j]

(* The report and the record of who produced what have the same length, so *)
(* no finding comes from a check that was not run.                         *)
Attributed == Len(author) = Len(findings)

(* A check that raised contributes exactly one finding, an error under the *)
(* check's own identifier: nothing of what it had collected gets through,  *)
(* in particular no pass.                                                  *)
RaisedIsOnlyError ==
    \A i \in DOMAIN author : author[i] \in raised =>
        /\ findings[i] = ErrorFinding(selected[author[i]])
        /\ \A j \in DOMAIN author : author[j] = author[i] => j = i

(* A broken check costs its own findings and nothing else: of the others   *)
(* none is lost, doubled, moved or altered (runner.py:14-27).              *)
FaultIsolated == EveryCheckReported /\ RegistryOrder /\ RaisedIsOnlyError

RunnerInv ==
    /\ TypeOK
    /\ EveryCheckReported
    /\ RegistryOrder
    /\ Attributed
    /\ RaisedIsOnlyError

(* What a check has reported is never altered by a later one.              *)
AppendOnly ==
    [][/\ Len(findings) <= Len(findings')
       /\ \A i \in DOMAIN findings : findings'[i] = findings[i]]_runnerVars

=============================================================================
