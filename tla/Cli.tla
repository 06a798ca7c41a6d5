-------------------------------- MODULE Cli --------------------------------
(***************************************************************************)
(* One invocation of scanit (scanit/cli.py main, scanit/reporters.py),     *)
(* from the parsed arguments to the exit status.                           *)
(*                                                                         *)
(* The command line composes the registry, the runner, the baseline        *)
(* comparison and the renderers.  Its steps are sequential; what is not    *)
(* fixed beforehand is the outcome of every check, the baseline file at    *)
(* the moment it is read (after the scan), and the moment of a Ctrl-C.     *)
(***************************************************************************)
EXTENDS Runner, Comparison, Lists, SequencesExt

CONSTANTS
    Registry,        \* builtin_checks(), a sequence
    Invocations,     \* the argument records argparse accepts
    Unencodables,    \* possible values of unencodable
    BaselineDocs,    \* what the baseline file may contain when it is read
    Unset            \* no value yet: of delta, of exit, of a selection error

(* The checks of S, in the order of the registry.                          *)
Selection(S) == ItemsAt(Registry, {i \in DOMAIN Registry : Registry[i] \in S})

VARIABLES
    args,            \* the parsed arguments and whether the user is root
    unencodable,     \* identifiers whose evidence stdout cannot encode
    stage,           \* where main is
    stderr,          \* the messages written to standard error
    delta,           \* the baseline delta, once computed
    stdout,          \* what was printed
    exit             \* the exit status, once main has returned

cliVars == <<args, unencodable, stage, stderr, delta, stdout, exit>>
vars == <<runnerVars, cliVars>>

Stage == {"parse", "select", "scan", "compare", "render", "exited"}

Nothing == [format |-> "nothing"]

Threshold == {"critical", "high", "medium", "low", "none"}

(* A repeatable option that was not given is the empty set.                *)
Arguments ==
    [scope : {"all", "browser", "system"}, areas : SUBSET (AreaName \cup {"missing"}),
     ids : SUBSET (Check \cup {"missing"}), statuses : SUBSET Status,
     list : BOOLEAN, baseline : BOOLEAN, format : {"json", "sarif", "text"},
     fail_on : Threshold, root : BOOLEAN]

ASSUME CliAssumption ==
    /\ Registry \in Seq(Check)
    /\ \A S \in SUBSET Check : Selection(S) \in Selections
    /\ Invocations \subseteq Arguments
    /\ Unencodables \subseteq SUBSET FindingId
    /\ Unset \notin {0, 1, 2, 130}

ASSUME UnsetAssumption ==
    /\ Unset \notin {"unknown area", "unknown check", "no overlap"}
    /\ Unset \notin DeltaOver(FindingId)

ASSUME RegistryNotEmpty == Registry # <<>>

(* A finding that establishes nothing: every check gives it severity info, *)
(* as the runner does.                                                     *)
Inconclusive(f) == f.status \in {"unknown", "error"}

ASSUME InconclusiveIsInfo ==
    \A c \in Check : \A list \in Returns[c] : \A i \in DOMAIN list :
        Inconclusive(list[i]) => list[i].severity = "info"

-----------------------------------------------------------------------------
(* The filters.                                                            *)
Registered == ToSet(Registry)

UnknownAreas == args.areas \ {AreaOf[c] : c \in Registered}

UnknownIds == args.ids \ Registered

InScope(c) ==
    CASE args.scope = "browser" -> AreaOf[c] = "browser"
      [] args.scope = "system"  -> AreaOf[c] # "browser"
      [] args.scope = "all"     -> TRUE

Wanted(c) ==
    /\ InScope(c)
    /\ args.areas # {} => AreaOf[c] \in args.areas
    /\ args.ids # {} => c \in args.ids

Chosen == Selection({c \in Registered : Wanted(c)})

(* Mutant: only the areas are taken for a filter.                          *)
FilteredByArea == args.areas # {}

Filtered == args.areas # {} \/ args.ids # {} \/ args.scope # "all"

(* What parser().error would say of the selection, in the order of the     *)
(* tests; Unset when the selection stands.                                 *)
SelectionError ==
    CASE UnknownAreas # {}          -> "unknown area"
      [] UnknownIds # {}            -> "unknown check"
      [] Filtered /\ Chosen = <<>>  -> "no overlap"
      [] OTHER                      -> Unset

(* The root warning precedes every test of the area and check filters.     *)
WarnsRoot == args.scope = "all" /\ args.root /\ ~args.list

-----------------------------------------------------------------------------
(* The exit policy and the renderers.                                      *)
Rank == [low |-> 1, medium |-> 2, high |-> 3, critical |-> 4, info |-> 0]

report_fails_at(report, threshold) ==
    /\ threshold # "none"
    /\ \E i \in DOMAIN report :
          report[i].status = "fail" /\ Rank[report[i].severity] >= Rank[threshold]

Displayed ==
    IF args.statuses = {} THEN findings
    ELSE ItemsAt(findings, {i \in DOMAIN findings : findings[i].status \in args.statuses})

(* Mutant: reviews take the level of their severity.                       *)
SarifLevelBySeverity(f) ==
    CASE f.severity \in {"critical", "high"} -> "error"
      [] f.severity \in {"medium", "low"}    -> "warning"
      [] f.severity = "info"                 -> "note"

SarifLevel(f) ==
    IF f.status = "review" THEN "warning"
    ELSE CASE f.severity \in {"critical", "high"} -> "error"
           [] f.severity \in {"medium", "low"}    -> "warning"
           [] f.severity = "info"                 -> "note"

(* One rule per identifier, described by its first relevant finding.       *)
SarifRules(relevant) ==
    LET First == {i \in DOMAIN relevant :
                    \A j \in 1..(i - 1) : relevant[j].check_id # relevant[i].check_id}
        order == Ascending(First)
    IN  [k \in DOMAIN order |->
            [id |-> relevant[order[k]].check_id, severity |-> relevant[order[k]].severity]]

render_sarif(report) ==
    LET relevant == ItemsAt(report, {i \in DOMAIN report :
                                       report[i].status \notin {"pass", "not_applicable"}})
    IN  [format |-> "sarif", rules |-> SarifRules(relevant),
         results |-> [i \in DOMAIN relevant |->
            [ruleId |-> relevant[i].check_id, level |-> SarifLevel(relevant[i])]]]

(* JSON and text carry the same things: the findings, the aggregates a     *)
(* ScanReport computes from the findings it is given, and the delta.       *)
render_report(report) ==
    [format |-> args.format, findings |-> report, risk_scores |-> RiskScores(report),
     coverage |-> Coverage(report), delta |-> delta]

Rendered ==
    IF args.format = "sarif" THEN render_sarif(Displayed) ELSE render_report(Displayed)

(* JSON and SARIF escape what is not ASCII.  The text report prints the    *)
(* evidence as it is, and a file name that is not UTF-8 (a surrogate in    *)
(* Python) cannot be written to a strict standard output.                  *)
CanPrint ==
    args.format = "text" =>
        \A i \in DOMAIN Displayed : Displayed[i].check_id \notin unencodable

-----------------------------------------------------------------------------
CliInit ==
    /\ RunnerInit
    /\ args \in Invocations
    /\ unencodable \in Unencodables
    /\ stage = "parse"
    /\ stderr = {}
    /\ delta = Unset
    /\ stdout = Nothing
    /\ exit = Unset

Exit(code, messages) ==
    /\ stage' = "exited"
    /\ exit' = code
    /\ stderr' = stderr \cup messages

(* --baseline with --sarif, before anything else.                          *)
RejectBaselineSarif ==
    /\ stage = "parse"
    /\ args.baseline /\ args.format = "sarif"
    /\ Exit(2, {"baseline with sarif"})
    /\ UNCHANGED <<args, unencodable, delta, stdout, runnerVars>>

Scope ==
    /\ stage = "parse"
    /\ ~(args.baseline /\ args.format = "sarif")
    /\ stage' = "select"
    /\ stderr' = IF WarnsRoot THEN stderr \cup {"root warning"} ELSE stderr
    /\ UNCHANGED <<args, unencodable, delta, stdout, exit, runnerVars>>

RejectSelection ==
    /\ stage = "select"
    /\ SelectionError # Unset
    /\ Exit(2, {SelectionError})
    /\ UNCHANGED <<args, unencodable, delta, stdout, runnerVars>>

ListChecks ==
    /\ stage = "select"
    /\ SelectionError = Unset
    /\ args.list
    /\ stdout' = [format |-> "list", checks |-> Chosen]
    /\ Exit(0, {})
    /\ UNCHANGED <<args, unencodable, delta, runnerVars>>

StartScan ==
    /\ stage = "select"
    /\ SelectionError = Unset
    /\ ~args.list
    /\ stage' = "scan"
    /\ Start(Chosen)
    /\ UNCHANGED <<args, unencodable, stderr, delta, stdout, exit>>

ScanCheck ==
    /\ stage = "scan"
    /\ CheckReturns \/ CheckRaises
    /\ UNCHANGED cliVars

(* Mutant: every scan is compared with some baseline.                      *)
EndScanAndCompare ==
    /\ stage = "scan"
    /\ Finish
    /\ stage' = "compare"
    /\ UNCHANGED <<args, unencodable, stderr, delta, stdout, exit>>

EndScan ==
    /\ stage = "scan"
    /\ Finish
    /\ stage' = IF args.baseline THEN "compare" ELSE "render"
    /\ UNCHANGED <<args, unencodable, stderr, delta, stdout, exit>>

(* The baseline is read only now: whatever is wrong with it costs the scan. *)
RejectBaseline ==
    /\ stage = "compare"
    /\ \E document \in BaselineDocs : ~UsableBaseline(document)
    /\ Exit(2, {"unreadable"})
    /\ UNCHANGED <<args, unencodable, delta, stdout, runnerVars>>

CompareBaseline ==
    /\ stage = "compare"
    /\ \E document \in BaselineDocs :
          /\ UsableBaseline(document)
          /\ delta' = compare_with_baseline(findings, document)
    /\ stage' = "render"
    /\ UNCHANGED <<args, unencodable, stderr, stdout, exit, runnerVars>>

(* Mutant: the exit status is decided by what is displayed.                *)
RenderDisplayedPolicy ==
    /\ stage = "render"
    /\ CanPrint
    /\ stdout' = Rendered
    /\ Exit(IF report_fails_at(Displayed, args.fail_on) THEN 1 ELSE 0, {})
    /\ UNCHANGED <<args, unencodable, delta, runnerVars>>

Render ==
    /\ stage = "render"
    /\ CanPrint
    /\ stdout' = Rendered
    /\ Exit(IF report_fails_at(findings, args.fail_on) THEN 1 ELSE 0, {})
    /\ UNCHANGED <<args, unencodable, delta, runnerVars>>

(* The UnicodeEncodeError of print leaves main: the interpreter prints a   *)
(* traceback and exits with status 1.                                      *)
RenderCrashes ==
    /\ stage = "render"
    /\ ~CanPrint
    /\ Exit(1, {"traceback"})
    /\ UNCHANGED <<args, unencodable, delta, stdout, runnerVars>>

(* Ctrl-C: no KeyboardInterrupt is caught anywhere, so it leaves main from *)
(* wherever it is, and run_checks as well while the checks run.            *)
CliInterrupt ==
    /\ stage # "exited"
    /\ IF stage = "scan" THEN Interrupt ELSE UNCHANGED runnerVars
    /\ Exit(130, {"interrupt"})
    /\ UNCHANGED <<args, unencodable, delta, stdout>>

CliStep ==
    \/ RejectBaselineSarif \/ Scope \/ RejectSelection \/ ListChecks \/ StartScan
    \/ ScanCheck \/ EndScan
    \/ RejectBaseline \/ CompareBaseline \/ Render \/ RenderCrashes

CliNext == CliStep \/ CliInterrupt

CliSpec == CliInit /\ [][CliNext]_vars

(* A sequential program: it takes its next step whenever it has one.       *)
FairCliSpec == CliSpec /\ WF_vars(CliStep)

-----------------------------------------------------------------------------
(* args, unencodable and stdout keep the values they are given; the shape  *)
(* of the rest, and which stage may have which of them.                    *)
CliTypeOK ==
    /\ TypeOK
    /\ args \in Arguments
    /\ stage \in Stage
    /\ exit \in {Unset, 0, 1, 2, 130}
    /\ (exit # Unset) <=> (stage = "exited")
    /\ delta # Unset => args.baseline
    /\ stdout # Nothing => exit \in {0, 1}

(* The severities at or above a threshold, said without the ranks.         *)
AtLeast(threshold) ==
    CASE threshold = "critical" -> {"critical"}
      [] threshold = "high"     -> {"critical", "high"}
      [] threshold = "medium"   -> {"critical", "high", "medium"}
      [] threshold = "low"      -> {"critical", "high", "medium", "low"}
      [] threshold = "none"     -> {}

(* A finding of some selected check, shown or hidden by --status.          *)
FoundFailure ==
    \E i \in DOMAIN findings :
        findings[i].status = "fail" /\ findings[i].severity \in AtLeast(args.fail_on)

(* What whoever started scanit (a CI job) may conclude from the status     *)
(* alone, for every way out of main (cli.py:56-114, cli.py:30 "does not    *)
(* change the failure exit policy"):                                       *)
(*   0    the list of checks was asked for; or the audit ran to its end,   *)
(*        every selected check had its say, none found a failure at the    *)
(*        threshold, shown or hidden, and the report was printed;          *)
(*   1    the audit ran to its end, and found such a failure and says so   *)
(*        on standard output; or nothing was printed, which happens to the *)
(*        text report alone, with a traceback, over the evidence of a      *)
(*        finding of the audit that cannot be encoded;                     *)
(*   2    nothing was printed, and nothing scanned but for a baseline that *)
(*        turned out unusable when all the checks had run;                 *)
(*   130  nothing was printed, after an interrupt.                         *)
ExitStatusExplained ==
    /\ exit = 0 =>
          \/ args.list /\ stdout.format = "list" /\ phase = "idle"
          \/ /\ phase = "done" /\ stdout.format = args.format
             /\ \A k \in DOMAIN selected : \E i \in DOMAIN author : author[i] = k
             /\ ~FoundFailure
    /\ exit = 1 =>
          /\ phase = "done"
          /\ \/ stdout.format = args.format /\ FoundFailure
             \/ /\ stdout = Nothing /\ args.format = "text" /\ "traceback" \in stderr
                /\ \E i \in DOMAIN findings : findings[i].check_id \in unencodable
    /\ exit = 2 =>
          /\ stdout = Nothing
          /\ \/ phase = "idle"
             \/ phase = "done" /\ args.baseline /\ "unreadable" \in stderr
    /\ exit = 130 => stdout = Nothing /\ "interrupt" \in stderr

(* The score and the exit status, which two different pieces of code       *)
(* derive from the same failures, agree: at the default threshold a report *)
(* that shows its failures has score 0 exactly when the exit status is 0,  *)
(* however the confidence factors scale a failure and round the total.     *)
ScoreAgreesWithExit ==
    /\ stdout.format \in {"json", "text"}
    /\ args.fail_on = "low"
    /\ args.statuses = {} \/ "fail" \in args.statuses
    => (0 \in stdout.risk_scores <=> exit = 0)

(* A SARIF consumer that counts results of level error sees one exactly    *)
(* when the report fails at the threshold high (reporters.py:38-50 against *)
(* cli.py:45-53): reviews of high severity never become errors, findings   *)
(* without enough evidence never do.                                       *)
SarifErrorsAreHighFailures ==
    /\ stdout.format = "sarif"
    /\ args.statuses = {} \/ "fail" \in args.statuses
    => ((\E i \in DOMAIN stdout.results : stdout.results[i].level = "error")
           <=> report_fails_at(findings, "high"))

(* A scan that starts has something to do, and does exactly what was asked *)
(* for: with --system-only no browser check of any area or identifier      *)
(* runs, with --area or --check no other one does, and a typing error in   *)
(* either never narrows the scan silently to nothing.                      *)
ScanIsWhatWasAsked ==
    phase # "idle" =>
        /\ selected # <<>>
        /\ UnknownAreas = {} /\ UnknownIds = {}
        /\ \A c \in Registered :
              (\E k \in DOMAIN selected : selected[k] = c) <=> Wanted(c)

(* Nothing is lost between the checks and the reader: a printed report     *)
(* that hides no status shows, for every selected check, a finding, and    *)
(* with a baseline a delta that mentions only identifiers of this report   *)
(* (whatever the old file contained).                                      *)
PrintedReportIsComplete ==
    stdout.format \in {"json", "text"} =>
        /\ args.statuses = {} =>
              /\ Len(stdout.findings) = Len(author)
              /\ \A k \in DOMAIN selected : \E i \in DOMAIN author : author[i] = k
        /\ args.baseline <=> stdout.delta # Unset
        /\ stdout.delta # Unset =>
              UNION {stdout.delta[field] : field \in DOMAIN stdout.delta}
                \subseteq {findings[i].check_id : i \in DOMAIN findings}

(* The invocation always ends: with a report, an error or the interrupt.   *)
Exits == <>(stage = "exited")

=============================================================================
