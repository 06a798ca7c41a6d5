----------------------------- MODULE CliProofs -----------------------------
(***************************************************************************)
(* The command line for any registry, any checks and any arguments: the    *)
(* audit that main drives is the audit of the runner, step by step, and    *)
(* the exit status follows from the whole report.                          *)
(***************************************************************************)
EXTENDS Cli, RunnerProofs, ListProofs

(* What main scans is a selection of the registry.                         *)
LEMMA ChosenIsSelection == Chosen \in Selections
<1>1. {c \in Registered : Wanted(c)} \subseteq Check
  BY CliAssumption DEF Registered, ToSet
<1> QED
  BY <1>1, CliAssumption DEF Chosen

(* Every step of main is a step of the runner, or does not touch the       *)
(* report at all (cli.py:56-114 against runner.py:12-28).                  *)
LEMMA StepRefinesRunner ==
    ASSUME [CliNext]_vars
    PROVE  [RunnerNext]_runnerVars
<1>1. CASE RejectBaselineSarif
  BY <1>1 DEF RejectBaselineSarif, Exit
<1>2. CASE Scope
  BY <1>2 DEF Scope
<1>3. CASE RejectSelection
  BY <1>3 DEF RejectSelection, Exit
<1>4. CASE ListChecks
  BY <1>4 DEF ListChecks
<1>5. CASE StartScan
  BY <1>5, ChosenIsSelection DEF StartScan, RunnerNext
<1>6. CASE ScanCheck
  BY <1>6 DEF ScanCheck, RunnerNext, RunnerStep
<1>7. CASE EndScan
  BY <1>7 DEF EndScan, RunnerNext, RunnerStep
<1>8. CASE RejectBaseline
  BY <1>8 DEF RejectBaseline, Exit
<1>9. CASE CompareBaseline
  BY <1>9 DEF CompareBaseline
<1>10. CASE Render \/ RenderCrashes
  BY <1>10 DEF Render, RenderCrashes
<1>11. CASE CliInterrupt
  <2>1. CASE stage = "scan"
    BY <1>11, <2>1 DEF CliInterrupt, RunnerNext
  <2>2. CASE stage # "scan"
    BY <1>11, <2>2 DEF CliInterrupt
  <2> QED BY <2>1, <2>2
<1>12. CASE UNCHANGED vars
  BY <1>12 DEF vars
<1> QED
  BY <1>1, <1>2, <1>3, <1>4, <1>5, <1>6, <1>7, <1>8, <1>9, <1>10, <1>11, <1>12
     DEF CliNext, CliStep

(* The command line implements the runner: it adds no way of altering a    *)
(* report to those the runner has.                                         *)
THEOREM CliImplementsRunner == CliSpec => RunnerSpec
<1>1. CliInit => RunnerInit
  BY DEF CliInit
<1>2. [CliNext]_vars => [RunnerNext]_runnerVars
  BY StepRefinesRunner
<1> QED
  BY <1>1, <1>2, PTL DEF CliSpec, RunnerSpec

(* So the faults of checks are isolated in the invocation as a whole       *)
(* (runner.py:17-27).                                                      *)
THEOREM CliIsolatesFaults == CliSpec => []FaultIsolated
BY CliImplementsRunner, FaultIsolation, PTL

-----------------------------------------------------------------------------
(* The policy of cli.py:45-53 decides the status of a printed report.      *)
ExitPolicy ==
    stdout.format \in {"json", "sarif", "text"} =>
        (exit = 1 <=> report_fails_at(findings, args.fail_on))

(* What main knows at each of its stages.  ExitPolicy is about the report  *)
(* at the moment of the exit, so the invariant has to say that nothing is  *)
(* printed before and nothing happens after.                               *)
MainInv ==
    /\ args \in Invocations
    /\ stage \in Stage
    /\ exit \in {Unset, 0, 1, 2, 130}
    /\ (exit # Unset) <=> (stage = "exited")
    /\ stage = "compare" => args.baseline
    /\ delta # Unset => args.baseline
    /\ stdout # Nothing => exit \in {0, 1}
    /\ ExitPolicy

(* The stage of main and the phase of the runner go together, and what the *)
(* runner was handed is what the filters let through.                      *)
SelectionInv ==
    /\ stage \in {"parse", "select"} => phase = "idle"
    /\ stage = "scan" => phase = "running"
    /\ stage \in {"compare", "render"} => phase = "done"
    /\ phase # "idle" => selected = Chosen /\ SelectionError = Unset

ReportedIds == {findings[i].check_id : i \in DOMAIN findings}

(* There is a delta from the comparison on, exactly when one was asked     *)
(* for, and it is about the identifiers of the finished report.            *)
DeltaInv ==
    /\ stage \in {"parse", "select", "scan", "compare"} => delta = Unset
    /\ stage = "render" => (args.baseline <=> delta # Unset)
    /\ delta # Unset => phase = "done" /\ delta \in DeltaOver(ReportedIds)

IsReport(out) == out.format \in {"json", "sarif", "text"}

(* A report on standard output is that of the finished scan.               *)
PrintInv ==
    IsReport(stdout) =>
        /\ stage = "exited" /\ phase = "done"
        /\ stdout = Rendered
        /\ args.baseline <=> delta # Unset

(* What is displayed are findings of the report, in any case those of the  *)
(* statuses asked for.                                                     *)
LEMMA DisplayedAreFindings ==
    ASSUME TypeOK
    PROVE  /\ Displayed \in Seq(FindingOf(FindingId, AreaName))
           /\ \A k \in DOMAIN Displayed : \E i \in DOMAIN findings : Displayed[k] = findings[i]
           /\ \A i \in DOMAIN findings :
                 args.statuses = {} \/ findings[i].status \in args.statuses =>
                    \E k \in DOMAIN Displayed : Displayed[k] = findings[i]
<1> DEFINE I == {i \in DOMAIN findings : findings[i].status \in args.statuses}
           F == FindingOf(FindingId, AreaName)
<1>1. findings \in Seq(F)
  BY DEF TypeOK
<1> HIDE DEF F
<1>2. CASE args.statuses = {}
  BY <1>1, <1>2 DEF Displayed, F
<1>3. CASE args.statuses # {}
  <2>1. Displayed = ItemsAt(findings, I) /\ I \in SUBSET DOMAIN findings
    BY <1>3 DEF Displayed
  <2>2. \A i \in DOMAIN findings : findings[i].status \in args.statuses => i \in I
    OBVIOUS
  <2> HIDE DEF I
  <2>3. /\ ItemsAt(findings, I) \in Seq(F)
        /\ \A k \in DOMAIN ItemsAt(findings, I) : \E i \in I : ItemsAt(findings, I)[k] = findings[i]
        /\ \A i \in I : \E k \in DOMAIN ItemsAt(findings, I) : ItemsAt(findings, I)[k] = findings[i]
    BY <1>1, <2>1, ItemsAtKeeps
  <2> QED BY <1>3, <2>1, <2>2, <2>3 DEF F
<1> QED BY <1>2, <1>3

(* What cannot be printed is evidence of the report.                       *)
LEMMA CannotPrint ==
    ASSUME TypeOK, ~CanPrint
    PROVE  /\ args.format = "text"
           /\ \E i \in DOMAIN findings : findings[i].check_id \in unencodable
<1>1. PICK k \in DOMAIN Displayed : Displayed[k].check_id \in unencodable
  BY DEF CanPrint
<1>2. \E i \in DOMAIN findings : Displayed[k] = findings[i]
  BY DisplayedAreFindings
<1> QED BY <1>1, <1>2 DEF CanPrint

(* Every way out of main leaves its reason behind.                         *)
StatusInv ==
    /\ exit = 0 =>
          \/ IsReport(stdout)
          \/ args.list /\ stdout.format = "list" /\ phase = "idle"
    /\ exit = 1 =>
          \/ IsReport(stdout)
          \/ /\ stdout = Nothing /\ "traceback" \in stderr /\ phase = "done"
             /\ args.format = "text"
             /\ \E i \in DOMAIN findings : findings[i].check_id \in unencodable
    /\ exit = 2 =>
          /\ stdout = Nothing
          /\ \/ phase = "idle"
             \/ phase = "done" /\ args.baseline /\ "unreadable" \in stderr
    /\ exit = 130 => stdout = Nothing /\ "interrupt" \in stderr

LEMMA InitMainInv == CliInit => MainInv
BY CliAssumption DEF CliInit, MainInv, Stage, Nothing, ExitPolicy

(* Until the exit nothing is printed.                                      *)
LEMMA SilentBefore == MainInv /\ stage # "exited" => stdout = Nothing
BY CliAssumption DEF MainInv

(* To leave main without a report keeps the invariant.                     *)
LEMMA SilentExit ==
    ASSUME MainInv, stage # "exited",
           NEW code \in {1, 2, 130}, NEW messages, Exit(code, messages),
           args' = args, delta' = delta, stdout' = stdout
    PROVE  MainInv'
<1>1. stdout' = Nothing
  BY SilentBefore
<1>2. stage' = "exited" /\ exit' = code
  BY DEF Exit
<1>3. exit' \in {Unset, 0, 1, 2, 130} /\ exit' # Unset
  BY <1>2, CliAssumption
<1>4. ExitPolicy'
  BY <1>1 DEF ExitPolicy, Nothing
<1> QED
  BY <1>1, <1>2, <1>3, <1>4 DEF MainInv, Stage

LEMMA NextMainInv == MainInv /\ [CliNext]_vars => MainInv'
<1> SUFFICES ASSUME MainInv, [CliNext]_vars PROVE MainInv'
  OBVIOUS
<1> USE CliAssumption DEF MainInv
<1>1. CASE RejectBaselineSarif
  BY <1>1, SilentExit DEF RejectBaselineSarif
<1>2. CASE Scope
  <2>1. stdout' = Nothing /\ stdout = Nothing
    BY <1>2, SilentBefore DEF Scope
  <2>2. stage' = "select" /\ args' = args /\ exit' = exit /\ delta' = delta /\ stage = "parse"
    BY <1>2 DEF Scope
  <2>3. ExitPolicy'
    BY <2>1 DEF ExitPolicy, Nothing
  <2> QED BY <2>1, <2>2, <2>3 DEF Stage
<1>3. CASE RejectSelection
  BY <1>3, SilentExit DEF RejectSelection
<1>4. CASE ListChecks
  BY <1>4 DEF ListChecks, Exit, Stage, ExitPolicy
<1>5. CASE StartScan
  BY <1>5, SilentBefore DEF StartScan, Stage, ExitPolicy, Nothing
<1>6. CASE ScanCheck
  BY <1>6, SilentBefore DEF ScanCheck, cliVars, ExitPolicy, Nothing
<1>7. CASE EndScan
  BY <1>7, SilentBefore DEF EndScan, Stage, ExitPolicy, Nothing
<1>8. CASE RejectBaseline
  BY <1>8, SilentExit DEF RejectBaseline
<1>9. CASE CompareBaseline
  BY <1>9, SilentBefore DEF CompareBaseline, Stage, ExitPolicy, Nothing
<1>10. CASE Render
  <2>1. args' = args /\ findings' = findings
    BY <1>10 DEF Render, runnerVars
  <2>2. exit' = IF report_fails_at(findings, args.fail_on) THEN 1 ELSE 0
    BY <1>10 DEF Render, Exit
  <2>3. exit' \in {0, 1} /\ (exit' = 1 <=> report_fails_at(findings', args'.fail_on))
    BY <2>1, <2>2
  <2> QED BY <1>10, <2>1, <2>3 DEF Render, Exit, Stage, ExitPolicy
<1>11. CASE RenderCrashes
  BY <1>11, SilentExit DEF RenderCrashes
<1>12. CASE CliInterrupt
  BY <1>12, SilentExit DEF CliInterrupt
<1>13. CASE UNCHANGED vars
  BY <1>13 DEF vars, cliVars, runnerVars, ExitPolicy, report_fails_at
<1> QED
  BY <1>1, <1>2, <1>3, <1>4, <1>5, <1>6, <1>7, <1>8, <1>9, <1>10, <1>11, <1>12, <1>13
     DEF CliNext, CliStep

THEOREM MainInvariant == CliSpec => []MainInv
BY InitMainInv, NextMainInv, PTL DEF CliSpec

(* The state of main keeps its types, the runner's included (cli.py:56-114). *)
THEOREM CliTypeCorrect == CliSpec => []CliTypeOK
<1>1. MainInv /\ TypeOK => CliTypeOK
  BY CliAssumption DEF MainInv, CliTypeOK
<1> QED
  BY <1>1, MainInvariant, CliImplementsRunner, TypeCorrect, PTL

-----------------------------------------------------------------------------
(* A delta mentions only identifiers of the report it was computed for,    *)
(* whatever the baseline contains (comparison.py:35-56).                   *)
LEMMA DeltaIsAboutReport ==
    ASSUME NEW document
    PROVE  compare_with_baseline(findings, document) \in DeltaOver(ReportedIds)
<1> DEFINE now == StatusById(findings)
           before == StatusById(document)
<1>1. DOMAIN now = ReportedIds
  BY DEF StatusById, ReportedIds
<1> HIDE DEF now, before
<1>2. Delta(now, before) \in DeltaOver(ReportedIds)
  BY <1>1 DEF Delta, DeltaOver, WithStatus
<1> QED BY <1>2 DEF compare_with_baseline, now, before

LEMMA FindingTyped ==
    ASSUME TypeOK, NEW i \in DOMAIN findings
    PROVE  findings[i] \in FindingOf(FindingId, AreaName)
BY ElementOfSeq, LenProperties DEF TypeOK

LEMMA DeltaIsSet ==
    ASSUME TypeOK, NEW document
    PROVE  compare_with_baseline(findings, document) # Unset
<1>1. \A i \in DOMAIN findings : findings[i].check_id \in FindingId
  BY FindingTyped DEF FindingOf
<1>2. ReportedIds \subseteq FindingId
  BY <1>1 DEF ReportedIds
<1>3. compare_with_baseline(findings, document) \in DeltaOver(FindingId)
  BY <1>2, DeltaIsAboutReport DEF DeltaOver
<1> QED BY <1>3, UnsetAssumption

FlowInv == MainInv /\ SelectionInv /\ DeltaInv /\ PrintInv /\ StatusInv

LEMMA InitFlowInv == CliInit => FlowInv
<1>1. CliInit => SelectionInv
  BY DEF CliInit, RunnerInit, SelectionInv
<1>2. CliInit => DeltaInv
  BY DEF CliInit, DeltaInv
<1>3. CliInit => PrintInv
  BY DEF CliInit, PrintInv, IsReport, Nothing
<1>4. CliInit => StatusInv
  BY CliAssumption DEF CliInit, StatusInv
<1> QED BY <1>1, <1>2, <1>3, <1>4, InitMainInv DEF FlowInv

(* The filters depend on the arguments alone, and what is rendered on the  *)
(* arguments, the findings and the delta.                                  *)
LEMMA FiltersFixed ==
    args' = args => Chosen' = Chosen /\ SelectionError' = SelectionError
BY DEF Chosen, Wanted, InScope, Selection, SelectionError, UnknownAreas, UnknownIds, Filtered

LEMMA RenderedFixed ==
    args' = args /\ findings' = findings /\ delta' = delta => Rendered' = Rendered
BY DEF Rendered, render_sarif, render_report, Displayed, SarifRules, SarifLevel

LEMMA NextFlowInv == FlowInv /\ TypeOK /\ [CliNext]_vars => FlowInv'
<1> SUFFICES ASSUME FlowInv, TypeOK, [CliNext]_vars PROVE FlowInv'
  OBVIOUS
<1> USE DEF FlowInv
<1>m. MainInv'
  BY NextMainInv
<1>s. SelectionInv'
  <2> USE DEF SelectionInv
  <2>a. args' = args /\ Chosen' = Chosen /\ SelectionError' = SelectionError
    <3>1. args' = args
      BY DEF CliNext, CliStep, RejectBaselineSarif, Scope, RejectSelection, ListChecks,
             StartScan, ScanCheck, EndScan, RejectBaseline, CompareBaseline, Render,
             RenderCrashes, CliInterrupt, vars, cliVars
    <3> QED BY <3>1, FiltersFixed
  <2>1. CASE RejectBaselineSarif \/ RejectSelection \/ ListChecks \/ RejectBaseline
             \/ Render \/ RenderCrashes
    BY <2>1, <2>a DEF RejectBaselineSarif, RejectSelection, ListChecks, RejectBaseline,
                      Render, RenderCrashes, Exit, runnerVars
  <2>2. CASE Scope \/ CompareBaseline
    BY <2>2, <2>a DEF Scope, CompareBaseline, runnerVars
  <2>3. CASE StartScan
    BY <2>3, <2>a DEF StartScan, Start
  <2>4. CASE ScanCheck
    BY <2>4, <2>a DEF ScanCheck, cliVars, CheckReturns, CheckRaises
  <2>5. CASE EndScan
    BY <2>5, <2>a DEF EndScan, Finish
  <2>6. CASE CliInterrupt
    BY <2>6, <2>a DEF CliInterrupt, Interrupt, Exit, runnerVars
  <2>7. CASE UNCHANGED vars
    BY <2>7, <2>a DEF vars, cliVars, runnerVars
  <2> QED BY <2>1, <2>2, <2>3, <2>4, <2>5, <2>6, <2>7 DEF CliNext, CliStep
<1>d. DeltaInv'
  <2> USE DEF DeltaInv
  <2>1. CASE RejectBaselineSarif \/ RejectSelection \/ ListChecks \/ RejectBaseline
             \/ Render \/ RenderCrashes
    BY <2>1 DEF RejectBaselineSarif, RejectSelection, ListChecks, RejectBaseline,
                Render, RenderCrashes, Exit, runnerVars, ReportedIds
  <2>2. CASE Scope
    BY <2>2 DEF Scope, runnerVars, ReportedIds
  <2>3. CASE CompareBaseline
    <3>1. PICK document \in BaselineDocs : delta' = compare_with_baseline(findings, document)
      BY <2>3 DEF CompareBaseline
    <3>2. delta' # Unset /\ delta' \in DeltaOver(ReportedIds)
      BY <3>1, DeltaIsAboutReport, DeltaIsSet
    <3>3. /\ phase' = phase /\ findings' = findings /\ args' = args
          /\ stage = "compare" /\ stage' = "render"
      BY <2>3 DEF CompareBaseline, runnerVars
    <3>4. phase = "done" /\ args.baseline
      BY <3>3 DEF SelectionInv, MainInv
    <3> QED BY <3>2, <3>3, <3>4 DEF ReportedIds
  <2>4. CASE StartScan
    BY <2>4 DEF StartScan, Start
  <2>5. CASE ScanCheck
    BY <2>5 DEF ScanCheck, cliVars
  <2>6. CASE EndScan
    BY <2>6 DEF EndScan
  <2>7. CASE CliInterrupt
    BY <2>7 DEF CliInterrupt, Interrupt, Exit, runnerVars, ReportedIds
  <2>8. CASE UNCHANGED vars
    BY <2>8 DEF vars, cliVars, runnerVars, ReportedIds
  <2> QED BY <2>1, <2>2, <2>3, <2>4, <2>5, <2>6, <2>7, <2>8 DEF CliNext, CliStep
<1>p. PrintInv'
  <2> USE DEF PrintInv
  <2>1. CASE Render
    <3>1. /\ stage' = "exited" /\ phase' = phase /\ stdout' = Rendered
          /\ args' = args /\ findings' = findings /\ delta' = delta
      BY <2>1 DEF Render, Exit, runnerVars
    <3>2. phase = "done" /\ (args.baseline <=> delta # Unset)
      BY <2>1 DEF Render, SelectionInv, DeltaInv
    <3> QED BY <3>1, <3>2, RenderedFixed
  <2>2. CASE ListChecks
    BY <2>2 DEF ListChecks, IsReport
  <2>3. CASE RejectBaselineSarif \/ Scope \/ RejectSelection \/ StartScan \/ ScanCheck
             \/ EndScan \/ RejectBaseline \/ CompareBaseline \/ RenderCrashes \/ CliInterrupt
    <3>1. stage # "exited" /\ stdout' = stdout
      BY <2>3 DEF RejectBaselineSarif, Scope, RejectSelection, StartScan, ScanCheck, EndScan,
                  RejectBaseline, CompareBaseline, RenderCrashes, CliInterrupt, cliVars
    <3>2. ~IsReport(stdout)
      BY <3>1
    <3> QED BY <3>1, <3>2 DEF IsReport
  <2>4. CASE UNCHANGED vars
    <3>1. /\ stage' = stage /\ phase' = phase /\ stdout' = stdout
          /\ args' = args /\ findings' = findings /\ delta' = delta
      BY <2>4 DEF vars, cliVars, runnerVars
    <3> QED BY <3>1, RenderedFixed DEF IsReport
  <2> QED BY <2>1, <2>2, <2>3, <2>4 DEF CliNext, CliStep
<1>x. StatusInv'
  <2> USE DEF StatusInv, IsReport
  <2>1. CASE RejectBaselineSarif \/ RejectSelection
    <3>1. stdout' = Nothing /\ phase' = "idle" /\ exit' = 2
      BY <2>1, SilentBefore DEF RejectBaselineSarif, RejectSelection, Exit, runnerVars, SelectionInv
    <3> QED BY <3>1
  <2>2. CASE ListChecks
    <3>1. /\ stdout'.format = "list" /\ phase' = "idle" /\ exit' = 0
          /\ args' = args /\ args.list
      BY <2>2 DEF ListChecks, Exit, runnerVars, SelectionInv
    <3> QED BY <3>1
  <2>3. CASE RejectBaseline
    <3>1. /\ stdout' = Nothing /\ phase' = "done" /\ exit' = 2
          /\ args'.baseline /\ "unreadable" \in stderr'
      BY <2>3, SilentBefore DEF RejectBaseline, Exit, runnerVars, SelectionInv, MainInv
    <3> QED BY <3>1
  <2>4. CASE Render
    <3>1. stdout' = Rendered /\ exit' \in {0, 1} /\ args' = args
      BY <2>4 DEF Render, Exit
    <3>2. Rendered.format = args.format
      BY DEF Rendered, render_sarif, render_report
    <3>3. args.format \in {"json", "sarif", "text"}
      BY CliAssumption DEF MainInv, Arguments
    <3> QED BY <3>1, <3>2, <3>3
  <2>5. CASE RenderCrashes
    <3>1. /\ stdout' = Nothing /\ phase' = "done" /\ exit' = 1
          /\ "traceback" \in stderr' /\ ~CanPrint
          /\ args' = args /\ findings' = findings /\ unencodable' = unencodable
      BY <2>5, SilentBefore DEF RenderCrashes, Exit, runnerVars, SelectionInv
    <3> QED BY <3>1, CannotPrint
  <2>6. CASE CliInterrupt
    <3>1. stdout' = Nothing /\ exit' = 130 /\ "interrupt" \in stderr'
      BY <2>6, SilentBefore DEF CliInterrupt, Exit
    <3> QED BY <3>1
  <2>7. CASE Scope \/ StartScan \/ ScanCheck \/ EndScan \/ CompareBaseline
    <3>1. stage # "exited" /\ exit' = exit
      BY <2>7 DEF Scope, StartScan, ScanCheck, EndScan, CompareBaseline, cliVars
    <3>2. exit' = Unset
      BY <3>1 DEF MainInv
    <3> QED BY <3>2, CliAssumption
  <2>8. CASE UNCHANGED vars
    BY <2>8 DEF vars, cliVars, runnerVars
  <2> QED BY <2>1, <2>2, <2>3, <2>4, <2>5, <2>6, <2>7, <2>8 DEF CliNext, CliStep
<1> QED BY <1>m, <1>s, <1>d, <1>p, <1>x

THEOREM FlowInvariant == CliSpec => []FlowInv
<1>1. CliSpec => []TypeOK
  BY CliImplementsRunner, TypeCorrect, PTL
<1>2. FlowInv /\ [CliNext]_vars /\ TypeOK => FlowInv'
  BY NextFlowInv
<1> QED BY InitFlowInv, <1>1, <1>2, PTL DEF CliSpec

-----------------------------------------------------------------------------
(* The scan does exactly what the arguments ask for, for any registry and  *)
(* any combination of --browser-only, --system-only, --area and --check    *)
(* (cli.py:60-90).                                                         *)
THEOREM ScanMatchesArguments == CliSpec => []ScanIsWhatWasAsked
<1>1. FlowInv => ScanIsWhatWasAsked
  <2> SUFFICES ASSUME FlowInv, phase # "idle"
               PROVE  /\ selected # <<>>
                      /\ UnknownAreas = {} /\ UnknownIds = {}
                      /\ \A c \in Registered :
                            (\E k \in DOMAIN selected : selected[k] = c) <=> Wanted(c)
    BY DEF ScanIsWhatWasAsked
  <2>1. selected = Chosen /\ SelectionError = Unset
    BY DEF FlowInv, SelectionInv
  <2>2. UnknownAreas = {} /\ UnknownIds = {} /\ ~(Filtered /\ Chosen = <<>>)
    BY <2>1, UnsetAssumption DEF SelectionError
  <2> DEFINE I == {i \in DOMAIN Registry : Registry[i] \in {c \in Registered : Wanted(c)}}
  <2>3. I \in SUBSET DOMAIN Registry /\ Registry \in Seq(Check) /\ Chosen = ItemsAt(Registry, I)
    BY CliAssumption DEF Chosen, Selection
  <2>4. \A i \in DOMAIN Registry : i \in I <=> Wanted(Registry[i])
    BY DEF Registered, ToSet
  <2> HIDE DEF I
  <2>5. /\ \A k \in DOMAIN Chosen : \E i \in I : Chosen[k] = Registry[i]
        /\ \A i \in I : \E k \in DOMAIN Chosen : Chosen[k] = Registry[i]
    BY <2>3, ItemsAtKeeps
  <2>6. ASSUME NEW c \in Registered
        PROVE  (\E k \in DOMAIN Chosen : Chosen[k] = c) <=> Wanted(c)
    <3>1. PICK j \in DOMAIN Registry : Registry[j] = c
      BY DEF Registered, ToSet
    <3>2. Wanted(c) => \E k \in DOMAIN Chosen : Chosen[k] = c
      BY <2>4, <2>5, <3>1
    <3>3. (\E k \in DOMAIN Chosen : Chosen[k] = c) => Wanted(c)
      BY <2>3, <2>4, <2>5
    <3> QED BY <3>2, <3>3
  <2>7. Chosen # <<>>
    <3>1. CASE Filtered
      BY <2>2, <3>1
    <3>2. CASE ~Filtered
      <4>1. \A c \in Registered : Wanted(c)
        BY <3>2 DEF Filtered, Wanted, InScope
      <4>2. 1 \in DOMAIN Registry
        BY CliAssumption, RegistryNotEmpty, EmptySeq, LenProperties
      <4>3. Registry[1] \in Registered
        BY <4>2 DEF Registered, ToSet
      <4>4. \E k \in DOMAIN Chosen : Chosen[k] = Registry[1]
        BY <2>6, <4>1, <4>3
      <4> QED BY <4>4
    <3> QED BY <3>1, <3>2
  <2> QED BY <2>1, <2>2, <2>6, <2>7
<1> QED BY <1>1, FlowInvariant, PTL

(* What is printed in JSON or text is the report as it was filtered, with  *)
(* the aggregates and the delta.                                           *)
LEMMA PrintedReport ==
    ASSUME MainInv, PrintInv, stdout.format \in {"json", "text"}
    PROVE  /\ stdout = render_report(Displayed)
           /\ phase = "done"
           /\ args.baseline <=> delta # Unset
<1>1. stdout = Rendered /\ phase = "done" /\ (args.baseline <=> delta # Unset)
  BY DEF PrintInv, IsReport
<1>2. Rendered = render_sarif(Displayed) \/ Rendered = render_report(Displayed)
  BY DEF Rendered
<1>3. render_sarif(Displayed).format = "sarif"
  BY DEF render_sarif
<1> QED BY <1>1, <1>2, <1>3

(* Nothing is lost between the checks and the reader, for any number of    *)
(* checks and findings and any baseline file (runner.py:12-28,             *)
(* cli.py:90-114, comparison.py:22-56).                                    *)
THEOREM NothingIsLost == CliSpec => []PrintedReportIsComplete
<1>1. FlowInv /\ IInv => PrintedReportIsComplete
  <2> SUFFICES ASSUME FlowInv, IInv, stdout.format \in {"json", "text"}
               PROVE  /\ args.statuses = {} =>
                            /\ Len(stdout.findings) = Len(author)
                            /\ \A k \in DOMAIN selected : \E i \in DOMAIN author : author[i] = k
                      /\ args.baseline <=> stdout.delta # Unset
                      /\ stdout.delta # Unset =>
                            UNION {stdout.delta[field] : field \in DOMAIN stdout.delta}
                              \subseteq {findings[i].check_id : i \in DOMAIN findings}
    BY DEF PrintedReportIsComplete
  <2>1. /\ stdout = render_report(Displayed) /\ phase = "done"
        /\ args.baseline <=> delta # Unset
    BY PrintedReport DEF FlowInv
  <2>2. stdout.findings = Displayed /\ stdout.delta = delta
    BY <2>1 DEF render_report
  <2>3. ASSUME args.statuses = {}
        PROVE  /\ Len(stdout.findings) = Len(author)
               /\ \A k \in DOMAIN selected : \E i \in DOMAIN author : author[i] = k
    <3>1. Len(stdout.findings) = Len(author)
      BY <2>2, <2>3 DEF Displayed, IInv, RunnerInv, Attributed
    <3>2. DOMAIN selected = 1..(position - 1)
      BY <2>1, LenProperties DEF IInv, RunnerInv, TypeOK, EveryCheckReported
    <3> QED BY <3>1, <3>2 DEF IInv, RunnerInv, EveryCheckReported
  <2>4. ASSUME stdout.delta # Unset
        PROVE  UNION {stdout.delta[field] : field \in DOMAIN stdout.delta}
                  \subseteq {findings[i].check_id : i \in DOMAIN findings}
    <3>1. stdout.delta \in DeltaOver(ReportedIds)
      BY <2>2, <2>4 DEF FlowInv, DeltaInv
    <3>2. \A field \in DOMAIN stdout.delta : stdout.delta[field] \subseteq ReportedIds
      BY <3>1 DEF DeltaOver
    <3> QED BY <3>2 DEF ReportedIds
  <2> QED BY <2>1, <2>2, <2>3, <2>4
<1>2. CliSpec => []IInv
  BY CliImplementsRunner, InductiveInvariant, PTL
<1> QED BY <1>1, <1>2, FlowInvariant, PTL

-----------------------------------------------------------------------------
(* The severities at a threshold, and the ranks, agree.                    *)
LEMMA PolicyIsFailure ==
    ASSUME TypeOK, args \in Arguments
    PROVE  report_fails_at(findings, args.fail_on) <=> FoundFailure
<1>1. args.fail_on \in Threshold
  BY DEF Arguments
<1>2. \A i \in DOMAIN findings : findings[i].severity \in Severity
  BY FindingTyped DEF FindingOf
<1>3. \A severity \in Severity, threshold \in Threshold :
         threshold # "none" /\ Rank[severity] >= Rank[threshold]
           <=> severity \in AtLeast(threshold)
  BY DEF Severity, Threshold, Rank, AtLeast
<1> QED BY <1>1, <1>2, <1>3 DEF report_fails_at, FoundFailure

(* Whatever the arguments, the checks, the filters of what is shown, the   *)
(* baseline file and the moment of an interrupt, the exit status has one   *)
(* of the reasons given (cli.py:56-114).                                   *)
THEOREM StatusIsExplained == CliSpec => []ExitStatusExplained
<1>1. FlowInv /\ IInv => ExitStatusExplained
  <2> SUFFICES ASSUME FlowInv, IInv PROVE ExitStatusExplained
    OBVIOUS
  <2>1. args \in Arguments /\ TypeOK
    BY CliAssumption DEF FlowInv, MainInv, IInv, RunnerInv
  <2>2. ASSUME IsReport(stdout)
        PROVE  phase = "done" /\ stdout.format = args.format /\ (exit = 1 <=> FoundFailure)
    <3>1. phase = "done" /\ stdout = Rendered /\ (exit = 1 <=> FoundFailure)
      BY <2>1, <2>2, PolicyIsFailure DEF FlowInv, PrintInv, MainInv, ExitPolicy, IsReport
    <3>2. Rendered.format = args.format
      BY DEF Rendered, render_sarif, render_report
    <3> QED BY <3>1, <3>2
  <2>3. ASSUME phase = "done"
        PROVE  \A k \in DOMAIN selected : \E i \in DOMAIN author : author[i] = k
    <3>1. DOMAIN selected = 1..(position - 1)
      BY <2>3, LenProperties DEF IInv, RunnerInv, TypeOK, EveryCheckReported
    <3> QED BY <3>1 DEF IInv, RunnerInv, EveryCheckReported
  <2>4. exit = 0 =>
          \/ args.list /\ stdout.format = "list" /\ phase = "idle"
          \/ /\ phase = "done" /\ stdout.format = args.format
             /\ \A k \in DOMAIN selected : \E i \in DOMAIN author : author[i] = k
             /\ ~FoundFailure
    BY <2>2, <2>3 DEF FlowInv, StatusInv
  <2>5. exit = 1 =>
          /\ phase = "done"
          /\ \/ stdout.format = args.format /\ FoundFailure
             \/ /\ stdout = Nothing /\ args.format = "text" /\ "traceback" \in stderr
                /\ \E i \in DOMAIN findings : findings[i].check_id \in unencodable
    BY <2>2 DEF FlowInv, StatusInv
  <2> QED BY <2>4, <2>5 DEF ExitStatusExplained, FlowInv, StatusInv
<1>2. CliSpec => []IInv
  BY CliImplementsRunner, InductiveInvariant, PTL
<1> QED BY <1>1, <1>2, FlowInvariant, PTL

(* No finding that establishes nothing is severe: it is kept by every      *)
(* contribution.                                                           *)
InconclusiveInv ==
    \A i \in DOMAIN findings : Inconclusive(findings[i]) => findings[i].severity = "info"

LEMMA ContributionInconclusive ==
    ASSUME IInv, InconclusiveInv, Running, UNCHANGED selected,
           NEW list \in Seq(FindingOf(FindingId, AreaName)) \ {<<>>}, Contribute(list),
           \A i \in DOMAIN list : Inconclusive(list[i]) => list[i].severity = "info"
    PROVE  InconclusiveInv'
<1> DEFINE n == Len(findings)
<1>1. /\ findings' \in Seq(FindingOf(FindingId, AreaName))
      /\ Len(findings') = n + Len(list)
      /\ \A i \in 1..n : findings'[i] = findings[i]
      /\ \A i \in (n + 1)..Len(findings') : findings'[i] = list[i - n]
  BY ContributeLemma DEF IInv, RunnerInv
<1>2. /\ n \in Nat /\ Len(list) \in Nat
      /\ DOMAIN findings = 1..n /\ DOMAIN list = 1..Len(list)
      /\ DOMAIN findings' = 1..(n + Len(list))
  BY <1>1, LenProperties DEF IInv, RunnerInv, TypeOK
<1> HIDE DEF n
<1> SUFFICES ASSUME NEW i \in 1..(n + Len(list)), Inconclusive(findings'[i])
             PROVE  findings'[i].severity = "info"
  BY <1>2 DEF InconclusiveInv, Inconclusive
<1>3. CASE i <= n
  <2>1. i \in 1..n /\ findings'[i] = findings[i]
    BY <1>1, <1>2, <1>3
  <2> QED BY <1>2, <2>1 DEF InconclusiveInv
<1>4. CASE i > n
  <2>1. i - n \in 1..Len(list) /\ findings'[i] = list[i - n]
    BY <1>1, <1>2, <1>4
  <2> QED BY <1>2, <2>1
<1> QED BY <1>2, <1>3, <1>4

LEMMA RunnerInconclusive == RunnerSpec => []InconclusiveInv
<1>1. RunnerInit => InconclusiveInv
  BY DEF RunnerInit, InconclusiveInv
<1>2. IInv /\ InconclusiveInv /\ [RunnerNext]_runnerVars => InconclusiveInv'
  <2> SUFFICES ASSUME IInv, InconclusiveInv, [RunnerNext]_runnerVars PROVE InconclusiveInv'
    OBVIOUS
  <2>1. CASE CheckReturns
    <3>1. PICK list \in Returns[selected[position]] : Contribute(list)
      BY <2>1 DEF CheckReturns
    <3>2. Running /\ UNCHANGED selected
      BY <2>1 DEF CheckReturns
    <3>3. list \in Seq(FindingOf(FindingId, AreaName)) \ {<<>>}
      BY <3>1, <3>2, ReturnsTyped DEF IInv, RunnerInv
    <3>4. selected[position] \in Check
      BY <3>2 DEF IInv, RunnerInv, TypeOK, Running
    <3>5. \A i \in DOMAIN list : Inconclusive(list[i]) => list[i].severity = "info"
      BY <3>1, <3>4, InconclusiveIsInfo
    <3> QED BY <3>1, <3>2, <3>3, <3>5, ContributionInconclusive
  <2>2. CASE CheckRaises
    <3> DEFINE list == <<ErrorFinding(selected[position])>>
    <3>1. Running /\ UNCHANGED selected /\ Contribute(list)
      BY <2>2 DEF CheckRaises
    <3>2. list \in Seq(FindingOf(FindingId, AreaName)) \ {<<>>}
      BY <3>1, ErrorFindingTyped DEF IInv, RunnerInv, TypeOK, Running
    <3>3. \A i \in DOMAIN list : list[i].severity = "info"
      BY DEF ErrorFinding, Finding
    <3> HIDE DEF list
    <3> QED BY <3>1, <3>2, <3>3, ContributionInconclusive
  <2>3. CASE UNCHANGED findings
    BY <2>3 DEF InconclusiveInv
  <2> QED
    BY <2>1, <2>2, <2>3 DEF RunnerNext, RunnerStep, Start, Finish, Interrupt, runnerVars
<1> QED BY <1>1, <1>2, InductiveInvariant, PTL DEF RunnerSpec

(* A finding becomes a SARIF result of level error exactly when it is a    *)
(* failure that counts at the threshold high (reporters.py:38-50,          *)
(* cli.py:45-53).                                                          *)
LEMMA ErrorLevel ==
    ASSUME NEW f \in FindingOf(FindingId, AreaName),
           Inconclusive(f) => f.severity = "info"
    PROVE  f.status \notin {"pass", "not_applicable"} /\ SarifLevel(f) = "error"
             <=> f.status = "fail" /\ Rank[f.severity] >= Rank["high"]
<1>1. f.status \in Status /\ f.severity \in Severity
  BY DEF FindingOf
<1>2. Rank[f.severity] >= Rank["high"] <=> f.severity \in {"critical", "high"}
  BY <1>1 DEF Rank, Severity
<1>3. f.status # "review" => (SarifLevel(f) = "error" <=> f.severity \in {"critical", "high"})
  BY <1>1 DEF SarifLevel, Severity
<1>4. f.status = "review" => SarifLevel(f) # "error"
  BY DEF SarifLevel
<1> QED BY <1>1, <1>2, <1>3, <1>4 DEF Inconclusive, Status

(* For any report, filter and exit threshold.                              *)
THEOREM SarifMatchesPolicy == CliSpec => []SarifErrorsAreHighFailures
<1>1. FlowInv /\ TypeOK /\ InconclusiveInv => SarifErrorsAreHighFailures
  <2> SUFFICES ASSUME FlowInv, TypeOK, InconclusiveInv, stdout.format = "sarif",
                      args.statuses = {} \/ "fail" \in args.statuses
               PROVE  (\E i \in DOMAIN stdout.results : stdout.results[i].level = "error")
                         <=> report_fails_at(findings, "high")
    BY DEF SarifErrorsAreHighFailures
  <2> DEFINE I == {i \in DOMAIN Displayed :
                     Displayed[i].status \notin {"pass", "not_applicable"}}
             relevant == ItemsAt(Displayed, I)
             Counts(f) == f.status = "fail" /\ Rank[f.severity] >= Rank["high"]
  <2>1. stdout = render_sarif(Displayed)
    <3>1. stdout = Rendered /\ args \in Arguments
      BY CliAssumption DEF FlowInv, MainInv, PrintInv, IsReport
    <3>2. render_report(Displayed).format = args.format
      BY DEF render_report
    <3> QED BY <3>1, <3>2 DEF Rendered
  <2>2. stdout.results = [i \in DOMAIN relevant |->
            [ruleId |-> relevant[i].check_id, level |-> SarifLevel(relevant[i])]]
    BY <2>1 DEF render_sarif
  <2>3. /\ Displayed \in Seq(FindingOf(FindingId, AreaName))
        /\ \A k \in DOMAIN Displayed : \E i \in DOMAIN findings : Displayed[k] = findings[i]
        /\ \A i \in DOMAIN findings : findings[i].status = "fail" =>
              \E k \in DOMAIN Displayed : Displayed[k] = findings[i]
    BY DisplayedAreFindings
  <2>4. I \in SUBSET DOMAIN Displayed
        /\ \A i \in DOMAIN Displayed :
              i \in I <=> Displayed[i].status \notin {"pass", "not_applicable"}
    OBVIOUS
  <2> HIDE DEF I
  <2>5. /\ relevant \in Seq(FindingOf(FindingId, AreaName))
        /\ \A k \in DOMAIN relevant : \E i \in I : relevant[k] = Displayed[i]
        /\ \A i \in I : \E k \in DOMAIN relevant : relevant[k] = Displayed[i]
    BY <2>3, <2>4, ItemsAtKeeps
  <2> HIDE DEF relevant
  <2>6. \A i \in DOMAIN findings :
           findings[i].status \notin {"pass", "not_applicable"} /\ SarifLevel(findings[i]) = "error"
             <=> Counts(findings[i])
    BY FindingTyped, ErrorLevel DEF InconclusiveInv
  <2>7. report_fails_at(findings, "high") <=> \E i \in DOMAIN findings : Counts(findings[i])
    BY DEF report_fails_at
  <2>8. ASSUME NEW k \in DOMAIN stdout.results, stdout.results[k].level = "error"
        PROVE  \E i \in DOMAIN findings : Counts(findings[i])
    <3>1. k \in DOMAIN relevant /\ SarifLevel(relevant[k]) = "error"
      BY <2>2, <2>8
    <3>2. PICK j \in I : relevant[k] = Displayed[j]
      BY <2>5, <3>1
    <3>3. PICK i \in DOMAIN findings : Displayed[j] = findings[i]
      BY <2>3, <2>4
    <3>4. findings[i].status \notin {"pass", "not_applicable"} /\ SarifLevel(findings[i]) = "error"
      BY <2>4, <3>1, <3>2, <3>3
    <3> QED BY <2>6, <3>4
  <2>9. ASSUME NEW i \in DOMAIN findings, Counts(findings[i])
        PROVE  \E k \in DOMAIN stdout.results : stdout.results[k].level = "error"
    <3>1. PICK j \in DOMAIN Displayed : Displayed[j] = findings[i]
      BY <2>3, <2>9
    <3>2. /\ findings[i].status \notin {"pass", "not_applicable"}
          /\ SarifLevel(findings[i]) = "error"
      BY <2>6, <2>9
    <3>3. PICK k \in DOMAIN relevant : relevant[k] = Displayed[j]
      BY <2>4, <2>5, <3>1, <3>2
    <3> QED BY <2>2, <3>1, <3>2, <3>3
  <2> QED BY <2>7, <2>8, <2>9
<1>2. CliSpec => []TypeOK /\ []InconclusiveInv
  BY CliImplementsRunner, TypeCorrect, RunnerInconclusive, PTL
<1> QED BY <1>1, <1>2, FlowInvariant, PTL

-----------------------------------------------------------------------------
(* A failure of severity low or more scores at least 12 tenths, any other  *)
(* finding nothing (models.py:61-73).                                      *)
LEMMA RiskOfFinding ==
    ASSUME NEW f \in FindingOf(FindingId, AreaName)
    PROVE  /\ RiskTenths(f) \in Nat
           /\ IF f.status = "fail" /\ Rank[f.severity] >= Rank["low"]
              THEN RiskTenths(f) >= 12 ELSE RiskTenths(f) = 0
<1>1. f.severity \in Severity /\ f.confidence \in Confidence
  BY DEF FindingOf
<1>2. /\ Weight[f.severity] \in Nat
      /\ IF Rank[f.severity] >= Rank["low"] THEN Weight[f.severity] >= 3 ELSE Weight[f.severity] = 0
  BY <1>1 DEF Weight, Rank, Severity
<1>3. ConfidenceTenths[f.confidence] \in Nat /\ ConfidenceTenths[f.confidence] >= 4
  BY <1>1 DEF ConfidenceTenths, Confidence
<1>4. \A w, c \in Nat : c >= 4 => w * c \in Nat /\ (w >= 3 => w * c >= 12) /\ (w = 0 => w * c = 0)
  OBVIOUS
<1> QED BY <1>2, <1>3, <1>4 DEF RiskTenths

(* A report scores 0 exactly when none of its findings fails at low.       *)
LEMMA ZeroScore ==
    ASSUME NEW report \in Seq(FindingOf(FindingId, AreaName))
    PROVE  0 \in RiskScores(report) <=> ~report_fails_at(report, "low")
<1> DEFINE D == DOMAIN report
           w == [i \in D |-> RiskTenths(report[i])]
           Fails(i) == report[i].status = "fail" /\ Rank[report[i].severity] >= Rank["low"]
           total == TotalTenths(report)
<1>1. IsFiniteSet(D)
  BY LenProperties, FS_Interval
<1>2. \A i \in D : report[i] \in FindingOf(FindingId, AreaName)
  BY ElementOfSeq, LenProperties
<1>3. w \in [D -> Nat]
  BY <1>2, RiskOfFinding
<1>4. \A i \in D : IF Fails(i) THEN w[i] >= 12 ELSE w[i] = 0
  BY <1>2, RiskOfFinding
<1>5. total = SumFunction(w)
  BY DEF TotalTenths
<1> HIDE DEF w, D
<1>6. total \in Nat /\ (\A i \in D : w[i] <= total) /\ ((\A i \in D : w[i] = 0) => total = 0)
  BY <1>1, <1>3, <1>5, SumOfNaturals
<1>7. report_fails_at(report, "low") <=> \E i \in D : Fails(i)
  BY DEF report_fails_at, D
<1> HIDE DEF Fails, total
<1>8. IF \E i \in D : Fails(i) THEN total >= 12 ELSE total = 0
  <2>1. ASSUME NEW i \in D, Fails(i) PROVE total >= 12
    <3>1. w[i] \in Nat /\ w[i] >= 12 /\ w[i] <= total
      BY <1>3, <1>4, <1>6, <2>1
    <3> QED BY <1>6, <3>1
  <2>2. (\A i \in D : ~Fails(i)) => total = 0
    BY <1>4, <1>6
  <2> QED BY <2>1, <2>2
<1> DEFINE floor == total \div 10
           nearest == CASE total % 10 < 5 -> {floor}
                        [] total % 10 = 5 -> {floor, floor + 1}
                        [] OTHER          -> {floor + 1}
<1>9. RiskScores(report) = {IF r > 100 THEN 100 ELSE r : r \in nearest}
  BY DEF RiskScores, total
<1>10. total = 0 => nearest = {0}
  OBVIOUS
<1>11. total >= 12 => \A r \in nearest : r \in Nat /\ r >= 1
  <2>1. total >= 12 => floor \in Nat /\ floor >= 1
    BY <1>6
  <2>2. \A r \in nearest : r = floor \/ r = floor + 1
    BY <1>6
  <2> HIDE DEF floor, nearest
  <2> QED BY <2>1, <2>2
<1> HIDE DEF nearest
<1> QED BY <1>7, <1>8, <1>9, <1>10, <1>11

(* The score and the exit status agree, for any number of findings.        *)
THEOREM ScoreMatchesExit == CliSpec => []ScoreAgreesWithExit
<1>1. FlowInv /\ TypeOK => ScoreAgreesWithExit
  <2> SUFFICES ASSUME FlowInv, TypeOK, stdout.format \in {"json", "text"},
                      args.fail_on = "low",
                      args.statuses = {} \/ "fail" \in args.statuses
               PROVE  0 \in stdout.risk_scores <=> exit = 0
    BY DEF ScoreAgreesWithExit
  <2>1. stdout = render_report(Displayed)
    BY PrintedReport DEF FlowInv
  <2>2. stdout.risk_scores = RiskScores(Displayed)
    BY <2>1 DEF render_report
  <2>3. exit \in {0, 1} /\ (exit = 1 <=> report_fails_at(findings, "low"))
    BY DEF FlowInv, MainInv, ExitPolicy, Nothing
  <2>4. /\ Displayed \in Seq(FindingOf(FindingId, AreaName))
        /\ \A k \in DOMAIN Displayed : \E i \in DOMAIN findings : Displayed[k] = findings[i]
        /\ \A i \in DOMAIN findings : findings[i].status = "fail" =>
              \E k \in DOMAIN Displayed : Displayed[k] = findings[i]
    BY DisplayedAreFindings
  <2>5. report_fails_at(Displayed, "low") <=> report_fails_at(findings, "low")
    BY <2>4 DEF report_fails_at
  <2> QED BY <2>2, <2>3, <2>4, <2>5, ZeroScore
<1>2. CliSpec => []TypeOK
  BY CliImplementsRunner, TypeCorrect, PTL
<1> QED BY <1>1, <1>2, FlowInvariant, PTL

=============================================================================
