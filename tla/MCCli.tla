------------------------------- MODULE MCCli -------------------------------
(***************************************************************************)
(* The command line over a registry of three checks: a browser check that  *)
(* passes or asks for review with high severity, a system check whose      *)
(* failures have every severity and confidence that matters to the score,  *)
(* and one that reports two findings, each under an identifier of its own. *)
(***************************************************************************)
EXTENDS Cli

MCCheck == {"extensions", "updates", "tree"}

MCAreaOf == [c \in MCCheck |->
    CASE c = "extensions" -> "browser" [] c = "updates" -> "software" [] OTHER -> "filesystem"]

MCFindingId == MCCheck \cup {"tree.owners"}

One(c, status, severity, confidence) == Finding(c, MCAreaOf[c], status, severity, confidence)

Owners(status, severity, confidence) ==
    Finding("tree.owners", "filesystem", status, severity, confidence)

MCReturns == [c \in MCCheck |->
    CASE c = "extensions" ->
            {<<One(c, "pass", "info", "high")>>, <<One(c, "review", "high", "medium")>>}
      [] c = "updates" ->
            {<<One(c, "unknown", "info", "high")>>, <<One(c, "fail", "low", "low")>>,
             <<One(c, "fail", "medium", "medium")>>}
      [] OTHER ->
            {<<One(c, "pass", "info", "high"), Owners("not_applicable", "info", "high")>>,
             <<One(c, "fail", "high", "medium"), Owners("review", "low", "high")>>,
             <<One(c, "review", "medium", "medium"), Owners("fail", "critical", "low")>>}]

MCRegistry == <<"extensions", "updates", "tree">>

MCSelections == {SelectSeq(MCRegistry, LAMBDA c : c \in S) : S \in SUBSET MCCheck}

Plain ==
    [scope |-> "all", areas |-> {}, ids |-> {}, statuses |-> {}, list |-> FALSE,
     baseline |-> FALSE, format |-> "text", fail_on |-> "low", root |-> FALSE]

(* Every combination of filters, with plain output.                        *)
SelectingInvocations ==
    {[Plain EXCEPT !.scope = scope, !.areas = areas, !.ids = ids, !.list = list, !.root = root] :
        scope \in {"all", "browser", "system"},
        areas \in {{}, {"browser"}, {"software"}, {"software", "missing"}},
        ids \in {{}, {"extensions"}, {"missing"}, {"updates", "tree"}},
        list \in BOOLEAN, root \in BOOLEAN}

(* Every combination of outputs, over the whole registry.                  *)
ReportingInvocations ==
    {[Plain EXCEPT !.format = format, !.statuses = statuses, !.baseline = baseline,
                   !.fail_on = threshold] :
        format \in {"json", "sarif", "text"},
        statuses \in {{}, {"fail"}, {"pass", "unknown", "error"}},
        baseline \in BOOLEAN,
        threshold \in {"low", "high", "none"}}

MCInvocations == SelectingInvocations \cup ReportingInvocations

MCUnencodables == {{}, {"tree"}}

(* A baseline that agrees, one from another machine, one written by hand   *)
(* with an item twice, and two that are no baseline.                       *)
MCBaselineDocs ==
    {<<One("extensions", "review", "high", "medium"), One("tree", "pass", "info", "high")>>,
     <<[check_id |-> "elsewhere", status |-> "fail"],
       [check_id |-> "updates", status |-> "fail"], [check_id |-> "updates", status |-> "pass"]>>,
     <<[check_id |-> "updates", status |-> "fail"], Malformed>>,
     NotAReport}

=============================================================================
