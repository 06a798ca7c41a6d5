----------------------------- MODULE Comparison -----------------------------
(***************************************************************************)
(* Comparing a report with a prior one (scanit/comparison.py).             *)
(*                                                                         *)
(* A baseline document is what json.loads made of the saved file: a list   *)
(* of items under "findings", or something else.  An item is a finding     *)
(* (a record with a check_id and a status) or Malformed.                   *)
(***************************************************************************)
EXTENDS Findings

CONSTANTS
    Malformed,      \* an item that is no object, or lacks check_id or status
    NotAReport      \* a document without a list of findings

Absent == "absent"  \* what previous.get(check_id) yields for an unseen identifier

(* {item.check_id: item.status for item in items}: the last item with an   *)
(* identifier wins.                                                        *)
StatusById(items) ==
    LET Ids  == {items[i].check_id : i \in DOMAIN items}
        Last(id) == CHOOSE i \in DOMAIN items :
                        /\ items[i].check_id = id
                        /\ \A j \in DOMAIN items : items[j].check_id = id => j <= i
    IN  [id \in Ids |-> items[Last(id)].status]

Get(statuses, id) == IF id \in DOMAIN statuses THEN statuses[id] ELSE Absent

WithStatus(statuses, S) == {id \in DOMAIN statuses : statuses[id] \in S}

(* The findings list is usable: anything else raises a ValueError, which   *)
(* main turns into a usage error.                                          *)
UsableBaseline(document) ==
    /\ document # NotAReport
    /\ \A i \in DOMAIN document : document[i] # Malformed

(* Mutant: only a pass is worth keeping.                                   *)
EstablishedPasses == {"pass"}

Established == {"pass", "fail", "review"}

Incomplete == {"unknown", "error"}

(* Mutants of the comparison: what was not scanned is resolved; a failure  *)
(* is new only if the baseline knew the finding; only a pass resolves; a   *)
(* review is new unless it was a failure.                                  *)
DeltaWith(now, before, new, resolved, reviews) ==
    [new_failures |-> new, resolved_failures |-> resolved, new_reviews |-> reviews,
     coverage_regressions |->
        {id \in WithStatus(now, Incomplete) : Get(before, id) \in Established}]

NewIn(now, before, status) ==
    {id \in WithStatus(now, {status}) : Get(before, id) # status}

ResolvedIn(now, before) ==
    {id \in WithStatus(before, {"fail"}) : Get(now, id) \notin {"fail", Absent}}

DeltaOfUnscanned(now, before) ==
    DeltaWith(now, before, NewIn(now, before, "fail"),
              {id \in WithStatus(before, {"fail"}) : Get(now, id) # "fail"},
              NewIn(now, before, "review"))

DeltaOfKnown(now, before) ==
    DeltaWith(now, before, NewIn(now, before, "fail") \cap DOMAIN before,
              ResolvedIn(now, before), NewIn(now, before, "review"))

DeltaOfPasses(now, before) ==
    DeltaWith(now, before, NewIn(now, before, "fail"),
              {id \in WithStatus(before, {"fail"}) : Get(now, id) = "pass"},
              NewIn(now, before, "review"))

DeltaOfReviews(now, before) ==
    DeltaWith(now, before, NewIn(now, before, "fail"), ResolvedIn(now, before),
              {id \in WithStatus(now, {"review"}) : Get(before, id) # "fail"})

Delta(now, before) ==
    [new_failures |->
        {id \in WithStatus(now, {"fail"}) : Get(before, id) # "fail"},
     resolved_failures |->
        {id \in WithStatus(before, {"fail"}) :
            id \in DOMAIN now /\ now[id] # "fail"},
     new_reviews |->
        {id \in WithStatus(now, {"review"}) : Get(before, id) # "review"},
     coverage_regressions |->
        {id \in WithStatus(now, Incomplete) : Get(before, id) \in Established}]

(* The deltas that mention only identifiers of Ids.                        *)
DeltaOver(Ids) ==
    [new_failures : SUBSET Ids, resolved_failures : SUBSET Ids,
     new_reviews : SUBSET Ids, coverage_regressions : SUBSET Ids]

compare_with_baseline(current, document) ==
    Delta(StatusById(current), StatusById(document))

=============================================================================
