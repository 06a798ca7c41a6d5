------------------------------ MODULE EtcTree ------------------------------
(***************************************************************************)
(* The checks that walk a whole directory tree (scanit/checks/filesystem.py *)
(* _inspect_etc_tree, EtcWritablePathsCheck, EtcOwnershipReviewCheck,      *)
(* SystemdUnitPermissionsCheck).                                           *)
(*                                                                         *)
(* Path.rglob is a generator: for the /etc checks it opens a directory     *)
(* only when the loop asks for the next path, so the walk is interleaved   *)
(* with the lstat calls and with other processes.  The unit check has two  *)
(* roots; it lists everything under one before it reads any metadata       *)
(* there, and has read it all before it lists the next.  How rglob treats  *)
(* a directory it cannot open is part of the model, because the checks     *)
(* rely on it.                                                             *)
(***************************************************************************)
EXTENDS Integers, FiniteSets

CONSTANTS
    Checks,           \* subset of {"writable", "ownership", "units"}
    Node,             \* the paths below the roots
    RootsOf,          \* the roots each check walks: /etc, or the unit directories
    Place,            \* the place of each root in the check's list
    Parent,           \* the directory each node is in
    Trees,            \* the metadata of every path, as a walk may find it
    ChangedMetas,     \* what another process may turn a path into
    maximum_paths,    \* bound of the walk (5000 in the code)
    evidence_limit,   \* bound of the evidence (50 in the code)
    MaxChanges        \* bound of the model: changes by other processes

Roots == UNION {RootsOf[c] : c \in Checks}

Path == Node \cup Roots

(* The entries of the error list that stand for the truncation and for the *)
(* exception that ended the walk.                                          *)
Limit == "limit"
Broken == "broken"

(* kind: absent; denied, an entry whose lstat is refused; dir, unlistable, *)
(* file, link or special (neither file nor directory).                     *)
Meta == [kind : {"absent", "denied", "dir", "unlistable", "file", "link", "special"},
         root_owned : BOOLEAN, other_write : BOOLEAN]

ASSUME EtcTreeAssumption ==
    /\ Checks \subseteq {"writable", "ownership", "units"}
    /\ DOMAIN RootsOf = Checks /\ Roots \cap Node = {}
    /\ Place \in [Roots -> Nat]
    /\ {Limit, Broken} \cap Path = {} /\ Limit # Broken
    /\ Parent \in [Node -> Path]
    /\ Trees \subseteq [Path -> Meta]
    /\ ChangedMetas \subseteq Meta
    /\ maximum_paths \in Nat /\ evidence_limit \in Nat /\ MaxChanges \in Nat

VARIABLES
    check,        \* the check that runs
    fs,           \* the metadata of every path, now
    stage,        \* start, walk, report or done
    waiting,      \* roots that are directories and were not walked yet
    unopened,     \* directories rglob knows of and has not listed
    queue,        \* paths rglob has produced, or will, that are not yet tested
    metadata,     \* [path -> metadata] of the inspected paths
    errors,       \* the entries of the error list: paths, Limit or Broken
    finding,      \* the finding
    changes,      \* number of changes other processes have made
    walked,       \* history: directories listed
    steady        \* history: paths whose metadata has not changed

vars == <<check, fs, stage, waiting, unopened, queue, metadata, errors, finding, changes, walked, steady>>

IsDir(m) == m.kind \in {"dir", "unlistable"}

Children(d) == {p \in Node : Parent[p] = d /\ fs[p].kind # "absent"}

Inspected == DOMAIN metadata

-----------------------------------------------------------------------------
(* What each check reports of an inspected path.                           *)
Violates(c, m) ==
    CASE c = "writable"  -> m.other_write
      [] c = "ownership" -> ~m.root_owned /\ ~m.other_write
      [] c = "units"     -> ~m.root_owned \/ m.other_write

Items == {p \in Inspected : Violates(check, metadata[p])}

Smaller(a, b) == IF a <= b THEN a ELSE b

(* Mutant: all items are given.                                            *)
UnboundedEvidence(n, e) == [size |-> n + e, omitted |-> FALSE]

(* The number of entries _bounded_evidence makes of n items and e errors:  *)
(* the first items, a line for the omitted ones, and errors if room is     *)
(* left.                                                                   *)
BoundedEvidence(n, e) ==
    LET shown == Smaller(n, evidence_limit) + (IF n > evidence_limit THEN 1 ELSE 0)
        room  == IF shown <= evidence_limit THEN evidence_limit - shown ELSE 0
    IN  [size |-> shown + Smaller(e, room), omitted |-> n > evidence_limit]

Finding(status, severity, confidence, size, omitted) ==
    [status |-> status, severity |-> severity, confidence |-> confidence,
     size |-> size, omitted |-> omitted]

NoFinding == Finding("none", "info", "high", 0, FALSE)

NotADirectory(c) ==
    IF c = "units" THEN Finding("unknown", "info", "low", 0, FALSE)
                   ELSE Finding("not_applicable", "info", "medium", 0, FALSE)

(* An exception of rglob leaves the unit check: the runner's error.        *)
RunnerError == Finding("error", "info", "high", 0, FALSE)

Positive(c) ==
    CASE c = "writable"  -> [status |-> "fail", severity |-> "high"]
      [] c = "ownership" -> [status |-> "review", severity |-> "medium"]
      [] c = "units"     -> [status |-> "fail", severity |-> "critical"]

(* Without items the writable check puts every error into its evidence,    *)
(* the other two no more than the limit.                                   *)
Closing ==
    LET n == Cardinality(Items)
        e == Cardinality(errors)
        bounded == BoundedEvidence(n, e)
    IN  CASE n > 0 ->
                Finding(Positive(check).status, Positive(check).severity,
                        IF e > 0 THEN "medium" ELSE "high", bounded.size, bounded.omitted)
          [] n = 0 /\ e > 0 ->
                Finding("unknown", "info", "low",
                        IF check = "writable" THEN e ELSE Smaller(e, evidence_limit), FALSE)
          [] n = 0 /\ e = 0 -> Finding("pass", "info", "high", 0, FALSE)

-----------------------------------------------------------------------------
Init ==
    /\ check \in Checks
    /\ fs \in Trees
    /\ stage = "start"
    /\ waiting = {}
    /\ unopened = {}
    /\ queue = {}
    /\ metadata = <<>>
    /\ errors = {}
    /\ finding = NoFinding
    /\ changes = 0
    /\ walked = {}
    /\ steady = Path

(* Which of the roots are directories.                                     *)
Begin ==
    /\ stage = "start"
    /\ LET present == {r \in RootsOf[check] : IsDir(fs[r])}
       IN  IF present # {}
           THEN /\ stage' = "walk"
                /\ waiting' = present
                /\ UNCHANGED finding
           ELSE /\ stage' = "done"
                /\ finding' = NotADirectory(check)
                /\ UNCHANGED waiting
    /\ UNCHANGED <<check, fs, unopened, queue, metadata, errors, changes, walked, steady>>

(* Mutant: the list is made anew for every root.                           *)
NextRootAfresh(r) ==
    /\ stage = "walk"
    /\ unopened = {} /\ queue = {}
    /\ r \in waiting /\ \A q \in waiting : Place[r] <= Place[q]
    /\ waiting' = waiting \ {r}
    /\ unopened' = {r}
    /\ queue' = IF check = "units" THEN {r} ELSE {}
    /\ metadata' = <<>>
    /\ UNCHANGED <<check, fs, stage, errors, finding, changes, walked, steady>>

(* The walk of the next root, in the order of the check's list; the unit   *)
(* check inspects the root too.                                            *)
NextRoot(r) ==
    /\ stage = "walk"
    /\ unopened = {} /\ queue = {}
    /\ r \in waiting /\ \A q \in waiting : Place[r] <= Place[q]
    /\ waiting' = waiting \ {r}
    /\ unopened' = {r}
    /\ queue' = IF check = "units" THEN {r} ELSE {}
    /\ UNCHANGED <<check, fs, stage, metadata, errors, finding, changes, walked, steady>>

(* rglob lists the next directory.  A directory it may not read is skipped *)
(* without an exception.  Which entries are directories comes with the     *)
(* listing (d_type), so both are one step.                                 *)
OpenDirectory(d) ==
    /\ stage = "walk"
    /\ d \in unopened
    /\ IsDir(fs[d])
    /\ unopened' = (unopened \ {d}) \cup
                   (IF fs[d].kind = "dir" THEN {p \in Children(d) : IsDir(fs[p])} ELSE {})
    /\ queue' = IF fs[d].kind = "dir" THEN queue \cup Children(d) ELSE queue
    /\ walked' = IF fs[d].kind = "dir" THEN walked \cup {d} ELSE walked
    /\ UNCHANGED <<check, fs, stage, waiting, metadata, errors, finding, changes, steady>>

(* A directory that has vanished, or become a file, since rglob learnt of  *)
(* it: Python 3.13 and later skip it, earlier ones raise the OSError.  The *)
(* /etc walk ends with an error entry, the unit check with an exception.   *)
SkipVanished(d) ==
    /\ stage = "walk"
    /\ d \in unopened
    /\ ~IsDir(fs[d])
    /\ unopened' = unopened \ {d}
    /\ UNCHANGED <<check, fs, stage, waiting, queue, metadata, errors, finding, changes, walked, steady>>

(* Mutant: the exception is swallowed.                                     *)
WalkAbortsQuietly(d) ==
    /\ stage = "walk"
    /\ d \in unopened
    /\ ~IsDir(fs[d])
    /\ stage' = "report"
    /\ UNCHANGED <<check, fs, waiting, unopened, queue, metadata, errors, finding, changes, walked, steady>>

WalkAborts(d) ==
    /\ stage = "walk"
    /\ d \in unopened
    /\ ~IsDir(fs[d])
    /\ IF check = "units"
       THEN /\ stage' = "done"
            /\ finding' = RunnerError
            /\ UNCHANGED errors
       ELSE /\ stage' = "report"
            /\ errors' = errors \cup {Broken}
            /\ UNCHANGED finding
    /\ UNCHANGED <<check, fs, waiting, unopened, queue, metadata, changes, walked, steady>>

(* The /etc walk takes paths while rglob goes on; the unit check has the   *)
(* whole list first and no limit on it.                                    *)
MayInspect(p) ==
    /\ stage = "walk"
    /\ p \in queue
    /\ check = "units" => unopened = {}

(* Mutant: the limit is one too low.                                       *)
LimitReachedEarly == check # "units" /\ Cardinality(Inspected) + 1 >= maximum_paths

LimitReached == check # "units" /\ Cardinality(Inspected) >= maximum_paths

(* Mutant: a path that could not be read is tried again.                   *)
InspectRetrying(p) ==
    /\ MayInspect(p)
    /\ ~LimitReached
    /\ fs[p].kind \notin {"absent", "denied"}
    /\ queue' = queue \ {p}
    /\ metadata' = IF fs[p].kind \in {"link", "special"} THEN metadata
                   ELSE [q \in Inspected \cup {p} |-> IF q = p THEN fs[p] ELSE metadata[q]]
    /\ UNCHANGED <<check, fs, stage, waiting, unopened, errors, finding, changes, walked, steady>>

Inspect(p) ==
    /\ MayInspect(p)
    /\ ~LimitReached
    /\ queue' = queue \ {p}
    /\ CASE fs[p].kind \in {"absent", "denied"} ->
                errors' = errors \cup {p} /\ UNCHANGED metadata
         [] fs[p].kind \in {"link", "special"} ->
                UNCHANGED <<errors, metadata>>
         [] OTHER ->
                /\ metadata' = [q \in Inspected \cup {p} |->
                                    IF q = p THEN fs[p] ELSE metadata[q]]
                /\ UNCHANGED errors
    /\ UNCHANGED <<check, fs, stage, waiting, unopened, finding, changes, walked, steady>>

StopAtLimit(p) ==
    /\ MayInspect(p)
    /\ LimitReached
    /\ errors' = errors \cup {Limit}
    /\ stage' = "report"
    /\ UNCHANGED <<check, fs, waiting, unopened, queue, metadata, finding, changes, walked, steady>>

WalkEnds ==
    /\ stage = "walk"
    /\ waiting = {} /\ unopened = {} /\ queue = {}
    /\ stage' = "report"
    /\ UNCHANGED <<check, fs, waiting, unopened, queue, metadata, errors, finding, changes, walked, steady>>

(* Mutant: the check goes on after it has its finding.                     *)
ReportAndGoOn ==
    /\ stage = "report"
    /\ finding' = Closing
    /\ UNCHANGED <<check, fs, stage, waiting, unopened, queue, metadata, errors, changes, walked, steady>>

Report ==
    /\ stage = "report"
    /\ stage' = "done"
    /\ finding' = Closing
    /\ UNCHANGED <<check, fs, waiting, unopened, queue, metadata, errors, changes, walked, steady>>

(* Another process changes, creates or removes a path; what is below a     *)
(* removed directory goes with it.                                         *)
Change(p) ==
    /\ stage \in {"start", "walk"}
    /\ changes < MaxChanges
    /\ changes' = changes + 1
    /\ \E m \in ChangedMetas :
          /\ m # fs[p]
          /\ fs' = [q \in Path |->
                        IF q = p THEN m
                        ELSE IF q \in Node /\ Parent[q] = p /\ m.kind \notin {"dir", "unlistable"}
                             THEN [fs[q] EXCEPT !.kind = "absent"] ELSE fs[q]]
    /\ steady' = {q \in steady : fs'[q] = fs[q]}
    /\ UNCHANGED <<check, stage, waiting, unopened, queue, metadata, errors, finding, walked>>

CheckStep ==
    \/ Begin \/ WalkEnds \/ Report
    \/ \E r \in Roots : NextRoot(r)
    \/ \E d \in Path : OpenDirectory(d) \/ SkipVanished(d) \/ WalkAborts(d)
    \/ \E p \in Path : Inspect(p) \/ StopAtLimit(p)

Next == CheckStep \/ \E p \in Node : Change(p)

Spec == Init /\ [][Next]_vars

FairSpec == Spec /\ WF_vars(CheckStep)

-----------------------------------------------------------------------------
TypeOK ==
    /\ check \in Checks
    /\ fs \in [Path -> Meta]
    /\ stage \in {"start", "walk", "report", "done"}
    /\ waiting \subseteq Roots /\ unopened \subseteq Path /\ queue \subseteq Path /\ walked \subseteq Path
    /\ Inspected \subseteq Path /\ \A p \in Inspected : metadata[p] \in Meta
    /\ errors \subseteq Path \cup {Limit, Broken}
    /\ finding.status # "none" <=> stage = "done"

Reported(status) == stage = "done" /\ finding.status = status

ReadableThroughout(d) == d \in steady /\ fs[d].kind = "dir"

(* A path is in plain sight if it and the directories above it did not     *)
(* change during the walk and those directories may be read.               *)
InPlainSight(p) ==
    /\ p \in steady /\ ReadableThroughout(Parent[p])
    /\ \/ Parent[p] \in RootsOf[check]
       \/ /\ Parent[p] \in Node /\ ReadableThroughout(Parent[Parent[p]])
          /\ Parent[Parent[p]] \in RootsOf[check]

(* No exposure in plain sight passes: however the walk is interleaved with *)
(* other processes, cut short by its limit or broken off by an exception,  *)
(* a violating path that could be seen all along never ends in a pass      *)
(* (filesystem.py:22-42, 376-400).                                         *)
PlainSightNeverPasses ==
    Reported("pass") => \A p \in Node :
        ~(InPlainSight(p) /\ fs[p].kind \in {"file", "dir"} /\ Violates(check, fs[p]))

(* The limit is honoured and owned up to: the /etc walk never reads more   *)
(* than maximum_paths entries, and if it leaves out one it knows of it     *)
(* never claims a pass, nor high confidence.  The other way round, a tree  *)
(* that is no larger than the limit is never called truncated: exactly     *)
(* maximum_paths entries are a complete inspection (filesystem.py:26-28).  *)
TruncationIsVisible ==
    /\ check # "units" => Cardinality(Inspected) <= maximum_paths
    /\ stage = "done" /\ queue # {} =>
          finding.status # "pass" /\ (finding.status \in {"fail", "review"} =>
                                          finding.confidence # "high")
    /\ Limit \in errors => Cardinality(Inspected) = maximum_paths /\ queue # {}

(* What a failure or review says was read from the file system during the  *)
(* walk, and its evidence is bounded, whatever the size of the tree        *)
(* (filesystem.py:45-50, 194-198).                                         *)
FindingsAreBounded ==
    finding.status \in {"fail", "review"} =>
        /\ Items # {}
        /\ finding.size <= evidence_limit + 1
        /\ finding.omitted <=> Cardinality(Items) > evidence_limit

(* A walk that broke off is reported: as an error entry of the finding or, *)
(* for the unit check, as the runner's error; never as a pass, though the  *)
(* other root was clean.  What was found by then is lost only with such an *)
(* error: it never ends in a pass, an unknown or a not applicable          *)
(* (filesystem.py:40-42, 178-185, runner.py:17-27).                        *)
BrokenWalkIsVisible ==
    stage = "done" =>
        /\ waiting \cup unopened # {} =>
              \/ finding.status \in {"error", "unknown"}
              \/ finding.status \in {"fail", "review"} /\ finding.confidence = "medium"
        /\ Items # {} =>
              \/ finding.status \in {"fail", "review"}
              \/ finding.status = "error" /\ check = "units" /\ unopened # {}

(* The walk ends although the tree changes under it.                       *)
Ends == <>(stage = "done")

-----------------------------------------------------------------------------
(* README.md:63-64, "Checks that cannot obtain enough evidence report      *)
(* `unknown` or `error`; they do not silently pass": a directory of the    *)
(* tree that could not be read is not passed over in silence.              *)
UnreadableNeverPasses ==
    Reported("pass") => \A p \in Inspected : fs[p].kind = "unlistable" => p \in walked

=============================================================================
