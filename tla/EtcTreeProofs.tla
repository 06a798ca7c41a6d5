--------------------------- MODULE EtcTreeProofs ---------------------------
(***************************************************************************)
(* The tree checks for any tree, any limits and any number of changes that *)
(* other processes make while the walk goes on.                            *)
(***************************************************************************)
EXTENDS EtcTree, FiniteSetTheorems, TLAPS

(* The types of the state, without the finding.                            *)
Types ==
    /\ check \in Checks
    /\ fs \in [Path -> Meta]
    /\ stage \in {"start", "walk", "report", "done"}
    /\ waiting \subseteq Roots /\ unopened \subseteq Path /\ queue \subseteq Path /\ walked \subseteq Path
    /\ Inspected \subseteq Path /\ \A p \in Inspected : metadata[p] \in Meta
    /\ errors \subseteq Path \cup {Limit, Broken}
    /\ IsFiniteSet(Inspected) /\ IsFiniteSet(errors)

(* Nothing is left to list or to inspect.                                  *)
Complete == waiting = {} /\ unopened = {} /\ queue = {}

(* Where the finding comes from.                                           *)
Concluded ==
    /\ stage = "start" => Complete /\ Inspected = {}
    /\ stage # "done" => finding = NoFinding
    /\ stage = "done" =>
          \/ finding = Closing
          \/ finding = NotADirectory(check) /\ Complete /\ Inspected = {}
          \/ finding = RunnerError /\ check = "units" /\ unopened # {}

(* A walk that has left something out has an error to show for it.         *)
Accounted ==
    /\ stage = "report" => Complete \/ errors # {}
    /\ stage = "done" /\ finding = Closing => Complete \/ errors # {}

(* The limit: never exceeded, and named only when it was met.              *)
Limited ==
    /\ check # "units" => Cardinality(Inspected) <= maximum_paths
    /\ Limit \in errors =>
          /\ stage \in {"report", "done"}
          /\ Cardinality(Inspected) = maximum_paths /\ queue # {}

(* What the walk owes to a path that has not changed: it is still to be    *)
(* inspected, or was inspected as it is now, or an error was noted.        *)
Owed(p) ==
    p \in steady /\ fs[p].kind \in {"file", "dir"} =>
        \/ p \in queue
        \/ p \in Inspected /\ metadata[p] = fs[p]
        \/ errors # {}

(* A directory that is known and readable throughout is still to be        *)
(* listed, or all of its children are known.                               *)
Listed(d) == d \in unopened \/ \A p \in Node : Parent[p] = d => Owed(p)

(* A root that is readable throughout waits for its walk, or it and the    *)
(* readable directories in it are listed.                                  *)
RootKnown(r) ==
    /\ Listed(r)
    /\ r \notin unopened =>
          \A d \in Node : Parent[d] = r /\ ReadableThroughout(d) => Listed(d)

Known ==
    stage \in {"walk", "report", "done"} =>
        \A r \in RootsOf[check] : ReadableThroughout(r) => r \in waiting \/ RootKnown(r)

Inductive ==
    Types /\ Concluded /\ Accounted /\ Limited /\ Known /\ steady \subseteq Path

-----------------------------------------------------------------------------
LEMMA InitInductive == Init => Inductive
<1> SUFFICES ASSUME Init PROVE Inductive
  OBVIOUS
<1> USE EtcTreeAssumption
<1>1. fs \in [Path -> Meta]
  BY DEF Init
<1>2. Inspected = {} /\ errors = {}
  BY DEF Init, Inspected
<1>3. IsFiniteSet(Inspected) /\ IsFiniteSet(errors) /\ Cardinality(Inspected) = 0
  BY <1>2, FS_EmptySet
<1>4. Types
  BY <1>1, <1>2, <1>3 DEF Init, Types
<1>5. Concluded /\ Accounted /\ Known
  BY <1>2 DEF Init, Concluded, Accounted, Known, Complete
<1>6. Limited
  BY <1>2, <1>3 DEF Init, Limited
<1> QED
  BY <1>4, <1>5, <1>6 DEF Init, Inductive

(* To look at a path keeps the sets finite.                                *)
LEMMA NextTypes == Types /\ [Next]_vars => Types'
<1> SUFFICES ASSUME Types, [Next]_vars PROVE Types'
  OBVIOUS
<1> USE EtcTreeAssumption DEF Types, Inspected
<1>1. CASE Begin
  <2>1. \A r \in RootsOf[check] : r \in Roots
    BY DEF Roots
  <2> QED BY <1>1, <2>1 DEF Begin
<1>2. CASE WalkEnds \/ Report
  BY <1>2 DEF WalkEnds, Report
<1>9. ASSUME NEW r \in Roots, NextRoot(r) PROVE Types'
  BY <1>9 DEF NextRoot, Path
<1>3. ASSUME NEW d \in Path, OpenDirectory(d) \/ SkipVanished(d) \/ StopAtLimit(d)
      PROVE  Types'
  <2>1. IsFiniteSet(errors \cup {Limit})
    BY FS_AddElement
  <2>2. \A e : Children(e) \subseteq Path
    BY DEF Children, Path
  <2> QED BY <1>3, <2>1, <2>2 DEF OpenDirectory, SkipVanished, StopAtLimit
<1>4. ASSUME NEW d \in Path, WalkAborts(d) PROVE Types'
  <2>1. IsFiniteSet(errors \cup {Broken})
    BY FS_AddElement
  <2> QED BY <1>4, <2>1 DEF WalkAborts
<1>5. ASSUME NEW p \in Path, Inspect(p) PROVE Types'
  <2>1. IsFiniteSet(errors \cup {p}) /\ IsFiniteSet(DOMAIN metadata \cup {p})
    BY FS_AddElement
  <2>2. fs[p] \in Meta
    OBVIOUS
  <2>3. CASE fs[p].kind \in {"absent", "denied"}
    BY <1>5, <2>1, <2>3 DEF Inspect
  <2>4. CASE fs[p].kind \in {"link", "special"}
    BY <1>5, <2>4 DEF Inspect
  <2>5. CASE fs[p].kind \notin {"absent", "denied", "link", "special"}
    BY <1>5, <2>1, <2>2, <2>5 DEF Inspect
  <2> QED BY <2>3, <2>4, <2>5
<1>6. ASSUME NEW p \in Node, Change(p) PROVE Types'
  <2>1. PICK m \in ChangedMetas :
           fs' = [q \in Path |->
                    IF q = p THEN m
                    ELSE IF q \in Node /\ Parent[q] = p /\ m.kind \notin {"dir", "unlistable"}
                         THEN [fs[q] EXCEPT !.kind = "absent"] ELSE fs[q]]
    BY <1>6 DEF Change
  <2>2. \A q \in Path : [fs[q] EXCEPT !.kind = "absent"] \in Meta
    BY DEF Meta
  <2>3. fs' \in [Path -> Meta]
    BY <2>1, <2>2
  <2> QED BY <1>6, <2>3 DEF Change
<1>7. CASE UNCHANGED vars
  BY <1>7 DEF vars
<1> QED
  BY <1>1, <1>2, <1>3, <1>4, <1>5, <1>6, <1>7, <1>9 DEF Next, CheckStep

(* The finding is made once, from what the check has read by then.         *)
LEMMA NextConcluded == Concluded /\ [Next]_vars => Concluded'
<1> SUFFICES ASSUME Concluded, [Next]_vars PROVE Concluded'
  OBVIOUS
<1> USE DEF Concluded, Inspected, Complete
<1>1. CASE Begin
  BY <1>1 DEF Begin
<1>8. ASSUME NEW r \in Roots, NextRoot(r) PROVE Concluded'
  BY <1>8 DEF NextRoot
<1>2. CASE WalkEnds
  BY <1>2 DEF WalkEnds
<1>3. CASE Report
  <2>1. check' = check /\ metadata' = metadata /\ errors' = errors
    BY <1>3 DEF Report
  <2>2. Closing' = Closing
    BY <2>1 DEF Closing, Items, Inspected
  <2> QED BY <1>3, <2>2 DEF Report
<1>4. ASSUME NEW d \in Path,
             OpenDirectory(d) \/ SkipVanished(d) \/ WalkAborts(d) \/ StopAtLimit(d)
      PROVE  Concluded'
  BY <1>4 DEF OpenDirectory, SkipVanished, WalkAborts, StopAtLimit, MayInspect, RunnerError
<1>5. ASSUME NEW p \in Path, Inspect(p) PROVE Concluded'
  BY <1>5 DEF Inspect, MayInspect
<1>6. ASSUME NEW p \in Node, Change(p) PROVE Concluded'
  BY <1>6 DEF Change
<1>7. CASE UNCHANGED vars
  <2>1. Closing' = Closing
    BY <1>7 DEF vars, Closing, Items, Inspected
  <2> QED BY <1>7, <2>1 DEF vars
<1> QED
  BY <1>1, <1>2, <1>3, <1>4, <1>5, <1>6, <1>7, <1>8 DEF Next, CheckStep

(* What the closing finding says, by what there is to report.              *)
LEMMA ClosingCases ==
    ASSUME Types
    PROVE  /\ Items # {} =>
                /\ Closing.status \in {"fail", "review"}
                /\ Closing.confidence = IF errors # {} THEN "medium" ELSE "high"
                /\ Closing.size = BoundedEvidence(Cardinality(Items), Cardinality(errors)).size
                /\ Closing.omitted = (Cardinality(Items) > evidence_limit)
           /\ Items = {} /\ errors # {} => Closing.status = "unknown"
           /\ Items = {} /\ errors = {} => Closing.status = "pass"
           /\ Closing.status \in {"fail", "review", "unknown", "pass"}
           /\ Cardinality(Items) \in Nat /\ Cardinality(errors) \in Nat
<1> DEFINE n == Cardinality(Items)
           e == Cardinality(errors)
<1>1. IsFiniteSet(Items) /\ IsFiniteSet(errors)
  BY FS_Subset DEF Types, Items
<1>2. n \in Nat /\ e \in Nat /\ (n = 0 <=> Items = {}) /\ (e = 0 <=> errors = {})
  BY <1>1, FS_CardinalityType, FS_EmptySet
<1>3. check \in {"writable", "ownership", "units"}
  BY EtcTreeAssumption DEF Types
<1> HIDE DEF n, e
<1>4. CASE Items # {}
  <2>1. n > 0
    BY <1>2, <1>4
  <2>2. Closing = Finding(Positive(check).status, Positive(check).severity,
                          IF e > 0 THEN "medium" ELSE "high",
                          BoundedEvidence(n, e).size, BoundedEvidence(n, e).omitted)
    <3>1. ~(n = 0 /\ e > 0) /\ ~(n = 0 /\ e = 0)
      BY <2>1, <1>2
    <3>2. Closing = LET bounded == BoundedEvidence(n, e)
                    IN  CASE n > 0 ->
                                Finding(Positive(check).status, Positive(check).severity,
                                        IF e > 0 THEN "medium" ELSE "high",
                                        bounded.size, bounded.omitted)
                          [] n = 0 /\ e > 0 ->
                                Finding("unknown", "info", "low",
                                        IF check = "writable" THEN e
                                        ELSE Smaller(e, evidence_limit), FALSE)
                          [] n = 0 /\ e = 0 -> Finding("pass", "info", "high", 0, FALSE)
      BY DEF Closing, n, e
    <3> HIDE DEF Positive, Finding, BoundedEvidence, Smaller
    <3> QED BY <2>1, <3>1, <3>2
  <2>3. Positive(check).status \in {"fail", "review"}
    BY <1>3 DEF Positive
  <2>4. BoundedEvidence(n, e).omitted = (n > evidence_limit)
    BY DEF BoundedEvidence
  <2>5. e > 0 <=> errors # {}
    BY <1>2
  <2> QED BY <1>2, <1>4, <2>2, <2>3, <2>4, <2>5 DEF Finding, n, e
<1>5. CASE Items = {}
  <2>1. n = 0
    BY <1>2, <1>5
  <2>2. CASE errors # {}
    <3>1. e > 0
      BY <1>2, <2>2
    <3>2. Closing.status = "unknown"
      BY <2>1, <3>1 DEF Closing, Finding, n, e
    <3> QED BY <1>2, <1>5, <2>2, <3>2 DEF n, e
  <2>3. CASE errors = {}
    <3>1. e = 0
      BY <1>2, <2>3
    <3>2. Closing.status = "pass"
      BY <2>1, <3>1 DEF Closing, Finding, n, e
    <3> QED BY <1>2, <1>5, <2>3, <3>2 DEF n, e
  <2> QED BY <2>2, <2>3
<1> QED BY <1>4, <1>5

(* A walk ends complete, or with an error.                                 *)
LEMMA NextAccounted == Types /\ Concluded /\ Accounted /\ [Next]_vars => Accounted'
<1> SUFFICES ASSUME Types, Concluded, Accounted, [Next]_vars PROVE Accounted'
  OBVIOUS
<1> USE DEF Types, Accounted, Complete
<1>1. CASE Begin
  <2>1. CASE \E r \in RootsOf[check] : IsDir(fs[r])
    BY <1>1, <2>1 DEF Begin
  <2>2. CASE ~\E r \in RootsOf[check] : IsDir(fs[r])
    BY <1>1, <2>2 DEF Begin, Concluded
  <2> QED BY <2>1, <2>2
<1>9. ASSUME NEW r \in Roots, NextRoot(r) PROVE Accounted'
  BY <1>9 DEF NextRoot
<1>2. CASE WalkEnds
  BY <1>2 DEF WalkEnds
<1>3. CASE Report
  BY <1>3 DEF Report
<1>4. ASSUME NEW d \in Path, OpenDirectory(d) \/ SkipVanished(d) \/ StopAtLimit(d)
      PROVE  Accounted'
  BY <1>4 DEF OpenDirectory, SkipVanished, StopAtLimit, MayInspect
<1>5. ASSUME NEW d \in Path, WalkAborts(d) PROVE Accounted'
  <2>1. CASE check = "units"
    <3>1. Closing' = Closing
      BY <1>5, <2>1 DEF WalkAborts, Closing, Items, Inspected
    <3>2. finding' # Closing
      BY <1>5, <2>1, ClosingCases DEF WalkAborts, RunnerError, Finding
    <3> QED BY <1>5, <2>1, <3>1, <3>2 DEF WalkAborts
  <2>2. CASE check # "units"
    BY <1>5, <2>2 DEF WalkAborts
  <2> QED BY <2>1, <2>2
<1>6. ASSUME NEW p \in Path, Inspect(p) PROVE Accounted'
  BY <1>6 DEF Inspect, MayInspect
<1>7. ASSUME NEW p \in Node, Change(p) PROVE Accounted'
  BY <1>7 DEF Change
<1>8. CASE UNCHANGED vars
  <2>1. Closing' = Closing
    BY <1>8 DEF vars, Closing, Items, Inspected
  <2> QED BY <1>8, <2>1 DEF vars
<1> QED
  BY <1>1, <1>2, <1>3, <1>4, <1>5, <1>6, <1>7, <1>8, <1>9 DEF Next, CheckStep

(* One more inspected path is at most one more towards the limit.          *)
LEMMA NextLimited == Types /\ Limited /\ [Next]_vars => Limited'
<1> SUFFICES ASSUME Types, Limited, [Next]_vars PROVE Limited'
  OBVIOUS
<1> USE EtcTreeAssumption DEF Limited
<1>1. CASE Begin \/ WalkEnds \/ Report
  BY <1>1 DEF Begin, WalkEnds, Report, Inspected
<1>8. ASSUME NEW r \in Roots, NextRoot(r) PROVE Limited'
  <2>1. Limit \notin errors
    BY <1>8 DEF NextRoot
  <2> QED BY <1>8, <2>1 DEF NextRoot, Inspected
<1>2. ASSUME NEW d \in Path, OpenDirectory(d) \/ SkipVanished(d)
      PROVE  Limited'
  BY <1>2 DEF OpenDirectory, SkipVanished, Inspected
<1>3. ASSUME NEW d \in Path, WalkAborts(d) PROVE Limited'
  BY <1>3 DEF WalkAborts, Inspected
<1>4. ASSUME NEW p \in Path, StopAtLimit(p) PROVE Limited'
  <2>1. Cardinality(Inspected) \in Nat
    BY FS_CardinalityType DEF Types
  <2>2. check # "units" /\ Cardinality(Inspected) >= maximum_paths /\ p \in queue
    BY <1>4 DEF StopAtLimit, LimitReached, MayInspect
  <2>3. Cardinality(Inspected) = maximum_paths
    BY <2>1, <2>2
  <2> QED BY <1>4, <2>2, <2>3 DEF StopAtLimit, Inspected
<1>5. ASSUME NEW p \in Path, Inspect(p) PROVE Limited'
  <2>1. Limit \notin errors' /\ check' = check
    <3>1. Limit \notin errors
      BY <1>5 DEF Inspect, MayInspect
    <3>2. errors' \subseteq errors \cup {p}
      BY <1>5 DEF Inspect
    <3> QED BY <1>5, <3>1, <3>2 DEF Inspect
  <2>2. Inspected' = Inspected \/ Inspected' = Inspected \cup {p}
    BY <1>5 DEF Inspect, Inspected
  <2>3. Cardinality(Inspected \cup {p}) <= Cardinality(Inspected) + 1
    <3>1. Cardinality(Inspected \cup {p}) =
             IF p \in Inspected THEN Cardinality(Inspected) ELSE Cardinality(Inspected) + 1
      BY FS_AddElement DEF Types
    <3> QED BY <3>1, FS_CardinalityType DEF Types
  <2>4. check # "units" => Cardinality(Inspected) < maximum_paths
    BY <1>5, FS_CardinalityType DEF Inspect, LimitReached, Types
  <2>5. Cardinality(Inspected) \in Nat /\ Cardinality(Inspected \cup {p}) \in Nat
    BY FS_CardinalityType, FS_AddElement DEF Types
  <2>6. check # "units" => Cardinality(Inspected') <= maximum_paths
    <3>1. maximum_paths \in Nat
      OBVIOUS
    <3> HIDE EtcTreeAssumption
    <3>2. CASE Inspected' = Inspected
      BY <2>4, <2>5, <3>1, <3>2
    <3>3. CASE Inspected' = Inspected \cup {p}
      BY <2>3, <2>4, <2>5, <3>1, <3>3
    <3> QED BY <2>2, <3>2, <3>3
  <2> QED BY <2>1, <2>6
<1>6. ASSUME NEW p \in Node, Change(p) PROVE Limited'
  BY <1>6 DEF Change, Inspected
<1>7. CASE UNCHANGED vars
  BY <1>7 DEF vars, Inspected
<1> QED
  BY <1>1, <1>2, <1>3, <1>4, <1>5, <1>6, <1>7, <1>8 DEF Next, CheckStep

-----------------------------------------------------------------------------
(* A step that takes no path out of the queue, loses no error and changes  *)
(* no path keeps what is owed to every path.                               *)
LEMMA OwedKept ==
    ASSUME NEW p \in Path, Owed(p), fs' = fs, steady' = steady,
           queue \subseteq queue', metadata' = metadata, errors \subseteq errors'
    PROVE  Owed(p)'
BY DEF Owed, Inspected

(* To inspect a path pays what was owed to it.                             *)
LEMMA OwedInspected ==
    ASSUME Types, NEW p \in Path, NEW q \in Path, Inspect(q), Owed(p)
    PROVE  Owed(p)'
<1>1. fs' = fs /\ steady' = steady /\ queue' = queue \ {q}
  BY DEF Inspect
<1>2. errors \subseteq errors' /\ Inspected \subseteq Inspected'
  BY DEF Inspect, Inspected
<1>3. \A r \in Inspected : metadata[r] = fs[r] => metadata'[r] = fs[r]
  BY DEF Inspect, Inspected
<1>4. CASE p = q /\ p \in steady /\ fs[p].kind \in {"file", "dir"}
  <2>1. p \in Inspected' /\ metadata'[p] = fs[p]
    BY <1>4 DEF Inspect, Inspected
  <2> QED BY <1>1, <2>1 DEF Owed
<1>5. CASE p # q
  BY <1>1, <1>2, <1>3, <1>5 DEF Owed
<1>6. CASE ~(p \in steady /\ fs[p].kind \in {"file", "dir"})
  BY <1>1, <1>6 DEF Owed
<1> QED BY <1>4, <1>5, <1>6

(* What another process changes is not owed any longer; the rest is as it  *)
(* was.                                                                    *)
LEMMA OwedChanged ==
    ASSUME Types, NEW p \in Path, NEW q \in Node, Change(q), Owed(p)
    PROVE  Owed(p)'
<1>1. /\ queue' = queue /\ metadata' = metadata /\ errors' = errors
      /\ steady' \subseteq steady /\ \A r \in steady' : fs'[r] = fs[r]
  BY DEF Change
<1> QED BY <1>1 DEF Owed, Inspected

(* What rglob learns when it lists a readable directory.                   *)
LEMMA ListingPays ==
    ASSUME Types, NEW d \in Path, OpenDirectory(d), fs[d].kind = "dir",
           NEW p \in Node, Parent[p] = d
    PROVE  Owed(p)' /\ (ReadableThroughout(p) => p \in unopened')
<1>1. /\ queue' = queue \cup Children(d) /\ fs' = fs /\ steady' = steady
      /\ unopened' = (unopened \ {d}) \cup {c \in Children(d) : IsDir(fs[c])}
  BY DEF OpenDirectory
<1>2. fs[p].kind # "absent" => p \in Children(d)
  BY DEF Children
<1>3. Owed(p)'
  BY <1>1, <1>2 DEF Owed
<1>4. ReadableThroughout(p) => p \in unopened'
  BY <1>1, <1>2 DEF ReadableThroughout, IsDir
<1> QED BY <1>3, <1>4

LEMMA CheckFixed == [Next]_vars => check' = check
<1>1. Begin \/ WalkEnds \/ Report => check' = check
  BY DEF Begin, WalkEnds, Report
<1>2. \A r \in Roots : NextRoot(r) => check' = check
  BY DEF NextRoot
<1>3. \A d \in Path : OpenDirectory(d) \/ SkipVanished(d) \/ WalkAborts(d) => check' = check
  BY DEF OpenDirectory, SkipVanished, WalkAborts
<1>4. \A p \in Path : Inspect(p) \/ StopAtLimit(p) => check' = check
  BY DEF Inspect, StopAtLimit
<1>5. \A p \in Node : Change(p) => check' = check
  BY DEF Change
<1>6. UNCHANGED vars => check' = check
  BY DEF vars
<1> QED BY <1>1, <1>2, <1>3, <1>4, <1>5, <1>6 DEF Next, CheckStep

LEMMA NextKnown == Types /\ Concluded /\ Known /\ [Next]_vars => Known'
<1> SUFFICES ASSUME Types, Concluded, Known, [Next]_vars PROVE Known'
  OBVIOUS
<1>a. check' = check
  BY CheckFixed
<1> SUFFICES ASSUME stage' \in {"walk", "report", "done"},
                    NEW r \in RootsOf[check], ReadableThroughout(r)', (r \notin waiting)'
             PROVE  RootKnown(r)'
  BY <1>a DEF Known
<1> USE EtcTreeAssumption
<1>0. r \in Roots /\ r \in Path
  BY DEF Types, Roots, Path
<1> DEFINE Kept == \A p \in Path : Owed(p) => Owed(p)'
(* The steps that list nothing.                                            *)
<1>1. ASSUME stage \in {"walk", "report", "done"}, fs' = fs, steady' = steady,
             waiting' = waiting, unopened' = unopened, Kept
      PROVE  RootKnown(r)'
  BY <1>0, <1>1 DEF Known, RootKnown, Listed, ReadableThroughout, Path
<1>2. CASE Begin
  <2>1. fs' = fs /\ steady' = steady
    BY <1>2 DEF Begin
  <2>2. IsDir(fs[r])
    BY <2>1 DEF ReadableThroughout, IsDir
  <2> QED BY <1>2, <2>2 DEF Begin
<1>3. CASE WalkEnds \/ Report
  BY <1>1, <1>3, OwedKept DEF WalkEnds, Report
<1>4. ASSUME NEW d \in Path, StopAtLimit(d) \/ WalkAborts(d) PROVE RootKnown(r)'
  <2>1. errors \subseteq errors'
    BY <1>4 DEF StopAtLimit, WalkAborts
  <2> QED BY <1>1, <1>4, <2>1, OwedKept DEF StopAtLimit, WalkAborts, MayInspect
<1>5. ASSUME NEW p \in Path, Inspect(p) PROVE RootKnown(r)'
  BY <1>1, <1>5, OwedInspected DEF Inspect, MayInspect
<1>6. ASSUME NEW d \in Path, SkipVanished(d) PROVE RootKnown(r)'
  <2>1. /\ unopened' = unopened \ {d} /\ ~IsDir(fs[d]) /\ fs' = fs /\ steady' = steady
        /\ stage = "walk" /\ waiting' = waiting
    BY <1>6 DEF SkipVanished
  <2>2. Kept
    BY <1>6, OwedKept DEF SkipVanished
  <2>3. \A e \in Path : ReadableThroughout(e) => e # d
    BY <2>1 DEF ReadableThroughout, IsDir
  <2> QED BY <1>0, <2>1, <2>2, <2>3 DEF Known, RootKnown, Listed, ReadableThroughout, Path
<1>7. ASSUME NEW d \in Path, OpenDirectory(d) PROVE RootKnown(r)'
  <2>1. /\ fs' = fs /\ steady' = steady /\ stage = "walk" /\ unopened \ {d} \subseteq unopened'
        /\ waiting' = waiting
    BY <1>7 DEF OpenDirectory
  <2>2. Kept
    BY <1>7, OwedKept DEF OpenDirectory
  <2>3. \A p \in Node : ReadableThroughout(d) /\ Parent[p] = d =>
            Owed(p)' /\ (ReadableThroughout(p) => p \in unopened')
    BY <1>7, ListingPays DEF ReadableThroughout
  <2>4. \A e \in Path : ReadableThroughout(e) /\ Listed(e) => Listed(e)'
    BY <2>1, <2>2, <2>3 DEF Listed, Path
  <2>5. \A e \in Path : ReadableThroughout(e)' <=> ReadableThroughout(e)
    BY <2>1 DEF ReadableThroughout
  <2>6. ReadableThroughout(r) /\ RootKnown(r)
    BY <1>0, <2>1, <2>5 DEF Known
  <2>7. CASE d = r
    BY <1>0, <2>1, <2>3, <2>4, <2>5, <2>6, <2>7 DEF RootKnown, Listed, Path
  <2>8. CASE d # r
    <3>1. r \in unopened => r \in unopened'
      BY <2>1, <2>8
    <3> QED BY <1>0, <2>4, <2>5, <2>6, <3>1 DEF RootKnown, Path
  <2> QED BY <2>7, <2>8
<1>8. ASSUME NEW q \in Node, Change(q) PROVE RootKnown(r)'
  <2>1. /\ unopened' = unopened /\ waiting' = waiting /\ steady' \subseteq steady
        /\ \A e \in steady' : fs'[e] = fs[e]
        /\ stage' = stage
    BY <1>8 DEF Change
  <2>2. Kept
    BY <1>8, OwedChanged
  <2>3. \A d \in Path : ReadableThroughout(d)' => ReadableThroughout(d)
    BY <2>1 DEF ReadableThroughout
  <2> QED BY <1>0, <2>1, <2>2, <2>3 DEF Known, RootKnown, Listed, Path
<1>9. CASE UNCHANGED vars
  BY <1>1, <1>9, OwedKept DEF vars
(* The walk of a root begins: the walk of the others has left nothing.     *)
<1>10. ASSUME NEW q \in Roots, NextRoot(q) PROVE RootKnown(r)'
  <2>1. /\ fs' = fs /\ steady' = steady /\ stage = "walk" /\ unopened = {} /\ unopened' = {q}
        /\ waiting' = waiting \ {q}
    BY <1>10 DEF NextRoot
  <2>2. Kept
    BY <1>10, OwedKept DEF NextRoot
  <2>3. CASE r = q
    BY <2>1, <2>3 DEF RootKnown, Listed
  <2>4. CASE r # q
    <3>1. RootKnown(r) /\ r \notin unopened
      BY <2>1, <2>4 DEF Known, ReadableThroughout
    <3> QED BY <1>0, <2>1, <2>2, <3>1 DEF RootKnown, Listed, ReadableThroughout, Path
  <2> QED BY <2>3, <2>4
<1> QED
  BY <1>2, <1>3, <1>4, <1>5, <1>6, <1>7, <1>8, <1>9, <1>10 DEF Next, CheckStep

LEMMA NextInductive == Inductive /\ [Next]_vars => Inductive'
<1> SUFFICES ASSUME Inductive, [Next]_vars PROVE Inductive'
  OBVIOUS
<1>1. steady' \subseteq Path
  BY DEF Inductive, Next, CheckStep, Begin, NextRoot, WalkEnds, Report, OpenDirectory, SkipVanished,
         WalkAborts, Inspect, StopAtLimit, Change, vars
<1> QED
  BY <1>1, NextTypes, NextConcluded, NextAccounted, NextLimited, NextKnown DEF Inductive

THEOREM InductiveInvariant == Spec => []Inductive
BY InitInductive, NextInductive, PTL DEF Spec

-----------------------------------------------------------------------------
(* The state of a tree check keeps its types, and there is a finding       *)
(* exactly when the check is done (filesystem.py:18-42).                   *)
THEOREM TypeCorrect == Spec => []TypeOK
<1>1. Inductive => TypeOK
  <2> SUFFICES ASSUME Inductive PROVE TypeOK
    OBVIOUS
  <2>1. finding.status # "none" <=> stage = "done"
    <3>1. Closing.status # "none"
      BY ClosingCases DEF Inductive
    <3>2. NoFinding.status = "none" /\ NotADirectory(check).status # "none"
          /\ RunnerError.status # "none"
      BY DEF NoFinding, NotADirectory, RunnerError, Finding
    <3> QED BY <3>1, <3>2 DEF Inductive, Concluded
  <2> QED BY <2>1 DEF Inductive, Types, TypeOK
<1> QED
  BY <1>1, InductiveInvariant, PTL

(* For every limit and every tree: the walk never reads more than the      *)
(* limit, and a truncation is never presented as a complete inspection     *)
(* (filesystem.py:26-28).                                                  *)
THEOREM TruncationVisible == Spec => []TruncationIsVisible
<1>1. Inductive => TruncationIsVisible
  <2> SUFFICES ASSUME Inductive PROVE TruncationIsVisible
    OBVIOUS
  <2> USE DEF Inductive
  <2>1. ASSUME stage = "done", queue # {}
        PROVE  finding.status # "pass"
               /\ (finding.status \in {"fail", "review"} => finding.confidence # "high")
    <3>1. CASE finding = Closing
      <4>1. errors # {}
        BY <2>1, <3>1 DEF Accounted, Complete
      <4> QED BY <3>1, <4>1, ClosingCases
    <3>2. CASE finding = RunnerError
      BY <3>2 DEF RunnerError, Finding
    <3> QED BY <2>1, <3>1, <3>2 DEF Concluded, Complete
  <2> QED BY <2>1 DEF Limited, TruncationIsVisible
<1> QED
  BY <1>1, InductiveInvariant, PTL

(* A walk that broke off never ends in a pass or in a confident finding,   *)
(* whichever of its roots it was in, and what was found by then shows in   *)
(* the finding or is lost to the runner's error (filesystem.py:40-42,      *)
(* 178-185, runner.py:17-27).                                              *)
THEOREM BrokenWalkVisible == Spec => []BrokenWalkIsVisible
<1>1. Inductive => BrokenWalkIsVisible
  <2> SUFFICES ASSUME Inductive, stage = "done"
               PROVE  /\ waiting \cup unopened # {} =>
                            \/ finding.status \in {"error", "unknown"}
                            \/ finding.status \in {"fail", "review"} /\ finding.confidence = "medium"
                      /\ Items # {} =>
                            \/ finding.status \in {"fail", "review"}
                            \/ finding.status = "error" /\ check = "units" /\ unopened # {}
    BY DEF BrokenWalkIsVisible
  <2>1. CASE finding = Closing
    <3>1. waiting \cup unopened # {} => errors # {}
      BY <2>1 DEF Inductive, Accounted, Complete
    <3> QED BY <2>1, <3>1, ClosingCases DEF Inductive
  <2>2. CASE finding = RunnerError /\ check = "units" /\ unopened # {}
    BY <2>2 DEF RunnerError, Finding
  <2>3. CASE Complete /\ Inspected = {}
    BY <2>3 DEF Complete, Items
  <2> QED BY <2>1, <2>2, <2>3 DEF Inductive, Concluded
<1> QED
  BY <1>1, InductiveInvariant, PTL

(* The evidence of a failure is never empty and never longer than the      *)
(* limit and one line, for any number of items and errors                  *)
(* (filesystem.py:45-50).                                                  *)
THEOREM FindingsBounded == Spec => []FindingsAreBounded
<1>1. Inductive => FindingsAreBounded
  <2> SUFFICES ASSUME Inductive, finding.status \in {"fail", "review"}
               PROVE  /\ Items # {}
                      /\ finding.size <= evidence_limit + 1
                      /\ finding.omitted <=> Cardinality(Items) > evidence_limit
    BY DEF FindingsAreBounded
  <2>1. finding = Closing
    BY DEF Inductive, Concluded, NoFinding, NotADirectory, RunnerError, Finding
  <2>2. Items # {}
    BY <2>1, ClosingCases DEF Inductive
  <2>3. \A n, e \in Nat : BoundedEvidence(n, e).size <= evidence_limit + 1
    BY EtcTreeAssumption DEF BoundedEvidence, Smaller
  <2> QED BY <2>1, <2>2, <2>3, ClosingCases DEF Inductive
<1> QED
  BY <1>1, InductiveInvariant, PTL

(* For every tree and every interleaving with other processes, a path in   *)
(* plain sight that violates the check's rule never ends in a pass: the    *)
(* walk has listed the directories above it, so it was inspected as it is  *)
(* or an error was noted (filesystem.py:22-42, 376-400).                   *)
THEOREM PlainSight == Spec => []PlainSightNeverPasses
<1>1. Inductive => PlainSightNeverPasses
  <2> SUFFICES ASSUME Inductive, stage = "done", finding.status = "pass",
                      NEW p \in Node, InPlainSight(p),
                      fs[p].kind \in {"file", "dir"}, Violates(check, fs[p])
               PROVE  FALSE
    BY DEF PlainSightNeverPasses, Reported
  <2> USE DEF Inductive
  <2>1. finding = Closing
    BY DEF Concluded, NotADirectory, RunnerError, Finding
  <2>2. Items = {} /\ errors = {}
    <3>1. Items = {}
      BY <2>1, ClosingCases
    <3> QED BY <2>1, <3>1, ClosingCases
  <2>3. waiting = {} /\ unopened = {} /\ queue = {}
    BY <2>1, <2>2 DEF Accounted, Complete
  <2>4. Owed(p)
    <3>1. \A r \in RootsOf[check] : ReadableThroughout(r) => RootKnown(r)
      BY <2>3 DEF Known
    <3>2. CASE Parent[p] \in RootsOf[check]
      BY <2>3, <3>1, <3>2 DEF InPlainSight, RootKnown, Listed
    <3>3. CASE /\ Parent[p] \in Node /\ ReadableThroughout(Parent[Parent[p]])
               /\ Parent[Parent[p]] \in RootsOf[check]
      BY <2>3, <3>1, <3>3 DEF InPlainSight, RootKnown, Listed
    <3> QED BY <3>2, <3>3 DEF InPlainSight
  <2>5. p \in Inspected /\ metadata[p] = fs[p]
    BY <2>2, <2>3, <2>4 DEF Owed, InPlainSight
  <2> QED BY <2>2, <2>5 DEF Items
<1> QED
  BY <1>1, InductiveInvariant, PTL

=============================================================================
