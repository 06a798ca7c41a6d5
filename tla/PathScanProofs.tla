--------------------------- MODULE PathScanProofs ---------------------------
(***************************************************************************)
(* The verdicts of the permission checks, for any number of paths and any  *)
(* number of changes by other processes, and the proof that the checks     *)
(* keep the contract of CheckContract.                                     *)
(***************************************************************************)
EXTENDS PathScan, TLAPS

LoopChecks ==
    {"drop-ins", "private-keys", "host-keys", "authorization", "temporary", "startup"}

GateChecks == {"sudoers", "sensitive", "home", "drop-ins", "authorization"}

Hidden == {"unsafe", "blind"}

(* Where a check can be, and that nothing is observed before the loop.     *)
Shape ==
    /\ stage = "gate" => check \in {"sudoers", "sensitive", "home", "drop-ins", "authorization"}
    /\ stage = "list" => check \in {"drop-ins", "private-keys", "host-keys"}
    /\ stage \in {"gate", "list"} => listed = {} /\ \A p \in Path : obs[p] = "unseen"
    /\ listed # {} => check \in LoopChecks

(* The history variables speak about the metadata there is now, too.       *)
History ==
    /\ always \in [Hidden -> SUBSET Inspected(check)]
    /\ \A what \in Hidden : \A p \in always[what] : Verdict(check, fs, p) = what
    /\ \A p \in Inspected(check) : Verdict(check, fs, p) = "unsafe" => p \in ever

(* An observation was true when it was made.                               *)
Observed ==
    \A p \in Path : obs[p] # "unseen" =>
        /\ p = Dir \/ p \in listed
        /\ obs[p] = "unsafe" => p \in ever
        /\ \A what \in Hidden : p \in always[what] => obs[p] = what

(* The directory is observed at the gate, by the drop-in check when it     *)
(* lists it, from the metadata of the gate, which was true then.           *)
DirKnown ==
    /\ stage \in {"scan", "done"} /\ Dir \in always["unsafe"] =>
          obs[Dir] # "unseen" \/ check = "drop-ins"
    /\ stage = "list" /\ check = "drop-ins" =>
          /\ JudgeDir(check, dirSeen) = "unsafe" => Dir \in ever
          /\ Dir \in always["unsafe"] => JudgeDir(check, dirSeen) = "unsafe"

(* A check ends by closing a complete inspection, or before it has begun.  *)
Ended ==
    stage = "done" =>
        \/ finding = ClosingFinding /\ Inspecting
        \/ /\ listed = {} /\ finding.status \in {"unknown", "error", "not_applicable"}
           /\ \A p \in Path : obs[p] = "unseen"

(* The verdicts are not inductive by themselves: that an observation still *)
(* says something at the end rests on its having agreed with the file      *)
(* system when it was made, and on the histories only shrinking or growing *)
(* from there.                                                             *)
IInv == TypeOK /\ Shape /\ History /\ Observed /\ DirKnown /\ Ended

-----------------------------------------------------------------------------
(* A loop's body always comes to one of the four observations.             *)
LEMMA InspectRange ==
    ASSUME NEW c \in LoopChecks, NEW m
    PROVE  Inspect(c, m) \in {"safe", "unsafe", "blind", "gone"}
<1>1. /\ InspectDropIn(Stat(c, m)) \in {"safe", "unsafe", "blind", "gone"}
      /\ InspectTemporary(Stat(c, m)) \in {"safe", "unsafe", "blind", "gone"}
      /\ InspectStartup(Stat(c, m)) \in {"safe", "unsafe", "blind", "gone"}
      /\ InspectKey(Stat(c, m)) \in {"safe", "unsafe", "blind", "gone"}
      /\ InspectAuthorization(Stat(c, m)) \in {"safe", "unsafe", "blind", "gone"}
  BY DEF InspectDropIn, InspectTemporary, InspectStartup, InspectKey, InspectAuthorization,
         Judge
<1> QED
  BY <1>1 DEF Inspect, LoopChecks

(* The names are judged by the checks with a loop, the directory by those  *)
(* that start at a gate.                                                   *)
LEMMA Reach ==
    ASSUME check \in CheckName
    PROVE  /\ \A p : p \in Inspected(check) <=>
                   \/ p \in Names /\ check \in LoopChecks
                   \/ p = Dir /\ check \in GateChecks
           /\ Dir \notin Names
           /\ Inspected(check) \subseteq Path
<1>1. FirstStage(check) = "gate" <=> check \in GateChecks
  BY DEF FirstStage, GateChecks
<1>2. check \in {"sudoers", "sensitive", "home"} <=> check \notin LoopChecks
  BY DEF LoopChecks, CheckName
<1>3. Dir \notin Names
  BY PathScanAssumption
<1> QED BY <1>1, <1>2, <1>3 DEF Inspected, Path

(* A directory that is looked at is judged one way or the other.           *)
LEMMA JudgeRange ==
    ASSUME NEW c \in GateChecks, NEW m
    PROVE  JudgeDir(c, m) \in {"safe", "unsafe"}
BY DEF JudgeDir, Judge, GateChecks

(* The directory is never hidden: what it looks like ends the check.       *)
LEMMA VerdictOfDir ==
    ASSUME NEW c \in GateChecks, NEW f
    PROVE  Verdict(c, f, Dir) \in {"gone", "safe", "unsafe"}
BY JudgeRange DEF Verdict

(* The findings that end a check early are never verdicts.                 *)
LEMMA EarlyStatus ==
    ASSUME NEW c, NEW m
    PROVE  /\ GateFinding(c, m).status \in {"unknown", "error", "not_applicable"}
           /\ ListFinding(c, m).status \in {"unknown", "error", "not_applicable"}
BY DEF GateFinding, ListFinding, Early, Result

(* The closing finding, case by case.                                      *)
LEMMA ClosingStatus ==
    /\ Unsafe # {} => ClosingFinding.status = "fail"
    /\ Unsafe = {} /\ Blind # {} => ClosingFinding.status = "unknown"
    /\ Unsafe = {} /\ Blind = {} =>
          ClosingFinding.status \in IF Seen("safe") = {} THEN {"pass", "not_applicable"} ELSE {"pass"}
    /\ Unsafe # {} => /\ Unsafe \subseteq ClosingFinding.evidence
                      /\ ClosingFinding.evidence \subseteq Unsafe \cup Blind
<1>1. CASE Unsafe # {} /\ check \in SshChecks
  <2>1. ClosingFinding = Result("fail", FailSeverity(check), "high", Unsafe)
    BY <1>1 DEF ClosingFinding
  <2> QED
    BY <1>1, <2>1 DEF Result
<1>2. CASE Unsafe # {} /\ check \notin SshChecks
  <2>1. ClosingFinding = Result("fail", FailSeverity(check),
                                IF Blind = {} THEN "high" ELSE "medium", Unsafe \cup Blind)
    BY <1>2 DEF ClosingFinding
  <2> QED
    BY <1>2, <2>1 DEF Result
<1>3. CASE Unsafe = {} /\ Blind # {}
  <2>1. ClosingFinding = Result("unknown", "info", "low", Blind)
    BY <1>3 DEF ClosingFinding
  <2> QED
    BY <1>3, <2>1 DEF Result
<1>4. CASE Unsafe = {} /\ Blind = {}
  <2>1. ClosingFinding.status \in
            IF Seen("safe") = {} THEN {"pass", "not_applicable"} ELSE {"pass"}
    BY <1>4 DEF ClosingFinding, Result
  <2> QED
    BY <1>4, <2>1
<1> QED
  BY <1>1, <1>2, <1>3, <1>4

-----------------------------------------------------------------------------
LEMMA InitIInv == Init => IInv
<1> SUFFICES ASSUME Init PROVE IInv
  OBVIOUS
<1>1. check \in CheckName /\ Names \subseteq Path /\ Dir \in Path
  BY PathScanAssumption DEF Init, Path
<1>2. TypeOK
  <2>1. fs \in [Path -> Meta]
    BY PathScanAssumption DEF Init
  <2>2. stage \in {"gate", "list", "scan", "done"} /\ stage # "done"
    BY DEF Init, FirstStage
  <2>3. listed \subseteq Names
    BY PathScanAssumption DEF Init
  <2>4. always["unsafe"] = ever
    BY DEF Init
  <2>5. changes \in 0..MaxChanges
    BY PathScanAssumption DEF Init
  <2>6. finding.status = "none"
    BY DEF Init, NoFinding, Result
  <2> QED
    BY <1>1, <2>1, <2>2, <2>3, <2>4, <2>5, <2>6 DEF Init, TypeOK
<1>3. Shape
  BY <1>1 DEF Init, Shape, FirstStage, CheckName, LoopChecks
<1>4. History
  <2>1. always = [what \in Hidden |-> Where(what, check, fs)] /\ ever = Where("unsafe", check, fs)
    BY DEF Init, Hidden
  <2> QED
    BY <2>1 DEF History, Where
<1>5. Observed
  BY <1>1 DEF Init, Observed
<1>6. Ended
  BY DEF Init, Ended, FirstStage
<1>7. DirKnown
  <2>1. stage = "list" => check # "drop-ins"
    BY DEF Init, FirstStage
  <2>2. stage \in {"scan", "done"} => check \notin GateChecks
    BY DEF Init, FirstStage, GateChecks
  <2>3. Dir \in always["unsafe"] => check \in GateChecks
    BY <1>1, <1>4, Reach DEF History, Hidden
  <2> QED BY <2>1, <2>2, <2>3 DEF DirKnown
<1> QED
  BY <1>2, <1>3, <1>4, <1>5, <1>6, <1>7 DEF IInv

-----------------------------------------------------------------------------
(* One lemma for each action.  Where an action leaves fs and the histories *)
(* alone, History carries over.                                            *)
LEMMA HistoryKept ==
    ASSUME History, UNCHANGED <<check, fs, always, ever>>
    PROVE  History'
BY DEF History

(* Preservation by the first look at the starting path, and its returns.   *)
LEMMA GateStep ==
    ASSUME IInv, Gate
    PROVE  IInv'
<1> DEFINE m == Stat(check, fs[Dir])
<1>0. /\ TypeOK /\ Shape /\ History /\ Observed /\ stage = "gate"
      /\ UNCHANGED <<check, fs, changes, always, ever>>
  BY DEF IInv, Gate
<1>a. /\ Dir \in Path /\ Dir \notin Names /\ Names \subseteq Path
      /\ check \in GateChecks /\ Dir \in Inspected(check)
      /\ listed = {} /\ \A p \in Path : obs[p] = "unseen"
  <2>1. check \in CheckName /\ check \in GateChecks
    BY <1>0, PathScanAssumption DEF TypeOK, Shape, GateChecks
  <2> QED BY <1>0, <2>1, Reach, PathScanAssumption DEF Path, Shape
<1>h. History'
  BY <1>0, HistoryKept
<1>v. /\ Verdict(check, fs, Dir) = IF GateStops(check, m) THEN "gone" ELSE JudgeDir(check, m)
      /\ \A what \in Hidden : Dir \in always[what] => Verdict(check, fs, Dir) = what
      /\ Verdict(check, fs, Dir) = "unsafe" => Dir \in ever
  BY <1>0, <1>a DEF Verdict, History
<1>1. CASE GateStops(check, m)
  <2>1. /\ finding' = GateFinding(check, m) /\ stage' = "done"
        /\ UNCHANGED <<dirSeen, listed, obs>>
    BY <1>1 DEF Gate, Stop
  <2>2. finding'.status \in {"unknown", "error", "not_applicable"}
    BY <2>1, EarlyStatus
  <2>3. TypeOK'
    BY <1>0, <2>1, <2>2 DEF TypeOK
  <2>4. Shape' /\ Observed' /\ Ended'
    BY <1>0, <1>a, <2>1, <2>2 DEF Shape, Observed, Ended
  <2>5. DirKnown'
    BY <1>0, <1>1, <1>v, <2>1 DEF DirKnown, Hidden
  <2> QED
    BY <1>h, <2>3, <2>4, <2>5 DEF IInv
<1>2. CASE ~GateStops(check, m)
  <2>1. /\ dirSeen' = m
        /\ stage' = IF check = "drop-ins" THEN "list" ELSE "scan"
        /\ listed' = IF check = "authorization" THEN FixedNames ELSE {}
        /\ obs' = IF check = "drop-ins" THEN obs
                  ELSE [obs EXCEPT ![Dir] = JudgeDir(check, m)]
        /\ UNCHANGED finding
    BY <1>2 DEF Gate
  <2>2. JudgeDir(check, m) \in {"safe", "unsafe"}
    BY <1>a, JudgeRange
  <2>3. m \in Meta
    <3>1. fs[Dir] \in Meta
      BY <1>0, <1>a DEF TypeOK
    <3> QED
      BY <3>1 DEF Stat, Resolve, Meta, Kind
  <2>4. TypeOK'
    BY <1>0, <1>a, <2>1, <2>2, <2>3, PathScanAssumption DEF TypeOK
  <2>5. /\ \A p \in Names : obs'[p] = "unseen"
        /\ obs'[Dir] = IF check = "drop-ins" THEN "unseen" ELSE JudgeDir(check, m)
    BY <1>0, <1>a, <2>1 DEF TypeOK
  <2>6. Observed'
    BY <1>0, <1>2, <1>a, <1>v, <2>1, <2>2, <2>5 DEF Observed, Path
  <2>7. DirKnown'
    BY <1>0, <1>2, <1>v, <2>1, <2>2, <2>5 DEF DirKnown, Hidden
  <2>8. Shape' /\ Ended'
    BY <1>0, <1>a, <2>1, <2>5 DEF Shape, Ended, LoopChecks, GateChecks
  <2> QED
    BY <1>h, <2>4, <2>6, <2>7, <2>8 DEF IInv
<1> QED
  BY <1>1, <1>2

(* Preservation by the listing, which may fail and end the check.          *)
LEMMA ListStep ==
    ASSUME IInv, List
    PROVE  IInv'
<1> DEFINE m == Resolve(fs[Dir])
<1>0. /\ TypeOK /\ Shape /\ History /\ Observed /\ DirKnown /\ stage = "list"
      /\ UNCHANGED <<check, fs, dirSeen, changes, always, ever>>
  BY DEF IInv, List
<1>a. /\ Dir \in Path /\ Dir \notin Names /\ Names \subseteq Path
      /\ check \in {"drop-ins", "private-keys", "host-keys"}
      /\ listed = {} /\ \A p \in Path : obs[p] = "unseen"
  BY <1>0, PathScanAssumption DEF Path, Shape
<1>h. History'
  BY <1>0, HistoryKept
<1>d. Dir \in always["unsafe"] => check = "drop-ins"
  <2>1. check \in CheckName
    BY <1>0, PathScanAssumption DEF TypeOK
  <2>2. always["unsafe"] \subseteq Inspected(check)
    BY <1>0 DEF History, Hidden
  <2> QED BY <1>a, <2>1, <2>2, Reach DEF GateChecks
<1>1. CASE ListStops(check, m) /\ Stop(ListFinding(check, m)) /\ UNCHANGED <<listed, obs>>
  <2>1. /\ finding' = ListFinding(check, m) /\ stage' = "done"
        /\ UNCHANGED <<listed, obs>>
    BY <1>1 DEF Stop
  <2>2. finding'.status \in {"unknown", "error", "not_applicable"}
    BY <2>1, EarlyStatus
  <2>3. TypeOK'
    BY <1>0, <2>1, <2>2 DEF TypeOK
  <2>4. Shape' /\ Observed' /\ Ended'
    BY <1>0, <1>a, <2>1, <2>2 DEF Shape, Observed, Ended
  <2>5. DirKnown'
    BY <1>0, <1>d, <2>1 DEF DirKnown
  <2> QED
    BY <1>h, <2>3, <2>4, <2>5 DEF IInv
<1>2. CASE /\ listed' = EntriesNow(m)
           /\ stage' = "scan"
           /\ obs' = IF check = "drop-ins"
                     THEN [obs EXCEPT ![Dir] = JudgeDir(check, dirSeen)] ELSE obs
           /\ UNCHANGED finding
  <2>1. /\ listed' = EntriesNow(m)
        /\ stage' = "scan"
        /\ obs' = IF check = "drop-ins"
                  THEN [obs EXCEPT ![Dir] = JudgeDir(check, dirSeen)] ELSE obs
        /\ UNCHANGED finding
    BY <1>2
  <2>2. check = "drop-ins" => JudgeDir(check, dirSeen) \in {"safe", "unsafe"}
    BY JudgeRange DEF GateChecks
  <2>3. EntriesNow(m) \subseteq Names
    BY DEF EntriesNow
  <2>4. TypeOK'
    BY <1>0, <1>a, <2>1, <2>2, <2>3 DEF TypeOK
  <2>5. /\ \A p \in Names : obs'[p] = "unseen"
        /\ obs'[Dir] = IF check = "drop-ins" THEN JudgeDir(check, dirSeen) ELSE "unseen"
    BY <1>0, <1>a, <2>1 DEF TypeOK
  <2>6. Observed'
    <3>1. Dir \notin always["blind"]
      <4>1. ASSUME Dir \in always["blind"] PROVE FALSE
        <5>1. check \in CheckName /\ Dir \in Inspected(check) /\ Verdict(check, fs, Dir) = "blind"
          BY <1>0, <4>1, PathScanAssumption DEF History, Hidden, TypeOK
        <5> QED BY <1>a, <5>1, Reach, VerdictOfDir
      <4> QED BY <4>1
    <3> QED
      BY <1>0, <1>a, <2>1, <2>2, <2>5, <3>1 DEF Observed, Path, DirKnown, Hidden
  <2>7. DirKnown'
    BY <1>0, <1>d, <2>1 DEF DirKnown
  <2>8. Shape' /\ Ended'
    BY <1>0, <1>a, <2>1, <2>5 DEF Shape, Ended, LoopChecks
  <2> QED
    BY <1>h, <2>4, <2>6, <2>7, <2>8 DEF IInv
<1> QED
  BY <1>1, <1>2 DEF List

(* Preservation by a turn of the loop: the observation is one of fs now,   *)
(* hence between the two histories.                                        *)
LEMMA VisitStep ==
    ASSUME IInv, NEW p \in Names, Visit(p)
    PROVE  IInv'
<1>0. /\ TypeOK /\ Shape /\ History /\ Observed /\ DirKnown /\ stage = "scan"
      /\ UNCHANGED <<check, fs, stage, dirSeen, listed, finding, changes, always, ever>>
      /\ p \in listed /\ obs' = [obs EXCEPT ![p] = Inspect(check, fs[p])]
  BY DEF IInv, Visit
<1>a. /\ p \in Path /\ Names \subseteq Path /\ check \in LoopChecks /\ p # Dir
      /\ p \in Inspected(check) /\ Verdict(check, fs, p) = Inspect(check, fs[p])
  <2>1. check \in CheckName /\ check \in LoopChecks /\ p # Dir
    BY <1>0, PathScanAssumption DEF TypeOK, Shape
  <2> QED BY <2>1, Reach DEF Path, Verdict
<1>1. Inspect(check, fs[p]) \in {"safe", "unsafe", "blind", "gone"}
  BY <1>a, InspectRange
<1>2. History'
  BY <1>0, HistoryKept
<1>3. TypeOK'
  BY <1>0, <1>a, <1>1 DEF TypeOK
<1>4. obs'[p] = Inspect(check, fs[p]) /\ \A q \in Path \ {p} : obs'[q] = obs[q]
  BY <1>0, <1>a DEF TypeOK
<1>5. Observed'
  <2> SUFFICES ASSUME NEW q \in Path, obs'[q] # "unseen"
               PROVE  /\ q = Dir \/ q \in listed
                      /\ obs'[q] = "unsafe" => q \in ever
                      /\ \A what \in Hidden : q \in always[what] => obs'[q] = what
    BY <1>0 DEF Observed
  <2>1. CASE q = p
    BY <1>0, <1>a, <1>4, <2>1 DEF History
  <2>2. CASE q # p
    BY <1>0, <1>a, <1>4, <2>2 DEF Observed
  <2> QED
    BY <2>1, <2>2
<1>6. Shape' /\ Ended'
  BY <1>0 DEF Shape, Ended
<1>7. DirKnown'
  BY <1>0, <1>a, <1>4 DEF DirKnown, Path
<1> QED
  BY <1>2, <1>3, <1>5, <1>6, <1>7 DEF IInv

(* Preservation by the findings after the loop.                            *)
LEMMA CloseStep ==
    ASSUME IInv, Close
    PROVE  IInv'
<1>0. /\ TypeOK /\ Shape /\ History /\ Observed /\ DirKnown
      /\ UNCHANGED <<check, fs, dirSeen, listed, obs, changes, always, ever>>
      /\ finding' = ClosingFinding /\ stage' = "done" /\ stage = "scan" /\ Inspecting
  BY DEF IInv, Close, Stop, Inspecting
<1>1. History'
  BY <1>0, HistoryKept
<1>2. ClosingFinding.status \in {"fail", "unknown", "pass", "not_applicable"}
  BY ClosingStatus
<1>3. TypeOK'
  BY <1>0, <1>2 DEF TypeOK
<1>4. ClosingFinding' = ClosingFinding /\ Inspecting'
  BY <1>0 DEF ClosingFinding, Unsafe, Blind, Seen, Inspecting
<1>5. Shape' /\ Observed' /\ Ended' /\ DirKnown'
  BY <1>0, <1>4 DEF Shape, Observed, Ended, DirKnown
<1> QED
  BY <1>1, <1>3, <1>5 DEF IInv

(* Preservation by another process, which only narrows always and          *)
(* widens ever.                                                            *)
LEMMA ChangeStep ==
    ASSUME IInv, NEW p \in Path, Change(p)
    PROVE  IInv'
<1>0. /\ TypeOK /\ Shape /\ History /\ Observed /\ DirKnown /\ stage # "done"
      /\ UNCHANGED <<check, stage, dirSeen, listed, obs, finding>>
      /\ changes < MaxChanges /\ changes' = changes + 1
      /\ always' = [what \in DOMAIN always |-> always[what] \cap Where(what, check, fs')]
      /\ ever' = ever \cup Where("unsafe", check, fs')
  BY DEF IInv, Change
<1>1. PICK m \in Meta : fs' = [fs EXCEPT ![p] = m]
  BY PathScanAssumption DEF Change
<1>3. \A what \in Hidden : always'[what] = always[what] \cap Where(what, check, fs')
  BY <1>0 DEF History
<1>4. TypeOK'
  <2>1. fs' \in [Path -> Meta]
    BY <1>0, <1>1 DEF TypeOK
  <2>2. changes' \in 0..MaxChanges
    BY <1>0, PathScanAssumption DEF TypeOK
  <2>3. always'["unsafe"] \subseteq ever'
    BY <1>0, <1>3 DEF TypeOK, Hidden
  <2> QED
    BY <1>0, <2>1, <2>2, <2>3 DEF TypeOK
<1>5. History'
  <2>1. always' \in [Hidden -> SUBSET Inspected(check)]
    BY <1>0 DEF History
  <2>2. \A what \in Hidden : \A q \in always'[what] : Verdict(check, fs', q) = what
    BY <1>3 DEF Where
  <2>3. \A q \in Inspected(check) : Verdict(check, fs', q) = "unsafe" => q \in ever'
    BY <1>0 DEF Where
  <2> QED
    BY <1>0, <2>1, <2>2, <2>3 DEF History
<1>6. Observed'
  BY <1>0, <1>3 DEF Observed
<1>7. Shape' /\ Ended'
  BY <1>0 DEF Shape, Ended
<1>8. DirKnown'
  BY <1>0, <1>3 DEF DirKnown, Hidden
<1> QED
  BY <1>4, <1>5, <1>6, <1>7, <1>8 DEF IInv

(* The invariant holds in every reachable state, for every instance.       *)
THEOREM InductiveInvariant == Spec => []IInv
<1>1. IInv /\ [Next]_vars => IInv'
  <2> SUFFICES ASSUME IInv, [Next]_vars PROVE IInv'
    OBVIOUS
  <2>1. CASE Gate
    BY <2>1, GateStep
  <2>2. CASE List
    BY <2>2, ListStep
  <2>3. CASE \E p \in Names : Visit(p)
    BY <2>3, VisitStep
  <2>4. CASE Close
    BY <2>4, CloseStep
  <2>5. CASE \E p \in Path : Change(p)
    BY <2>5, ChangeStep
  <2>6. CASE UNCHANGED vars
    BY <2>6 DEF vars, IInv, TypeOK, Shape, History, Observed, DirKnown, Ended, ClosingFinding,
                Unsafe, Blind, Seen, Inspecting
  <2> QED
    BY <2>1, <2>2, <2>3, <2>4, <2>5, <2>6 DEF Next, CheckStep
<1> QED
  BY <1>1, InitIInv, PTL DEF Spec

-----------------------------------------------------------------------------
(* Type correctness, for any instance.                                     *)
THEOREM TypeCorrect == Spec => []TypeOK
BY InductiveInvariant, PTL DEF IInv

(* What the invariant says of a check that has ended after its inspection: *)
(* each path it listed has an observation, and Dir alone may add to them.  *)
LEMMA Inspection ==
    ASSUME IInv, stage = "done", listed # {} \/ finding.status \in {"pass", "fail"}
    PROVE  /\ finding = ClosingFinding
           /\ \A p \in listed : obs[p] \in {"safe", "unsafe", "blind", "gone"}
           /\ \A p \in Unsafe \cup Blind : p = Dir \/ p \in listed
           /\ listed \subseteq Names /\ Names \subseteq Path
<1>1. finding = ClosingFinding /\ Inspecting
  BY DEF IInv, Ended
<1>2. listed \subseteq Names /\ Names \subseteq Path
  BY DEF IInv, TypeOK, Path
<1>3. \A p \in listed : obs[p] \in {"safe", "unsafe", "blind", "gone"}
  BY <1>1, <1>2 DEF IInv, TypeOK, Inspecting
<1>4. \A p \in Unsafe \cup Blind : p = Dir \/ p \in listed
  BY DEF IInv, Observed, Unsafe, Blind, Seen
<1> QED
  BY <1>1, <1>2, <1>3, <1>4

(* A check that has seen something unsafe ends with its closing finding.   *)
LEMMA UnsafeIsClosed ==
    ASSUME IInv, stage = "done", Unsafe # {}
    PROVE  finding = ClosingFinding
BY DEF IInv, Ended, Unsafe, Seen

(* A path that is unsafe from the first system call to the last makes the  *)
(* check fail, whatever other processes do to the other paths meanwhile.   *)
THEOREM ExposureIsReported == Spec => []PersistentExposureFails
<1>1. IInv => PersistentExposureFails
  <2> SUFFICES ASSUME IInv, stage = "done", NEW p \in ToJudge \cap always["unsafe"]
               PROVE  Reported("fail")
    BY DEF PersistentExposureFails
  <2>1. p \in Path /\ (p = Dir \/ p \in listed)
    BY DEF IInv, TypeOK, ToJudge, Path
  <2>2. obs[p] # "unseen"
    <3>1. CASE p \in listed
      BY <3>1, Inspection
    <3>2. CASE p = Dir
      BY <3>2, PathScanAssumption DEF IInv, TypeOK, DirKnown, ToJudge
    <3> QED BY <2>1, <3>1, <3>2
  <2>3. p \in Unsafe
    BY <2>1, <2>2 DEF IInv, Observed, Hidden, Unsafe, Seen
  <2>4. finding = ClosingFinding
    BY <2>3, UnsafeIsClosed
  <2> QED
    BY <2>3, <2>4, ClosingStatus DEF Reported
<1> QED
  BY <1>1, InductiveInvariant, PTL

(* The evidence of a failure, the directory included, was unsafe at some   *)
(* moment of the check or could not be read, and some of it was unsafe.    *)
THEOREM FailuresAreReal == Spec => []FailureWasReal
<1>1. IInv => FailureWasReal
  <2> SUFFICES ASSUME IInv, Reported("fail") PROVE FailureWasReal
    BY DEF FailureWasReal
  <2>1. finding = ClosingFinding
    BY Inspection DEF Reported
  <2>2. Unsafe # {}
    BY <2>1, ClosingStatus DEF Reported
  <2>3. Unsafe \subseteq finding.evidence /\ finding.evidence \subseteq Unsafe \cup Blind
    BY <2>1, <2>2, ClosingStatus
  <2>4. \A p \in Unsafe : p \in ever
    BY DEF IInv, Observed, Unsafe, Seen
  <2>5. \A p \in finding.evidence : p \in ever \/ obs[p] = "blind"
    BY <2>3, <2>4 DEF Blind, Seen
  <2>6. finding.evidence \cap ever # {}
    BY <2>2, <2>3, <2>4
  <2> QED
    BY <2>5, <2>6 DEF FailureWasReal
<1> QED
  BY <1>1, InductiveInvariant, PTL

(* A pass means that nothing the check listed was unsafe, or hidden from   *)
(* it, all along.                                                          *)
THEOREM PassesAreEarned == Spec => []PassWasEarned
<1>1. IInv => PassWasEarned
  <2> SUFFICES ASSUME IInv, Reported("pass") PROVE PassWasEarned
    BY DEF PassWasEarned
  <2>1. finding = ClosingFinding
    BY Inspection DEF Reported
  <2>2. Unsafe = {} /\ Blind = {}
    BY <2>1, ClosingStatus DEF Reported
  <2>3. \A p \in listed : obs[p] \in {"safe", "gone"}
    BY <2>2, Inspection DEF Reported, Unsafe, Blind, Seen
  <2>4. listed \cap (always["unsafe"] \cup always["blind"]) = {}
    BY <2>3 DEF IInv, TypeOK, Observed, Hidden, Path
  <2> QED
    BY <2>3, <2>4 DEF PassWasEarned
<1> QED
  BY <1>1, InductiveInvariant, PTL

(* What is unreadable throughout leads to unknown, or to a failure of the  *)
(* directory itself.                                                       *)
THEOREM NoEvidenceIsUnknown == Spec => []BlindIsUnknown
<1>1. IInv => BlindIsUnknown
  <2> SUFFICES ASSUME IInv, stage = "done", listed # {}, listed \subseteq always["blind"]
               PROVE  finding.status = IF obs[Dir] = "unsafe" THEN "fail" ELSE "unknown"
    BY DEF BlindIsUnknown
  <2>1. /\ finding = ClosingFinding /\ listed \subseteq Names /\ Names \subseteq Path
        /\ Dir \in Path
        /\ \A p \in listed : obs[p] # "unseen"
    BY Inspection DEF Path
  <2>2. \A p \in listed : obs[p] = "blind"
    BY <2>1 DEF IInv, Observed, Hidden
  <2>3. Blind # {}
    BY <2>1, <2>2 DEF Blind, Seen
  <2>4. Unsafe # {} <=> obs[Dir] = "unsafe"
    BY <2>1, <2>2 DEF IInv, Observed, Unsafe, Seen
  <2> QED
    BY <2>1, <2>3, <2>4, ClosingStatus
<1> QED
  BY <1>1, InductiveInvariant, PTL

(* What was hidden all along leaves the result unknown, or shows in the    *)
(* failure it stands next to.                                              *)
THEOREM HiddenPathsShow == Spec => []HiddenPathShows
<1>1. IInv => HiddenPathShows
  <2> DEFINE hidden == listed \cap always["blind"]
  <2> SUFFICES ASSUME IInv, stage = "done", NEW q \in hidden
               PROVE  \/ Reported("unknown")
                      \/ /\ Reported("fail")
                         /\ check \notin SshChecks =>
                               finding.confidence = "medium" /\ hidden \subseteq finding.evidence
    BY DEF HiddenPathShows
  <2>1. finding = ClosingFinding /\ listed \subseteq Path /\ \A p \in listed : obs[p] # "unseen"
    BY Inspection
  <2>2. hidden \subseteq Blind /\ Blind # {}
    BY <2>1 DEF IInv, Observed, Hidden, Blind, Seen
  <2> HIDE DEF hidden
  <2>3. CASE Unsafe = {}
    BY <2>1, <2>2, <2>3, ClosingStatus DEF Reported
  <2>4. CASE Unsafe # {} /\ check \in SshChecks
    BY <2>1, <2>4, ClosingStatus DEF Reported
  <2>5. CASE Unsafe # {} /\ check \notin SshChecks
    <3>1. finding = Result("fail", FailSeverity(check), "medium", Unsafe \cup Blind)
      BY <2>1, <2>2, <2>5 DEF ClosingFinding
    <3> QED BY <2>2, <3>1 DEF Reported, Result
  <2> QED BY <2>3, <2>4, <2>5
<1> QED
  BY <1>1, InductiveInvariant, PTL

-----------------------------------------------------------------------------
(* The checks keep the contract: every system call is an observation of    *)
(* one path, a withdrawal or the conclusion; changes by other processes    *)
(* are not visible in it.                                                  *)
THEOREM Implementation == Spec => ImplementsContract
<1>1. Init => Contract!ContractInit
  BY DEF Init, NoFinding, Result, Contract!ContractInit
<1>2. ASSUME IInv, Next \/ UNCHANGED vars
      PROVE  Contract!ContractNext \/ UNCHANGED <<obs, finding.status>>
  <2>0. /\ finding.status = "none" <=> stage # "done"
        /\ Dir \in Path /\ Names \subseteq Path
        /\ obs \in [Path -> {"unseen", "safe", "unsafe", "blind", "gone"}]
    BY <1>2 DEF IInv, TypeOK, Path
  <2>w. ASSUME stage \in {"gate", "list"},
               finding'.status \in {"unknown", "error", "not_applicable"}, UNCHANGED obs
        PROVE  Contract!Withdraw
    <3>1. Contract!Seen("unsafe") = {}
      BY <1>2, <2>w DEF IInv, Shape, Contract!Seen
    <3> QED
      BY <2>0, <2>w, <3>1 DEF Contract!Withdraw
  <2>o. ASSUME stage # "done", NEW p \in Path, obs[p] = "unseen",
               NEW what \in {"safe", "unsafe", "blind", "gone"},
               obs' = [obs EXCEPT ![p] = what], UNCHANGED finding
        PROVE  Contract!ContractNext
    <3>1. Contract!Observe(p)
      BY <2>0, <2>o DEF Contract!Observe, Contract!Observation
    <3> QED
      BY <3>1 DEF Contract!ContractNext
  <2>1. CASE Gate
    <3> DEFINE m == Stat(check, fs[Dir])
    <3>0. stage = "gate" /\ obs[Dir] = "unseen" /\ JudgeDir(check, m) \in {"safe", "unsafe"}
      BY <1>2, <2>0, <2>1, JudgeRange DEF Gate, IInv, Shape, GateChecks
    <3>1. CASE GateStops(check, m)
      <4>1. finding' = GateFinding(check, m) /\ UNCHANGED obs
        BY <2>1, <3>1 DEF Gate, Stop
      <4>2. Contract!Withdraw
        BY <2>w, <3>0, <4>1, EarlyStatus
      <4> QED
        BY <4>2 DEF Contract!ContractNext
    <3>2. CASE ~GateStops(check, m)
      <4>1. /\ obs' = IF check = "drop-ins" THEN obs
                      ELSE [obs EXCEPT ![Dir] = JudgeDir(check, m)]
            /\ UNCHANGED finding
        BY <2>1, <3>2 DEF Gate
      <4>2. CASE check = "drop-ins"
        BY <4>1, <4>2
      <4>3. CASE check # "drop-ins"
        BY <2>0, <2>o, <3>0, <4>1, <4>3
      <4> QED
        BY <4>2, <4>3
    <3> QED
      BY <3>1, <3>2
  <2>2. CASE List
    <3> DEFINE m == Resolve(fs[Dir])
    <3>0. /\ stage = "list" /\ obs[Dir] = "unseen"
          /\ check = "drop-ins" => JudgeDir(check, dirSeen) \in {"safe", "unsafe"}
      BY <1>2, <2>0, <2>2, JudgeRange DEF List, IInv, Shape, GateChecks
    <3>1. CASE Stop(ListFinding(check, m)) /\ UNCHANGED <<listed, obs>>
      <4>1. finding' = ListFinding(check, m) /\ UNCHANGED obs
        BY <3>1 DEF Stop
      <4>2. Contract!Withdraw
        BY <2>w, <3>0, <4>1, EarlyStatus
      <4> QED
        BY <4>2 DEF Contract!ContractNext
    <3>2. CASE /\ obs' = IF check = "drop-ins"
                         THEN [obs EXCEPT ![Dir] = JudgeDir(check, dirSeen)] ELSE obs
               /\ UNCHANGED finding
      <4>1. /\ obs' = IF check = "drop-ins"
                      THEN [obs EXCEPT ![Dir] = JudgeDir(check, dirSeen)] ELSE obs
            /\ UNCHANGED finding
        BY <3>2
      <4>2. CASE check = "drop-ins"
        BY <2>0, <2>o, <3>0, <4>1, <4>2
      <4>3. CASE check # "drop-ins"
        BY <4>1, <4>3
      <4> QED
        BY <4>2, <4>3
    <3> QED
      BY <2>2, <3>1, <3>2 DEF List
  <2>3. CASE \E p \in Names : Visit(p)
    <3>1. PICK p \in Names : Visit(p)
      BY <2>3
    <3>2. /\ stage = "scan" /\ obs[p] = "unseen" /\ listed # {} /\ p \in Path
          /\ obs' = [obs EXCEPT ![p] = Inspect(check, fs[p])] /\ UNCHANGED finding
      BY <2>0, <3>1 DEF Visit
    <3>3. Inspect(check, fs[p]) \in {"safe", "unsafe", "blind", "gone"}
      BY <1>2, <3>2, InspectRange DEF IInv, Shape
    <3> QED
      BY <2>o, <3>2, <3>3
  <2>4. CASE Close
    <3>1. finding' = ClosingFinding /\ UNCHANGED obs /\ stage = "scan"
      BY <2>4 DEF Close, Stop
    <3>2. /\ Contract!Seen("unsafe") = Unsafe /\ Contract!Seen("blind") = Blind
          /\ Contract!Seen("safe") = Seen("safe")
      BY DEF Contract!Seen, Unsafe, Blind, Seen
    <3>3. ClosingFinding.status \in Contract!Verdicts
      BY <3>2, ClosingStatus DEF Contract!Verdicts
    <3>4. Contract!Conclude
      BY <2>0, <3>1, <3>3 DEF Contract!Conclude
    <3> QED
      BY <3>4 DEF Contract!ContractNext
  <2>5. CASE \E p \in Path : Change(p)
    BY <2>5 DEF Change
  <2>6. CASE UNCHANGED vars
    BY <2>6 DEF vars
  <2> QED
    BY <1>2, <2>1, <2>2, <2>3, <2>4, <2>5, <2>6 DEF Next, CheckStep
<1>3. IInv /\ [Next]_vars => [Contract!ContractNext]_<<obs, finding.status>>
  BY <1>2
<1> QED
  BY <1>1, <1>3, InductiveInvariant, PTL DEF Spec, ImplementsContract, Contract!ContractSpec

=============================================================================
