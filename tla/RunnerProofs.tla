---------------------------- MODULE RunnerProofs ----------------------------
(***************************************************************************)
(* The runner's invariant for any registry, any number of checks and any   *)
(* findings they may return.                                               *)
(***************************************************************************)
EXTENDS Runner, SequenceTheorems, TLAPS

(* No finding belongs to the check that is being called or to a later one. *)
AuthorsPassed == \A i \in DOMAIN author : author[i] < position

(* Before run_checks is entered nothing has been contributed.              *)
IdleIsEmpty ==
    phase = "idle" => position = 1 /\ author = <<>> /\ findings = <<>> /\ raised = {}

(* Only checks that were called have raised.                               *)
RaisedPassed == \A k \in raised : k < position

(* RunnerInv is not inductive: that one contribution does not disturb the  *)
(* earlier ones needs the authors, and the raised checks, to lie strictly  *)
(* before the position of the loop.                                        *)
IInv ==
    /\ RunnerInv
    /\ AuthorsPassed
    /\ RaisedPassed
    /\ IdleIsEmpty

(* What one contribution does to the two parallel lists: they grow         *)
(* together, keep what they had, and the new part belongs to position.     *)
LEMMA ContributeLemma ==
    ASSUME TypeOK, Attributed, Running,
           NEW list \in Seq(FindingOf(FindingId, AreaName)) \ {<<>>},
           Contribute(list), UNCHANGED selected
    PROVE  /\ findings' \in Seq(FindingOf(FindingId, AreaName))
           /\ author' \in Seq(1..Len(selected))
           /\ Len(author') = Len(findings')
           /\ Len(findings') = Len(findings) + Len(list)
           /\ Len(list) > 0
           /\ position' = position + 1
           /\ \A i \in 1..Len(findings) :
                 findings'[i] = findings[i] /\ author'[i] = author[i]
           /\ \A i \in (Len(findings) + 1)..Len(findings') :
                 /\ author'[i] = position
                 /\ findings'[i] = list[i - Len(findings)]
<1> DEFINE tag == [i \in 1..Len(list) |-> position]
       F == FindingOf(FindingId, AreaName)
       P == 1..Len(selected)
<1>1. list \in Seq(F) /\ Len(list) \in Nat /\ Len(list) > 0
  OBVIOUS
<1>2. position \in 1..Len(selected)
  BY DEF TypeOK, Running
<1>3. tag \in Seq(P) /\ Len(tag) = Len(list)
  BY <1>1, <1>2
<1>4. /\ findings \in Seq(F) /\ author \in Seq(P)
      /\ Len(author) = Len(findings) /\ Len(findings) \in Nat
  BY DEF TypeOK, Attributed
<1>5. findings' = findings \o list /\ author' = author \o tag /\ position' = position + 1
  BY DEF Contribute
<1>t. \A i \in 1..Len(list) : tag[i] = position
  OBVIOUS
<1> HIDE DEF tag, F, P
<1>6. /\ findings' \in Seq(F)
      /\ Len(findings') = Len(findings) + Len(list)
      /\ \A i \in 1..(Len(findings) + Len(list)) :
            findings'[i] = IF i <= Len(findings) THEN findings[i]
                                                 ELSE list[i - Len(findings)]
  BY <1>1, <1>4, <1>5, ConcatProperties
<1>7. /\ author' \in Seq(P)
      /\ Len(author') = Len(author) + Len(list)
      /\ \A i \in 1..(Len(author) + Len(list)) :
            author'[i] = IF i <= Len(author) THEN author[i]
                                             ELSE tag[i - Len(author)]
  <2>1. /\ author \o tag \in Seq(P)
        /\ Len(author \o tag) = Len(author) + Len(tag)
        /\ \A i \in 1..(Len(author) + Len(tag)) :
              (author \o tag)[i] = IF i <= Len(author) THEN author[i]
                                                        ELSE tag[i - Len(author)]
    BY <1>3, <1>4, ConcatProperties, Zenon
  <2> QED BY <2>1, <1>3, <1>5, Zenon
<1>8. \A i \in 1..Len(findings) : findings'[i] = findings[i] /\ author'[i] = author[i]
  BY <1>1, <1>4, <1>6, <1>7
<1>9. \A i \in (Len(findings) + 1)..Len(findings') :
         author'[i] = position /\ findings'[i] = list[i - Len(findings)]
  <2> SUFFICES ASSUME NEW i \in (Len(findings) + 1)..Len(findings')
               PROVE  author'[i] = position /\ findings'[i] = list[i - Len(findings)]
    OBVIOUS
  <2>1. /\ i \in 1..(Len(findings) + Len(list)) /\ ~(i <= Len(findings))
        /\ i - Len(findings) \in 1..Len(list)
    BY <1>1, <1>4, <1>6
  <2> QED
    BY <2>1, <1>4, <1>6, <1>7, <1>t
<1> QED
  BY <1>1, <1>4, <1>5, <1>6, <1>7, <1>8, <1>9 DEF F, P

(* The list a check returns is one the report can hold.                    *)
LEMMA ReturnsTyped ==
    ASSUME TypeOK, Running, NEW list \in Returns[selected[position]]
    PROVE  list \in Seq(FindingOf(FindingId, AreaName)) \ {<<>>}
<1>1. selected[position] \in Check
  BY DEF TypeOK, Running
<1> QED
  BY <1>1, RunnerAssumption

(* So is the single error finding the runner makes up.                     *)
LEMMA ErrorFindingTyped ==
    ASSUME NEW c \in Check
    PROVE  <<ErrorFinding(c)>> \in Seq(FindingOf(FindingId, AreaName)) \ {<<>>}
<1>1. c \in FindingId /\ AreaOf[c] \in AreaName
  BY RunnerAssumption
<1>2. ErrorFinding(c) \in FindingOf(FindingId, AreaName)
  BY <1>1 DEF ErrorFinding, Finding, FindingOf, Status, Severity, Confidence
<1> QED
  BY <1>2

(* The shape every contribution preserves, whether the check returned or   *)
(* raised.                                                                 *)
LEMMA ContributePreserves ==
    ASSUME TypeOK, Attributed, EveryCheckReported, RegistryOrder,
           AuthorsPassed,
           Running, UNCHANGED <<selected, phase>>,
           NEW list \in Seq(FindingOf(FindingId, AreaName)) \ {<<>>},
           Contribute(list)
    PROVE  /\ EveryCheckReported'
           /\ RegistryOrder'
           /\ Attributed'
           /\ AuthorsPassed'
<1> DEFINE n == Len(findings)
           m == Len(findings')
<1>1. /\ Len(author') = m /\ m = n + Len(list) /\ Len(list) > 0
      /\ position' = position + 1
      /\ \A i \in 1..n : author'[i] = author[i]
      /\ \A i \in (n + 1)..m : author'[i] = position
      /\ author' \in Seq(1..Len(selected))
  BY ContributeLemma
<1>2. /\ n \in Nat /\ Len(list) \in Nat /\ DOMAIN author = 1..n /\ DOMAIN author' = 1..m
      /\ author \in Seq(1..Len(selected)) /\ position \in Nat
  BY <1>1 DEF TypeOK, Attributed, Running
<1>3. m \in Nat
  BY <1>1, <1>2
<1> HIDE DEF n, m
<1>4. EveryCheckReported'
  <2>1. ASSUME NEW k \in 1..(position' - 1)
        PROVE  \E i \in DOMAIN author' : author'[i] = k
    <3>1. CASE k = position
      <4>1. m \in DOMAIN author' /\ m \in (n + 1)..m
        BY <1>1, <1>2, <1>3
      <4> QED BY <4>1, <3>1, <1>1
    <3>2. CASE k # position
      <4>1. k \in 1..(position - 1)
        BY <3>2, <1>1, <1>2
      <4>2. PICK i \in DOMAIN author : author[i] = k
        BY <4>1 DEF EveryCheckReported
      <4> QED BY <4>2, <1>1, <1>2, <1>3
    <3> QED BY <3>1, <3>2
  <2>2. phase' # "done"
    BY DEF Running
  <2> QED BY <2>1, <2>2 DEF EveryCheckReported
<1>5. AuthorsPassed'
  <2> SUFFICES ASSUME NEW i \in DOMAIN author' PROVE author'[i] < position'
    BY DEF AuthorsPassed
  <2>1. CASE i \in 1..n
    BY <2>1, <1>1, <1>2 DEF AuthorsPassed
  <2>2. CASE i \in (n + 1)..m
    BY <2>2, <1>1, <1>2
  <2> QED BY <2>1, <2>2, <1>1, <1>2, <1>3
<1>6. RegistryOrder'
  <2> SUFFICES ASSUME NEW i \in DOMAIN author', NEW j \in DOMAIN author', i <= j
               PROVE  author'[i] <= author'[j]
    BY DEF RegistryOrder
  <2>1. CASE j \in 1..n
    <3>1. i \in 1..n
      BY <2>1, <1>2, <1>3
    <3>2. author[i] <= author[j]
      BY <2>1, <3>1, <1>2 DEF RegistryOrder
    <3> QED BY <2>1, <3>1, <3>2, <1>1
  <2>2. CASE j \in (n + 1)..m /\ i \in 1..n
    <3>1. author'[i] = author[i] /\ author'[j] = position
      BY <2>2, <1>1
    <3>2. author[i] < position /\ author[i] \in 1..Len(selected)
      BY <2>2, <1>2 DEF AuthorsPassed
    <3> QED BY <3>1, <3>2, <1>2
  <2>3. CASE j \in (n + 1)..m /\ i \in (n + 1)..m
    BY <2>3, <1>1, <1>2
  <2> QED BY <2>1, <2>2, <2>3, <1>1, <1>2, <1>3
<1>7. Attributed'
  BY <1>1 DEF Attributed, m
<1> QED
  BY <1>4, <1>5, <1>6, <1>7

(* The error finding of a check that raises is its only one, and the later *)
(* contributions of others leave it as it is.                              *)
LEMMA RaisedPreserved ==
    ASSUME IInv, Running, UNCHANGED selected,
           NEW list \in Seq(FindingOf(FindingId, AreaName)) \ {<<>>},
           Contribute(list),
           \/ raised' = raised
           \/ /\ raised' = raised \cup {position}
              /\ list = <<ErrorFinding(selected[position])>>
    PROVE  RaisedIsOnlyError' /\ RaisedPassed'
<1> DEFINE n == Len(findings)
           m == Len(findings')
<1>1. /\ Len(author') = m /\ m = n + Len(list) /\ Len(list) > 0
      /\ position' = position + 1
      /\ \A i \in 1..n : findings'[i] = findings[i] /\ author'[i] = author[i]
      /\ \A i \in (n + 1)..m : author'[i] = position /\ findings'[i] = list[i - n]
      /\ author' \in Seq(1..Len(selected))
  BY ContributeLemma DEF IInv, RunnerInv
<1>2. /\ n \in Nat /\ Len(list) \in Nat /\ DOMAIN author = 1..n /\ DOMAIN author' = 1..m
      /\ author \in Seq(1..Len(selected)) /\ position \in Nat
      /\ raised \subseteq Nat /\ m \in Nat /\ selected' = selected
  BY <1>1 DEF IInv, RunnerInv, TypeOK, Attributed, Running
<1>3. /\ \A i \in 1..n : author[i] < position
      /\ \A k \in raised : k < position
  BY <1>2 DEF IInv, AuthorsPassed, RaisedPassed
<1> HIDE DEF n, m
<1>4. RaisedPassed'
  <2>0. raised' = raised \/ raised' = raised \cup {position}
    OBVIOUS
  <2>1. \A k \in raised' : k \in raised \/ k = position
    <3>1. CASE raised' = raised
      BY <3>1, Zenon
    <3>2. CASE raised' = raised \cup {position}
      BY <3>2, Zenon
    <3> QED BY <2>0, <3>1, <3>2
  <2>2. \A k \in raised' : k \in Nat /\ k <= position
    <3> TAKE k \in raised'
    <3>1. CASE k \in raised
      BY <3>1, <1>2, <1>3
    <3>2. CASE k = position
      BY <3>2, <1>2
    <3> QED BY <2>1, <3>1, <3>2
  <2> QED BY <2>2, <1>1, <1>2 DEF RaisedPassed
<1>5. ASSUME NEW i \in 1..m, author'[i] \in raised'
      PROVE  /\ findings'[i] = ErrorFinding(selected'[author'[i]])
             /\ \A j \in 1..m : author'[j] = author'[i] => j = i
  <2>1. CASE i \in 1..n
    <3>1. author'[i] = author[i] /\ findings'[i] = findings[i] /\ author[i] < position
      BY <2>1, <1>1, <1>3
    <3>2. author[i] \in raised
      BY <3>1, <1>5, <1>2
    <3>3. /\ findings[i] = ErrorFinding(selected[author[i]])
          /\ \A j \in 1..n : author[j] = author[i] => j = i
      BY <2>1, <3>2, <1>2 DEF IInv, RunnerInv, RaisedIsOnlyError
    <3>4. ASSUME NEW j \in 1..m, author'[j] = author'[i]
          PROVE  j = i
      <4>1. CASE j \in 1..n
        BY <4>1, <3>1, <3>3, <3>4, <1>1
      <4>2. CASE j \in (n + 1)..m
        BY <4>2, <3>1, <3>4, <1>1, <1>2
      <4> QED BY <4>1, <4>2, <1>2
    <3> QED BY <3>1, <3>3, <3>4, <1>2
  <2>2. CASE i \in (n + 1)..m
    <3>1. author'[i] = position
      BY <2>2, <1>1
    <3>2. list = <<ErrorFinding(selected[position])>>
      BY <3>1, <1>5, <1>3, <1>2
    <3>3. Len(list) = 1 /\ list[1] = ErrorFinding(selected[position])
      BY <3>2
    <3>4. m = n + 1 /\ i = n + 1
      BY <2>2, <3>3, <1>1, <1>2
    <3>5. i - n = 1
      BY <3>4, <1>2
    <3>6. findings'[i] = ErrorFinding(selected'[author'[i]])
      BY <2>2, <3>1, <3>3, <3>5, <1>1, <1>2
    <3>7. ASSUME NEW j \in 1..m, author'[j] = author'[i]
          PROVE  j = i
      <4>1. CASE j \in 1..n
        BY <4>1, <3>1, <3>7, <1>1, <1>2, <1>3
      <4> QED BY <4>1, <3>4, <1>2
    <3> QED BY <3>6, <3>7
  <2> QED BY <2>1, <2>2, <1>2
<1>6. RaisedIsOnlyError'
  BY <1>5, <1>2 DEF RaisedIsOnlyError
<1> QED
  BY <1>4, <1>6

-----------------------------------------------------------------------------
(* The initial state satisfies the inductive invariant.                    *)
LEMMA InitIInv == RunnerInit => IInv
<1> SUFFICES ASSUME RunnerInit PROVE IInv
  OBVIOUS
<1> USE DEF RunnerInit
<1>1. TypeOK
  BY DEF TypeOK, Phase
<1>2. EveryCheckReported /\ RegistryOrder /\ Attributed /\ RaisedIsOnlyError
  BY DEF EveryCheckReported, RegistryOrder, Attributed, RaisedIsOnlyError
<1>3. AuthorsPassed /\ RaisedPassed /\ IdleIsEmpty
  BY DEF AuthorsPassed, RaisedPassed, IdleIsEmpty
<1> QED
  BY <1>1, <1>2, <1>3 DEF IInv, RunnerInv

(* A contribution of either kind preserves it.                             *)
LEMMA ContributionIInv ==
    ASSUME IInv, Running, UNCHANGED <<phase, selected>>,
           NEW list \in Seq(FindingOf(FindingId, AreaName)) \ {<<>>},
           Contribute(list),
           \/ raised' = raised
           \/ /\ raised' = raised \cup {position}
              /\ list = <<ErrorFinding(selected[position])>>
    PROVE  IInv'
<1>1. TypeOK /\ Attributed /\ EveryCheckReported /\ RegistryOrder /\ AuthorsPassed
  BY DEF IInv, RunnerInv
<1>2. EveryCheckReported' /\ RegistryOrder' /\ Attributed' /\ AuthorsPassed'
  BY <1>1, ContributePreserves
<1>3. RaisedIsOnlyError' /\ RaisedPassed'
  BY RaisedPreserved
<1>4. TypeOK'
  <2>1. /\ findings' \in Seq(FindingOf(FindingId, AreaName))
        /\ author' \in Seq(1..Len(selected)) /\ position' = position + 1
    BY <1>1, ContributeLemma
  <2>2. /\ position \in 1..Len(selected) /\ raised \subseteq 1..Len(selected)
        /\ Len(selected) \in Nat
    BY <1>1 DEF TypeOK, Running
  <2>3. position' \in 1..(Len(selected) + 1) /\ raised' \subseteq 1..Len(selected)
    <3>1. position' \in 1..(Len(selected) + 1)
      BY <2>1, <2>2
    <3>2. raised' = raised \/ raised' = raised \cup {position}
      OBVIOUS
    <3> QED BY <3>1, <3>2, <2>2
  <2>4. phase' \in Phase /\ selected' \in Seq(Check) /\ selected' = selected
    BY <1>1 DEF TypeOK
  <2> QED BY <2>1, <2>3, <2>4 DEF TypeOK
<1>5. IdleIsEmpty'
  BY DEF Running, IdleIsEmpty
<1> QED
  BY <1>2, <1>3, <1>4, <1>5 DEF IInv, RunnerInv

(* Every step of the runner preserves it: one case per action.             *)
LEMMA NextIInv == IInv /\ [RunnerNext]_runnerVars => IInv'
<1> SUFFICES ASSUME IInv, [RunnerNext]_runnerVars PROVE IInv'
  OBVIOUS
<1>1. ASSUME NEW checks \in Selections, Start(checks)
      PROVE  IInv'
  <2>1. /\ position = 1 /\ author = <<>> /\ findings = <<>> /\ raised = {}
        /\ position' = 1 /\ author' = <<>> /\ findings' = <<>> /\ raised' = {}
        /\ selected' = checks /\ phase' = "running"
    BY <1>1 DEF Start, IInv, IdleIsEmpty
  <2>2. selected' \in Seq(Check)
    BY <2>1, RunnerAssumption
  <2>3. TypeOK'
    BY <2>1, <2>2 DEF TypeOK, Phase
  <2>4. EveryCheckReported' /\ RegistryOrder' /\ Attributed' /\ RaisedIsOnlyError'
    BY <2>1 DEF EveryCheckReported, RegistryOrder, Attributed, RaisedIsOnlyError
  <2>5. AuthorsPassed' /\ RaisedPassed' /\ IdleIsEmpty'
    BY <2>1 DEF AuthorsPassed, RaisedPassed, IdleIsEmpty
  <2> QED BY <2>3, <2>4, <2>5 DEF IInv, RunnerInv
<1>2. CASE CheckReturns
  <2>1. PICK list \in Returns[selected[position]] : Contribute(list)
    BY <1>2 DEF CheckReturns
  <2>2. Running /\ UNCHANGED <<phase, selected, raised>>
    BY <1>2 DEF CheckReturns
  <2>3. list \in Seq(FindingOf(FindingId, AreaName)) \ {<<>>}
    BY <2>2, ReturnsTyped DEF IInv, RunnerInv
  <2> QED BY <2>1, <2>2, <2>3, ContributionIInv
<1>3. CASE CheckRaises
  <2>1. /\ Running /\ UNCHANGED <<phase, selected>>
        /\ raised' = raised \cup {position}
        /\ Contribute(<<ErrorFinding(selected[position])>>)
    BY <1>3 DEF CheckRaises
  <2>2. selected[position] \in Check
    BY <2>1 DEF IInv, RunnerInv, TypeOK, Running
  <2> QED BY <2>1, <2>2, ErrorFindingTyped, ContributionIInv
<1>4. CASE Finish
  <2>1. /\ position = Len(selected) + 1 /\ phase' = "done"
        /\ UNCHANGED <<selected, position, findings, author, raised>>
    BY <1>4 DEF Finish, IInv, RunnerInv, TypeOK
  <2> QED
    BY <2>1 DEF IInv, RunnerInv, TypeOK, Phase, EveryCheckReported, RegistryOrder,
                Attributed, RaisedIsOnlyError, AuthorsPassed, RaisedPassed, IdleIsEmpty
<1>5. CASE Interrupt
  BY <1>5 DEF Interrupt, IInv, RunnerInv, TypeOK, Phase, EveryCheckReported, RegistryOrder,
              Attributed, RaisedIsOnlyError, AuthorsPassed, RaisedPassed, IdleIsEmpty
<1>6. CASE UNCHANGED runnerVars
  BY <1>6 DEF runnerVars, IInv, RunnerInv, TypeOK, EveryCheckReported, RegistryOrder,
              Attributed, RaisedIsOnlyError, AuthorsPassed, RaisedPassed, IdleIsEmpty
<1> QED
  BY <1>1, <1>2, <1>3, <1>4, <1>5, <1>6 DEF RunnerNext, RunnerStep

-----------------------------------------------------------------------------
(* The inductive invariant holds throughout every scan.                    *)
THEOREM InductiveInvariant == RunnerSpec => []IInv
BY InitIInv, NextIInv, PTL DEF RunnerSpec

(* Type correctness of the runner (runner.py:12-28), for any registry and  *)
(* any selection of it.                                                    *)
THEOREM TypeCorrect == RunnerSpec => []TypeOK
<1>1. IInv => TypeOK
  BY DEF IInv, RunnerInv
<1> QED
  BY <1>1, InductiveInvariant, PTL

(* Fault isolation (runner.py:15-27): whichever checks raise, a finished   *)
(* report represents every selected check, in registry order, and a check  *)
(* that raised is represented by its error finding alone.                  *)
THEOREM FaultIsolation ==
    RunnerSpec => []FaultIsolated
<1>1. IInv => FaultIsolated
  BY DEF IInv, RunnerInv, FaultIsolated
<1> QED
  BY <1>1, InductiveInvariant, PTL

(* The report only grows (runner.py:16, 20-27): what a check has reported  *)
(* is never altered by a later check, raised or not.                       *)
THEOREM ReportGrows == RunnerSpec => AppendOnly
<1> DEFINE Grows == /\ Len(findings) <= Len(findings')
                    /\ \A i \in DOMAIN findings : findings'[i] = findings[i]
<1>1. IInv /\ [RunnerNext]_runnerVars => [Grows]_runnerVars
  <2> SUFFICES ASSUME IInv, RunnerNext PROVE Grows
    BY DEF runnerVars
  <2>1. findings \in Seq(FindingOf(FindingId, AreaName)) /\ Len(findings) \in Nat
    BY DEF IInv, RunnerInv, TypeOK
  <2>2. ASSUME Running, UNCHANGED selected, Contribute(<<ErrorFinding(selected[position])>>)
        PROVE  Grows
    <3>1. selected[position] \in Check
      BY <2>2 DEF IInv, RunnerInv, TypeOK, Running
    <3>2. /\ Len(findings') = Len(findings) + Len(<<ErrorFinding(selected[position])>>)
          /\ \A i \in 1..Len(findings) : findings'[i] = findings[i]
      BY <2>2, <3>1, ErrorFindingTyped, ContributeLemma DEF IInv, RunnerInv
    <3> QED BY <3>2, <2>1
  <2>3. ASSUME Running, UNCHANGED selected,
               NEW list \in Returns[selected[position]], Contribute(list)
        PROVE  Grows
    <3>1. list \in Seq(FindingOf(FindingId, AreaName)) \ {<<>>}
      BY <2>3, ReturnsTyped DEF IInv, RunnerInv
    <3>2. /\ Len(findings') = Len(findings) + Len(list) /\ Len(list) > 0
          /\ \A i \in 1..Len(findings) : findings'[i] = findings[i]
      BY <2>3, <3>1, ContributeLemma DEF IInv, RunnerInv
    <3>3. Len(list) \in Nat
      BY <3>1
    <3> QED BY <3>2, <3>3, <2>1
  <2>4. CASE UNCHANGED findings
    BY <2>4, <2>1
  <2> QED
    BY <2>2, <2>3, <2>4 DEF RunnerNext, RunnerStep, Start, CheckReturns, CheckRaises,
                            Finish, Interrupt
<1> QED
  BY <1>1, InductiveInvariant, PTL DEF RunnerSpec, AppendOnly

=============================================================================
