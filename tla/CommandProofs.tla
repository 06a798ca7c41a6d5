--------------------------- MODULE CommandProofs ---------------------------
(***************************************************************************)
(* The checks that ask other programs, for any services, repositories and  *)
(* answers, and any number of changes of the machine between two commands. *)
(***************************************************************************)
EXTENDS CommandScan, ListProofs

(* The repositories to query are those of the set, each of them once.      *)
LEMMA OrderedIs ==
    ASSUME NEW S \in SUBSET ToSet(repositories)
    PROVE  Ordered(S) \in Seq(S) /\ ToSet(Ordered(S)) = S /\ IsInjective(Ordered(S))
<1> DEFINE I == {i \in DOMAIN repositories : repositories[i] \in S}
           t == Ordered(S)
<1>1. I \in SUBSET DOMAIN repositories /\ repositories \in Seq(STRING)
  BY CommandScanAssumption
<1>2. t = ItemsAt(repositories, I)
  BY DEF Ordered
<1>3. \A i \in I : repositories[i] \in S
  OBVIOUS
<1>4. \A x \in S : \E i \in I : repositories[i] = x
  BY DEF ToSet
<1> HIDE DEF I, t
<1>5. /\ t \in Seq(STRING)
      /\ \A k \in DOMAIN t : \E i \in I : t[k] = repositories[i]
      /\ \A i \in I : \E k \in DOMAIN t : t[k] = repositories[i]
  BY <1>1, <1>2, ItemsAtKeeps
<1>6. \A k \in DOMAIN t : t[k] \in S
  BY <1>3, <1>5
<1>7. t \in Seq(S)
  BY <1>5, <1>6, LenProperties
<1>8. ToSet(t) = S
  BY <1>4, <1>5, <1>6 DEF ToSet
<1>9. IsInjective(t)
  BY <1>1, <1>2, ItemsAtInjective, CommandScanAssumption
<1> QED BY <1>7, <1>8, <1>9 DEF t

(* What a check may ever ask.                                              *)
Queries(c) == QueriesOf(c) \cup IF c = "signatures" THEN {"--repo-list"} ELSE {}

Types ==
    /\ check \in Checks
    /\ DOMAIN world = QueriesOf(check) /\ DOMAIN ever = QueriesOf(check)
    /\ \A q \in QueriesOf(check) :
          /\ world[q] \in Answers[q] /\ world[q] \in ever[q]
          /\ ever[q] \subseteq Answers[q] /\ IsFiniteSet(ever[q])
    /\ plan \in Seq(Queries(check))
    /\ DOMAIN results \subseteq Queries(check)
    /\ changes \in 0..MaxChanges

(* The repositories that were configured all along.                        *)
Kept == {p \in ToSet(repositories) : \A r \in ever[p] : r.returncode = 0}

(* A result is an answer that the program would have given at some moment  *)
(* since the start, or no answer at all.                                   *)
Genuine ==
    \A q \in DOMAIN results :
        \/ results[q] \in NotExecuted
        \/ q # "--repo-list" /\ results[q] \in ever[q]
        \/ q = "--repo-list" /\ results[q].returncode = 0 /\ Kept \subseteq results[q].stdout

(* Queries that decide about others are made on their own.                 *)
OneByOne == \A q \in ToSet(plan) \cap Special : plan = <<q>>

Covered(S) == S \subseteq DOMAIN results \cup ToSet(plan)

Proceeds(r) == r.returncode = 0 /\ r.stdout # {} /\ ~IsDisabled(r.stdout)

(* Nothing that the results so far call for is forgotten.                  *)
Progress ==
    /\ check = "firewall" => Covered(ToSet(services))
    /\ check = "ssh" =>
          /\ Covered({"sshd"})
          /\ "sshd" \in DOMAIN results /\ IsActive(results["sshd"]) => Covered({"sshd -T"})
    /\ check = "signatures" =>
          /\ Covered({"SigLevel"})
          /\ "SigLevel" \in DOMAIN results /\ Proceeds(results["SigLevel"])
                => Covered({"--repo-list"})
          /\ "--repo-list" \in DOMAIN results /\ results["--repo-list"].returncode = 0
                => Covered(ToSet(repositories) \cap results["--repo-list"].stdout)
    /\ check \notin {"firewall", "ssh", "signatures"} => Covered({check})

RaisedFinding == Single(Finding("error", "info", "high"))

(* The findings are the verdict on what the check has asked for, or the    *)
(* runner's error.                                                         *)
Concluded ==
    /\ Running => Progress
    /\ ~Running => \/ findings = RaisedFinding
                   \/ findings = Verdict /\ plan = <<>> /\ Progress

(* The signature check asks each repository once, the listed ones only, and *)
(* none before the global policy and the list have been obtained.          *)
SignatureSteps ==
    LET asked == DOMAIN results \cup ToSet(plan)
    IN  /\ IsInjective(plan) /\ ToSet(plan) \cap DOMAIN results = {}
        /\ "--repo-list" \in asked =>
              "SigLevel" \in DOMAIN results /\ Proceeds(results["SigLevel"])
        /\ asked \cap ToSet(repositories) # {} =>
              "--repo-list" \in DOMAIN results /\ results["--repo-list"].returncode = 0
        /\ \A p \in ToSet(plan) \cap ToSet(repositories) : p \in results["--repo-list"].stdout

(* A signature check that was cut short left a listed repository out.      *)
CutShort ==
    "--repo-list" \in DOMAIN results =>
        ~(ToSet(repositories) \cap results["--repo-list"].stdout \subseteq DOMAIN results)

SignaturesInOrder ==
    check = "signatures" =>
        /\ SignatureSteps
        /\ ~Running => CutShort \/ findings = Verdict

(* The firewall check asks each service once; when all have been asked it  *)
(* is the verdict that it reports.                                         *)
ServicesInOrder ==
    check = "firewall" =>
        /\ IsInjective(plan) /\ ToSet(plan) \cap DOMAIN results = {}
        /\ ~Running => ~(ToSet(services) \subseteq DOMAIN results) \/ findings = Verdict

Inductive == Types /\ Genuine /\ OneByOne /\ Concluded

-----------------------------------------------------------------------------
(* The queries of the checks do not get mixed up: each of the special ones *)
(* belongs to one check.                                                   *)
LEMMA SpecialQueries ==
    ASSUME NEW c \in Checks, NEW q \in Queries(c), q \in Special
    PROVE  \/ c = "ssh" /\ q \in {"sshd", "sshd -T"}
           \/ c = "signatures" /\ q \in {"SigLevel", "--repo-list"}
<1>1. c \in CheckName
  BY CommandScanAssumption
<1>2. CASE c = "firewall"
  BY <1>2, CommandScanAssumption DEF Queries, QueriesOf
<1>3. CASE c = "ssh"
  BY <1>3 DEF Queries, QueriesOf
<1>4. CASE c = "signatures"
  BY <1>4, CommandScanAssumption DEF Queries, QueriesOf
<1>5. CASE c \notin {"firewall", "ssh", "signatures"}
  BY <1>1, <1>5 DEF Queries, QueriesOf, CheckName, Special
<1> QED BY <1>2, <1>3, <1>4, <1>5

(* A plan that is not empty is its head and the rest.                      *)
LEMMA PlanParts ==
    ASSUME NEW S, NEW p \in Seq(S), p # <<>>
    PROVE  /\ Head(p) \in S /\ Tail(p) \in Seq(S)
           /\ ToSet(p) = {Head(p)} \cup ToSet(Tail(p))
<1>1. Len(p) \in Nat \ {0} /\ DOMAIN p = 1..Len(p) /\ \A i \in 1..Len(p) : p[i] \in S
  OBVIOUS
<1>2. Head(p) = p[1] /\ Tail(p) \in Seq(S) /\ Len(Tail(p)) = Len(p) - 1
      /\ \A i \in 1..(Len(p) - 1) : Tail(p)[i] = p[i + 1]
  OBVIOUS
<1>3. DOMAIN Tail(p) = 1..(Len(p) - 1)
  BY <1>2
<1>4. \A i \in 1..Len(p) : i = 1 \/ (i - 1 \in 1..(Len(p) - 1) /\ Tail(p)[i - 1] = p[i])
  BY <1>1, <1>2
<1>5. ToSet(p) \subseteq {Head(p)} \cup ToSet(Tail(p))
  <2> SUFFICES ASSUME NEW i \in 1..Len(p) PROVE p[i] \in {Head(p)} \cup ToSet(Tail(p))
    BY <1>1 DEF ToSet
  <2>1. CASE i = 1
    BY <1>2, <2>1
  <2>2. CASE i # 1
    <3>1. i - 1 \in DOMAIN Tail(p) /\ Tail(p)[i - 1] = p[i]
      BY <1>3, <1>4, <2>2
    <3> QED BY <3>1 DEF ToSet
  <2> QED BY <2>1, <2>2
<1>6. ToSet(Tail(p)) \subseteq ToSet(p)
  <2>1. \A i \in 1..(Len(p) - 1) : i + 1 \in 1..Len(p)
    BY <1>1
  <2> QED BY <1>1, <1>2, <1>3, <2>1 DEF ToSet
<1>7. Head(p) \in ToSet(p)
  BY <1>1, <1>2 DEF ToSet
<1> QED BY <1>1, <1>2, <1>5, <1>6, <1>7

(* The set of a plan with one query, or none.                              *)
LEMMA ShortPlans ==
    /\ ToSet(<<>>) = {} /\ \A q : ToSet(<<q>>) = {q}
    /\ \A S : <<>> \in Seq(S) /\ \A q \in S : <<q>> \in Seq(S)
BY DEF ToSet

(* What one command adds to the results.                                   *)
LEMMA OneMoreResult ==
    ASSUME NEW q, NEW r, results' = Noted(results, q, r)
    PROVE  /\ DOMAIN results' = DOMAIN results \cup {q}
           /\ results'[q] = r
           /\ \A p \in DOMAIN results \ {q} : results'[p] = results[p]
BY DEF Noted

(* What a check asks next is among its queries, and asked one by one.      *)
LEMMA NextPlan ==
    ASSUME Types, OneByOne, plan # <<>>, NEW r
    PROVE  LET next == NextQueries(Head(plan), r)
           IN  next \in Seq(Queries(check)) /\ \A q \in ToSet(next) \cap Special : next = <<q>>
<1> DEFINE h == Head(plan)
           next == NextQueries(h, r)
<1>1. /\ h \in Queries(check) /\ Tail(plan) \in Seq(Queries(check))
      /\ ToSet(plan) = {h} \cup ToSet(Tail(plan))
  BY PlanParts DEF Types
<1>2. CASE h = "sshd"
  <2>1. check = "ssh"
    BY <1>1, <1>2, SpecialQueries DEF Types, Special
  <2>2. next = <<"sshd -T">> \/ next = <<>>
    BY <1>2 DEF NextQueries
  <2>3. "sshd -T" \in Queries(check)
    BY <2>1 DEF Queries, QueriesOf
  <2>4. <<"sshd -T">> \in Seq(Queries(check)) /\ <<>> \in Seq(Queries(check))
    BY <2>3, ShortPlans
  <2> HIDE DEF next
  <2>5. next \in Seq(Queries(check)) /\ \A q \in ToSet(next) \cap Special : next = <<q>>
    BY <2>2, <2>4, ShortPlans
  <2> QED BY <2>5 DEF next
<1>3. CASE h = "SigLevel"
  <2>1. check = "signatures"
    BY <1>1, <1>3, SpecialQueries DEF Types, Special
  <2>2. next = <<"--repo-list">> \/ next = <<>>
    BY <1>3 DEF NextQueries
  <2>3. "--repo-list" \in Queries(check)
    BY <2>1 DEF Queries
  <2>4. <<"--repo-list">> \in Seq(Queries(check)) /\ <<>> \in Seq(Queries(check))
    BY <2>3, ShortPlans
  <2> HIDE DEF next
  <2>5. next \in Seq(Queries(check)) /\ \A q \in ToSet(next) \cap Special : next = <<q>>
    BY <2>2, <2>4, ShortPlans
  <2> QED BY <2>5 DEF next
<1>4. CASE h = "--repo-list"
  <2>1. check = "signatures"
    BY <1>1, <1>4, SpecialQueries DEF Types, Special
  <2>2. CASE next = <<>>
    BY <2>2, ShortPlans
  <2>3. CASE next = Ordered(ToSet(repositories) \cap r.stdout)
    <3>1. ToSet(repositories) \cap r.stdout \in SUBSET ToSet(repositories)
      OBVIOUS
    <3>2. next \in Seq(ToSet(repositories) \cap r.stdout)
          /\ ToSet(next) = ToSet(repositories) \cap r.stdout
      BY <2>3, <3>1, OrderedIs
    <3>3. ToSet(repositories) \subseteq Queries(check)
      BY <2>1 DEF Queries, QueriesOf
    <3>4. next \in Seq(Queries(check))
      BY <3>2, <3>3
    <3> QED BY <3>2, <3>4, CommandScanAssumption
  <2> QED BY <1>4, <2>2, <2>3 DEF NextQueries
<1>5. CASE h \notin {"sshd", "SigLevel", "--repo-list"}
  <2>1. next = Tail(plan)
    BY <1>5 DEF NextQueries
  <2>2. ASSUME NEW q \in ToSet(Tail(plan)) \cap Special PROVE next = <<q>>
    <3>1. plan = <<q>>
      BY <1>1, <2>2 DEF OneByOne
    <3>2. Tail(plan) = <<>>
      BY <3>1
    <3> QED BY <2>2, <3>2, ShortPlans
  <2> QED BY <1>1, <2>1, <2>2
<1> QED BY <1>2, <1>3, <1>4, <1>5

-----------------------------------------------------------------------------
LEMMA InitInductive == Init => Inductive
<1> SUFFICES ASSUME Init PROVE Inductive
  OBVIOUS
<1> USE CommandScanAssumption
<1>1. check \in CheckName /\ results = <<>> /\ DOMAIN results = {}
  BY DEF Init
<1>2. ToSet(plan) \subseteq Queries(check) /\ plan \in Seq(Queries(check))
  <2>1. CASE check = "firewall"
    <3>1. plan = services /\ Queries(check) = ToSet(services)
      BY <2>1 DEF Init, FirstQueries, Queries, QueriesOf
    <3>2. services \in Seq(ToSet(services))
      BY DEF ToSet
    <3> QED BY <3>1, <3>2
  <2>2. CASE check # "firewall"
    <3>1. PICK q \in Queries(check) : plan = <<q>>
      BY <1>1, <2>2 DEF Init, FirstQueries, Queries, QueriesOf, CheckName
    <3> QED BY <3>1, ShortPlans
  <2> QED BY <2>1, <2>2
<1>3. OneByOne
  <2>1. CASE check = "firewall"
    BY <2>1 DEF Init, FirstQueries, OneByOne
  <2>2. CASE check # "firewall"
    <3>1. PICK q : plan = <<q>>
      BY <1>1, <2>2 DEF Init, FirstQueries, CheckName
    <3> QED BY <3>1, ShortPlans DEF OneByOne
  <2> QED BY <2>1, <2>2
<1>4. Progress
  <2>1. CASE check = "firewall"
    BY <2>1, <1>1 DEF Init, FirstQueries, Progress, Covered
  <2>2. CASE check \in {"ssh", "signatures"}
    BY <2>2, <1>1, ShortPlans DEF Init, FirstQueries, Progress, Covered
  <2>3. CASE check \notin {"firewall", "ssh", "signatures"}
    BY <2>3, <1>1, ShortPlans DEF Init, FirstQueries, Progress, Covered
  <2> QED BY <2>1, <2>2, <2>3
<1>5. Types
  <2>1. /\ DOMAIN world = QueriesOf(check) /\ DOMAIN ever = QueriesOf(check)
        /\ \A q \in QueriesOf(check) : world[q] \in Answers[q] /\ ever[q] = {world[q]}
    <3>1. PICK w \in [QueriesOf(check) -> UNION {Answers[q] : q \in QueriesOf(check)}] :
             world = w /\ \A q \in DOMAIN w : w[q] \in Answers[q]
      BY DEF Init
    <3>2. ever = [q \in QueriesOf(check) |-> {world[q]}]
      BY DEF Init
    <3> QED BY <3>1, <3>2
  <2>2. \A q \in QueriesOf(check) : IsFiniteSet(ever[q])
    <3> SUFFICES ASSUME NEW q \in QueriesOf(check) PROVE IsFiniteSet(ever[q])
      OBVIOUS
    <3>1. ever[q] = {world[q]}
      BY <2>1
    <3> QED BY <3>1, FS_Singleton
  <2>3. changes = 0 /\ 0 \in 0..MaxChanges
    BY DEF Init
  <2> QED BY <1>1, <1>2, <2>1, <2>2, <2>3 DEF Init, Types
<1> QED
  BY <1>1, <1>3, <1>4, <1>5 DEF Init, Inductive, Genuine, Concluded, Running

(* One command, whatever its result, keeps the types and makes the result  *)
(* genuine: the repositories that were configured all along are configured *)
(* at the moment they are listed.                                          *)
LEMMA RunGenuine ==
    ASSUME Types, Genuine, OneByOne, Run
    PROVE  Types' /\ Genuine' /\ OneByOne'
<1> DEFINE h == Head(plan)
<1>1. PICK r \in Executed(Answer(h)) :
         results' = Noted(results, h, r) /\ plan' = NextQueries(h, r)
  BY DEF Run
<1>2. plan # <<>> /\ check' = check /\ world' = world /\ changes' = changes /\ ever' = ever
  BY DEF Run
<1>3. h \in Queries(check)
  BY <1>2, PlanParts DEF Types
<1>4. plan' \in Seq(Queries(check)) /\ \A q \in ToSet(plan') \cap Special : plan' = <<q>>
  BY <1>1, <1>2, NextPlan
<1>5. Types'
  <2>1. DOMAIN results' \subseteq Queries(check)
    <3>1. DOMAIN results' = DOMAIN results \cup {h}
      BY <1>1, OneMoreResult
    <3> QED BY <1>3, <3>1 DEF Types
  <2> QED BY <1>2, <1>4, <2>1 DEF Types
<1>6. OneByOne'
  BY <1>4 DEF OneByOne
<1>7. Genuine'
  <2>1. \/ r \in NotExecuted
        \/ h # "--repo-list" /\ r \in ever[h]
        \/ h = "--repo-list" /\ r.returncode = 0 /\ Kept \subseteq r.stdout
    <3>1. r = Answer(h) \/ r \in NotExecuted
      BY <1>1 DEF Executed
    <3>2. CASE r = Answer(h) /\ h # "--repo-list"
      <4>1. h \in QueriesOf(check)
        BY <1>3, <3>2 DEF Queries
      <4> QED BY <3>2, <4>1 DEF Answer, Types
    <3>3. CASE r = Answer(h) /\ h = "--repo-list"
      <4>1. r.returncode = 0 /\ r.stdout = Configured
        BY <3>3 DEF Answer, Result
      <4>2. check = "signatures"
        BY <1>3, <3>3, SpecialQueries DEF Types, Special
      <4>3. \A p \in ToSet(repositories) : world[p] \in ever[p]
        BY <4>2 DEF Types, QueriesOf
      <4> QED BY <3>3, <4>1, <4>3 DEF Configured, Kept
    <3> QED BY <3>1, <3>2, <3>3
  <2>2. Kept' = Kept
    BY <1>2 DEF Kept
  <2>3. /\ DOMAIN results' = DOMAIN results \cup {h} /\ results'[h] = r
        /\ \A q \in DOMAIN results \ {h} : results'[q] = results[q]
    BY <1>1, OneMoreResult
  <2> QED BY <1>2, <2>1, <2>2, <2>3 DEF Genuine
<1> QED BY <1>5, <1>6, <1>7

(* And what was asked for stays on the plan until it has run.              *)
LEMMA RunProgress ==
    ASSUME Types, OneByOne, Progress, Run
    PROVE  Progress'
<1> DEFINE h == Head(plan)
<1>1. PICK r :
         results' = Noted(results, h, r) /\ plan' = NextQueries(h, r)
  BY DEF Run
<1>2. plan # <<>> /\ check' = check
  BY DEF Run
<1>3. /\ h \in Queries(check) /\ ToSet(plan) = {h} \cup ToSet(Tail(plan))
  BY <1>2, PlanParts DEF Types
<1>4. /\ DOMAIN results' = DOMAIN results \cup {h} /\ results'[h] = r
      /\ \A q \in DOMAIN results \ {h} : results'[q] = results[q]
  BY <1>1, OneMoreResult
<1>5. h \notin {"sshd", "SigLevel", "--repo-list"} => plan' = Tail(plan)
  BY <1>1 DEF NextQueries
<1>6. h \in {"sshd", "SigLevel", "--repo-list"} => plan = <<h>>
  BY <1>3 DEF OneByOne, Special
<1> HIDE DEF h
<1>7. DOMAIN results \cup ToSet(plan) \subseteq DOMAIN results' \cup ToSet(plan')
  <2>1. ToSet(plan) \subseteq {h} \cup ToSet(plan')
    <3>1. CASE h \in {"sshd", "SigLevel", "--repo-list"}
      BY <1>6, <3>1, ShortPlans
    <3>2. CASE h \notin {"sshd", "SigLevel", "--repo-list"}
      BY <1>3, <1>5, <3>2
    <3> QED BY <3>1, <3>2
  <2> QED BY <1>4, <2>1
<1>8. CASE check = "firewall"
  BY <1>2, <1>7, <1>8 DEF Progress, Covered
<1>9. CASE check = "ssh"
  <2>1. ASSUME "sshd" \in DOMAIN results', IsActive(results'["sshd"])
        PROVE  Covered({"sshd -T"})'
    <3>1. CASE h = "sshd"
      <4>1. plan' = <<"sshd -T">>
        BY <1>1, <1>4, <2>1, <3>1 DEF NextQueries
      <4> QED BY <4>1, ShortPlans DEF Covered
    <3>2. CASE h # "sshd"
      <4>1. "sshd" \in DOMAIN results /\ results'["sshd"] = results["sshd"]
        BY <1>4, <2>1, <3>2
      <4> QED BY <1>7, <1>9, <2>1, <4>1 DEF Progress, Covered
    <3> QED BY <3>1, <3>2
  <2> QED BY <1>2, <1>7, <1>9, <2>1 DEF Progress, Covered
<1>10. CASE check = "signatures"
  <2>1. ASSUME "SigLevel" \in DOMAIN results', Proceeds(results'["SigLevel"])
        PROVE  Covered({"--repo-list"})'
    <3>1. CASE h = "SigLevel"
      <4>1. plan' = <<"--repo-list">>
        BY <1>1, <1>4, <2>1, <3>1 DEF NextQueries, Proceeds
      <4> QED BY <4>1, ShortPlans DEF Covered
    <3>2. CASE h # "SigLevel"
      <4>1. "SigLevel" \in DOMAIN results /\ results'["SigLevel"] = results["SigLevel"]
        BY <1>4, <2>1, <3>2
      <4> QED BY <1>7, <1>10, <2>1, <4>1 DEF Progress, Covered
    <3> QED BY <3>1, <3>2
  <2>2. ASSUME "--repo-list" \in DOMAIN results', results'["--repo-list"].returncode = 0
        PROVE  Covered(ToSet(repositories) \cap results["--repo-list"].stdout)'
    <3>1. CASE h = "--repo-list"
      <4>1. plan' = Ordered(ToSet(repositories) \cap r.stdout)
        BY <1>1, <1>4, <2>2, <3>1 DEF NextQueries
      <4>2. ToSet(plan') = ToSet(repositories) \cap r.stdout
        BY <4>1, OrderedIs
      <4> QED BY <1>4, <3>1, <4>2 DEF Covered
    <3>2. CASE h # "--repo-list"
      <4>1. "--repo-list" \in DOMAIN results /\ results'["--repo-list"] = results["--repo-list"]
        BY <1>4, <2>2, <3>2
      <4> QED BY <1>7, <1>10, <2>2, <4>1 DEF Progress, Covered
    <3> QED BY <3>1, <3>2
  <2> QED BY <1>2, <1>7, <1>10, <2>1, <2>2 DEF Progress, Covered
<1>11. CASE check \notin {"firewall", "ssh", "signatures"}
  BY <1>2, <1>7, <1>11 DEF Progress, Covered
<1> QED BY <1>8, <1>9, <1>10, <1>11

(* A change of the machine adds to what was, and leaves what is known.     *)
LEMMA ChangeInductive ==
    ASSUME Inductive, NEW q \in DOMAIN world, Change(q)
    PROVE  Inductive'
<1> USE DEF Inductive
<1>1. PICK r \in Answers[q] : world' = [world EXCEPT ![q] = r]
  BY DEF Change
<1>2. /\ ever' = [ever EXCEPT ![q] = @ \cup {world'[q]}]
      /\ Running /\ changes < MaxChanges /\ changes' = changes + 1
      /\ check' = check /\ plan' = plan /\ results' = results /\ findings' = findings
  BY DEF Change
<1>3. q \in QueriesOf(check) /\ DOMAIN world = QueriesOf(check) /\ DOMAIN ever = QueriesOf(check)
  BY DEF Types
<1>4. /\ DOMAIN world' = QueriesOf(check) /\ DOMAIN ever' = QueriesOf(check)
      /\ world'[q] = r /\ ever'[q] = ever[q] \cup {r}
      /\ \A p \in QueriesOf(check) \ {q} : world'[p] = world[p] /\ ever'[p] = ever[p]
  BY <1>1, <1>2, <1>3
<1>5. IsFiniteSet(ever[q] \cup {r})
  BY <1>3, FS_AddElement DEF Types
<1>6. changes' \in 0..MaxChanges
  BY <1>2, CommandScanAssumption DEF Types
<1>7. Types'
  <2>1. \A p \in QueriesOf(check) :
           /\ world'[p] \in Answers[p] /\ world'[p] \in ever'[p]
           /\ ever'[p] \subseteq Answers[p] /\ IsFiniteSet(ever'[p])
    BY <1>1, <1>3, <1>4, <1>5 DEF Types
  <2> QED BY <1>2, <1>4, <1>6, <2>1 DEF Types
<1>8. \A p : p \in QueriesOf(check) => ever[p] \subseteq ever'[p]
  BY <1>4
<1>9. Genuine'
  <2> SUFFICES ASSUME NEW p \in DOMAIN results
               PROVE  \/ results[p] \in NotExecuted
                      \/ p # "--repo-list" /\ results[p] \in ever'[p]
                      \/ /\ p = "--repo-list" /\ results[p].returncode = 0
                         /\ Kept' \subseteq results[p].stdout
    BY <1>2 DEF Genuine
  <2>1. CASE p # "--repo-list"
    <3>1. p \in QueriesOf(check)
      BY <2>1 DEF Types, Queries
    <3> QED BY <1>8, <2>1, <3>1 DEF Genuine
  <2>2. CASE p = "--repo-list"
    <3>1. check = "signatures"
      BY <2>2, SpecialQueries DEF Types, Special
    <3>2. Kept' \subseteq Kept
      BY <1>8, <3>1 DEF Kept, QueriesOf
    <3> QED BY <2>2, <3>2 DEF Genuine
  <2> QED BY <2>1, <2>2
<1>10. OneByOne' /\ Concluded'
  BY <1>2 DEF OneByOne, Concluded, Running, Progress, Covered
<1> QED BY <1>7, <1>9, <1>10

(* The verdict depends on nothing but the results.                         *)
LEMMA SameVerdict ==
    ASSUME check' = check, results' = results
    PROVE  Verdict' = Verdict /\ RaisedFinding' = RaisedFinding
BY DEF Verdict, RaisedFinding, Single, Firewall, Ssh, Setting, Signatures, Failing, Scoped, Effective

LEMMA NextInductive == Inductive /\ [Next]_vars => Inductive'
<1> SUFFICES ASSUME Inductive, [Next]_vars PROVE Inductive'
  OBVIOUS
<1> USE DEF Inductive
<1>1. CASE Run
  <2>1. Running /\ findings' = findings
    BY <1>1 DEF Run
  <2>2. Progress'
    BY <1>1, <2>1, RunProgress DEF Concluded
  <2> QED BY <1>1, <2>1, <2>2, RunGenuine DEF Concluded, Running
<1>2. CASE RunRaises
  <2>1. /\ findings' = RaisedFinding /\ plan' = <<>>
        /\ UNCHANGED <<check, world, results, changes, ever>>
    BY <1>2 DEF RunRaises, RaisedFinding
  <2>2. RaisedFinding' = RaisedFinding
    BY <2>1 DEF RaisedFinding, Single
  <2>3. RaisedFinding # <<>>
    BY DEF RaisedFinding, Single
  <2>4. Concluded'
    BY <2>1, <2>2, <2>3 DEF Concluded, Running
  <2>5. Types' /\ OneByOne' /\ Genuine'
    BY <2>1, ShortPlans DEF Types, OneByOne, Genuine, Kept
  <2> QED BY <2>4, <2>5
<1>3. CASE Report
  <2>1. /\ Running /\ plan = <<>> /\ findings' = Verdict
        /\ UNCHANGED <<check, world, plan, results, changes, ever>>
    BY <1>3 DEF Report
  <2>2. Verdict' = Verdict
    BY <2>1, SameVerdict
  <2>3. Progress'
    BY <2>1 DEF Concluded, Progress, Covered
  <2>4. Concluded'
    BY <2>1, <2>2, <2>3 DEF Concluded
  <2>5. Types' /\ OneByOne' /\ Genuine'
    BY <2>1 DEF Types, OneByOne, Genuine, Kept
  <2> QED BY <2>4, <2>5
<1>4. ASSUME NEW q \in DOMAIN world, Change(q) PROVE Inductive'
  BY <1>4, ChangeInductive
<1>5. CASE UNCHANGED vars
  <2>1. UNCHANGED <<check, world, plan, results, findings, changes, ever>>
    BY <1>5 DEF vars
  <2>2. Verdict' = Verdict /\ RaisedFinding' = RaisedFinding
    BY <2>1, SameVerdict
  <2>3. Concluded'
    BY <2>1, <2>2 DEF Concluded, Running, Progress, Covered
  <2> QED BY <2>1, <2>3 DEF Types, OneByOne, Genuine, Kept
<1> QED
  BY <1>1, <1>2, <1>3, <1>4, <1>5 DEF Next, CheckStep

(* Whatever changes between two commands, a check judges answers that were *)
(* true at some moment, and has asked for everything it judges by.         *)
THEOREM InductiveInvariant == Spec => []Inductive
BY InitInductive, NextInductive, PTL DEF Spec

-----------------------------------------------------------------------------
(* What is planned once and taken from the plan is not planned any more.   *)
LEMMA TakenOnce ==
    ASSUME NEW S, NEW p \in Seq(S), p # <<>>, IsInjective(p)
    PROVE  IsInjective(Tail(p)) /\ Head(p) \notin ToSet(Tail(p))
<1>1. Len(p) \in Nat \ {0} /\ DOMAIN p = 1..Len(p)
  OBVIOUS
<1>2. Head(p) = p[1] /\ DOMAIN Tail(p) = 1..(Len(p) - 1)
      /\ \A i \in 1..(Len(p) - 1) : Tail(p)[i] = p[i + 1]
  OBVIOUS
<1>3. \A i \in 1..(Len(p) - 1) : i + 1 \in DOMAIN p /\ 1 \in DOMAIN p /\ i + 1 # 1
  BY <1>1
<1>4. \A i, j \in 1..(Len(p) - 1) : p[i + 1] = p[j + 1] => i = j
  BY <1>1, <1>3 DEF IsInjective
<1>5. \A i \in 1..(Len(p) - 1) : p[i + 1] # p[1]
  BY <1>3 DEF IsInjective
<1> QED BY <1>2, <1>4, <1>5 DEF IsInjective, ToSet

(* A plan with one query, or none, has it once.                            *)
LEMMA ShortOnce == IsInjective(<<>>) /\ \A q : IsInjective(<<q>>)
BY DEF IsInjective

LEMMA InitSignatures == Init => SignaturesInOrder
<1> SUFFICES ASSUME Init, check = "signatures" PROVE SignatureSteps /\ Running
  BY DEF SignaturesInOrder
<1>1. plan = <<"SigLevel">> /\ DOMAIN results = {} /\ Running
  BY DEF Init, FirstQueries, Running
<1>2. "SigLevel" \notin ToSet(repositories)
  BY CommandScanAssumption DEF Special
<1> QED BY <1>1, <1>2, ShortPlans, ShortOnce DEF SignatureSteps

LEMMA RunSignatures ==
    ASSUME Types, OneByOne, SignatureSteps, check = "signatures", Run
    PROVE  SignatureSteps'
<1> DEFINE h == Head(plan)
           repos == ToSet(repositories)
<1>1. PICK r :
         results' = Noted(results, h, r) /\ plan' = NextQueries(h, r)
  BY DEF Run
<1>2. /\ h \in Queries(check) /\ ToSet(plan) = {h} \cup ToSet(Tail(plan))
      /\ IsInjective(Tail(plan)) /\ h \notin ToSet(Tail(plan))
  BY PlanParts, TakenOnce DEF Types, Run, SignatureSteps
<1>3. /\ DOMAIN results' = DOMAIN results \cup {h} /\ results'[h] = r
      /\ \A q \in DOMAIN results \ {h} : results'[q] = results[q]
  BY <1>1, OneMoreResult
<1>4. h \in {"SigLevel", "--repo-list"} \cup repos
  BY <1>2 DEF Queries, QueriesOf
<1>5. repos \cap {"SigLevel", "--repo-list"} = {}
  BY CommandScanAssumption DEF Special
<1>6. h \in {"SigLevel", "--repo-list"} => plan = <<h>>
  BY <1>2 DEF OneByOne, Special
<1>7. h \notin DOMAIN results
  BY <1>2 DEF SignatureSteps
<1> HIDE DEF h, repos
<1>8. CASE h = "SigLevel"
  <2>1. ToSet(plan) = {h} /\ "--repo-list" \notin DOMAIN results /\ DOMAIN results \cap repos = {}
    BY <1>6, <1>7, <1>8, ShortPlans DEF SignatureSteps, repos
  <2>2. CASE Proceeds(r)
    <3>1. plan' = <<"--repo-list">>
      BY <1>1, <1>8, <2>2 DEF NextQueries, Proceeds
    <3> QED BY <1>3, <1>5, <1>8, <2>1, <2>2, <3>1, ShortPlans, ShortOnce DEF SignatureSteps, repos
  <2>3. CASE ~Proceeds(r)
    <3>1. plan' = <<>>
      BY <1>1, <1>8, <2>3 DEF NextQueries, Proceeds
    <3> QED BY <1>3, <1>5, <1>8, <2>1, <3>1, ShortPlans, ShortOnce DEF SignatureSteps, repos
  <2> QED BY <2>2, <2>3
<1>9. CASE h = "--repo-list"
  <2>1. /\ ToSet(plan) = {h} /\ DOMAIN results \cap repos = {}
        /\ "SigLevel" \in DOMAIN results /\ Proceeds(results["SigLevel"])
    BY <1>6, <1>7, <1>9, ShortPlans DEF SignatureSteps, repos
  <2>2. CASE r.returncode = 0
    <3>1. plan' = Ordered(repos \cap r.stdout)
      BY <1>1, <1>9, <2>2 DEF NextQueries, repos
    <3>2. ToSet(plan') = repos \cap r.stdout /\ IsInjective(plan')
      BY <3>1, OrderedIs DEF repos
    <3> QED BY <1>3, <1>5, <1>9, <2>1, <2>2, <3>2 DEF SignatureSteps, repos
  <2>3. CASE r.returncode # 0
    <3>1. plan' = <<>>
      BY <1>1, <1>9, <2>3 DEF NextQueries
    <3> QED BY <1>3, <1>5, <1>9, <2>1, <3>1, ShortPlans, ShortOnce DEF SignatureSteps, repos
  <2> QED BY <2>2, <2>3
<1>10. CASE h \in repos
  <2>1. plan' = Tail(plan)
    <3>1. h \notin Special
      BY <1>10, CommandScanAssumption DEF repos
    <3> QED BY <1>1, <3>1 DEF NextQueries, Special
  <2>2. /\ "--repo-list" \in DOMAIN results /\ results["--repo-list"].returncode = 0
        /\ "SigLevel" \in DOMAIN results /\ Proceeds(results["SigLevel"])
    BY <1>2, <1>10 DEF SignatureSteps, repos
  <2>3. results'["--repo-list"] = results["--repo-list"] /\ results'["SigLevel"] = results["SigLevel"]
    BY <1>3, <1>5, <1>10, <2>2
  <2>4. ToSet(plan') \subseteq ToSet(plan) /\ ToSet(plan') \cap DOMAIN results' = {}
    BY <1>2, <1>3, <2>1 DEF SignatureSteps
  <2> QED BY <1>2, <1>3, <2>1, <2>2, <2>3, <2>4 DEF SignatureSteps, repos
<1> QED BY <1>4, <1>8, <1>9, <1>10

LEMMA NextSignatures == Inductive /\ SignaturesInOrder /\ [Next]_vars => SignaturesInOrder'
<1> SUFFICES ASSUME Inductive, SignaturesInOrder, [Next]_vars, check' = "signatures"
             PROVE  SignatureSteps' /\ (~Running' => CutShort' \/ findings' = Verdict')
  BY DEF SignaturesInOrder
<1>1. check = "signatures"
  BY DEF Next, CheckStep, Run, RunRaises, Report, Change, vars
<1>2. SignatureSteps /\ (~Running => CutShort \/ findings = Verdict)
  BY <1>1 DEF SignaturesInOrder
<1>3. CASE Run
  BY <1>1, <1>2, <1>3, RunSignatures DEF Inductive, Run, Running
<1>4. CASE RunRaises
  <2> DEFINE h == Head(plan)
  <2>1. h \in ToSet(plan) /\ h \in Queries(check)
    BY <1>4, PlanParts DEF RunRaises, Inductive, Types
  <2>2. plan' = <<>> /\ results' = results
    BY <1>4 DEF RunRaises
  <2>3. CutShort
    <3> SUFFICES ASSUME "--repo-list" \in DOMAIN results
                 PROVE  h \in ToSet(repositories) \cap results["--repo-list"].stdout
                        /\ h \notin DOMAIN results
      BY DEF CutShort
    <3>1. h \notin DOMAIN results
      BY <1>2, <2>1 DEF SignatureSteps
    <3>2. h \in ToSet(repositories)
      BY <1>1, <1>2, <2>1, <3>1 DEF Queries, QueriesOf, SignatureSteps
    <3> QED BY <1>2, <2>1, <3>1, <3>2 DEF SignatureSteps
  <2> QED BY <1>2, <2>2, <2>3, ShortPlans, ShortOnce DEF SignatureSteps, CutShort
<1>5. CASE Report
  <2>1. findings' = Verdict /\ check' = check /\ results' = results /\ plan' = plan
    BY <1>5 DEF Report
  <2>2. Verdict' = Verdict
    BY <2>1, SameVerdict
  <2> QED BY <1>2, <2>1, <2>2 DEF SignatureSteps
<1>6. CASE \E q \in DOMAIN world : Change(q)
  BY <1>2, <1>6 DEF Change, Running, SignatureSteps
<1>7. CASE UNCHANGED vars
  <2>1. UNCHANGED <<check, plan, results, findings>>
    BY <1>7 DEF vars
  <2>2. Verdict' = Verdict
    BY <2>1, SameVerdict
  <2> QED BY <1>2, <2>1, <2>2 DEF SignatureSteps, CutShort, Running
<1> QED BY <1>3, <1>4, <1>5, <1>6, <1>7 DEF Next, CheckStep

(* The signature check asks the listed repositories, each of them once,    *)
(* and nothing that it asked twice or out of order can change its verdict  *)
(* (package_trust.py:25-74).                                               *)
THEOREM SignatureOrder == Spec => []SignaturesInOrder
BY InitSignatures, NextSignatures, InductiveInvariant, PTL DEF Spec

-----------------------------------------------------------------------------
LEMMA InitServices == Init => ServicesInOrder
<1> SUFFICES ASSUME Init, check = "firewall"
             PROVE  IsInjective(plan) /\ ToSet(plan) \cap DOMAIN results = {} /\ Running
  BY DEF ServicesInOrder
<1> QED BY CommandScanAssumption DEF Init, FirstQueries, Running

LEMMA NextServices == Inductive /\ ServicesInOrder /\ [Next]_vars => ServicesInOrder'
<1> SUFFICES ASSUME Inductive, ServicesInOrder, [Next]_vars, check' = "firewall"
             PROVE  /\ IsInjective(plan') /\ ToSet(plan') \cap DOMAIN results' = {}
                    /\ ~Running' => \/ ~(ToSet(services) \subseteq DOMAIN results')
                                    \/ findings' = Verdict'
  BY DEF ServicesInOrder
<1>1. check = "firewall" /\ check' = check
  BY DEF Next, CheckStep, Run, RunRaises, Report, Change, vars
<1>2. /\ IsInjective(plan) /\ ToSet(plan) \cap DOMAIN results = {}
      /\ ~Running => ~(ToSet(services) \subseteq DOMAIN results) \/ findings = Verdict
  BY <1>1 DEF ServicesInOrder
<1>3. CASE Run
  <2> DEFINE h == Head(plan)
  <2>1. PICK r : results' = Noted(results, h, r) /\ plan' = NextQueries(h, r)
    BY <1>3 DEF Run
  <2>2. /\ h \in Queries(check) /\ ToSet(plan) = {h} \cup ToSet(Tail(plan))
        /\ IsInjective(Tail(plan)) /\ h \notin ToSet(Tail(plan))
    BY <1>2, <1>3, PlanParts, TakenOnce DEF Run, Inductive, Types
  <2>3. DOMAIN results' = DOMAIN results \cup {h}
    BY <2>1, OneMoreResult
  <2>4. h \notin Special
    BY <1>1, <2>2, SpecialQueries DEF Inductive, Types
  <2>5. plan' = Tail(plan)
    BY <2>1, <2>4 DEF NextQueries, Special
  <2>6. Running'
    BY <1>3 DEF Run, Running
  <2> QED BY <1>2, <2>2, <2>3, <2>5, <2>6
<1>4. CASE RunRaises
  <2> DEFINE h == Head(plan)
  <2>1. h \in ToSet(plan) /\ h \in Queries(check)
    BY <1>4, PlanParts DEF RunRaises, Inductive, Types
  <2>2. plan' = <<>> /\ results' = results
    BY <1>4 DEF RunRaises
  <2>3. h \in ToSet(services) /\ h \notin DOMAIN results
    BY <1>1, <1>2, <2>1 DEF Queries, QueriesOf
  <2> QED BY <2>2, <2>3, ShortPlans, ShortOnce
<1>5. CASE Report
  <2>1. findings' = Verdict /\ results' = results /\ plan' = plan
    BY <1>5 DEF Report
  <2>2. Verdict' = Verdict
    BY <1>1, <2>1, SameVerdict
  <2> QED BY <1>2, <2>1, <2>2
<1>6. CASE \E q \in DOMAIN world : Change(q)
  BY <1>2, <1>6 DEF Change, Running
<1>7. CASE UNCHANGED vars
  <2>1. UNCHANGED <<check, plan, results, findings>>
    BY <1>7 DEF vars
  <2>2. Verdict' = Verdict
    BY <2>1, SameVerdict
  <2> QED BY <1>2, <2>1, <2>2 DEF Running
<1> QED BY <1>3, <1>4, <1>5, <1>6, <1>7 DEF Next, CheckStep

(* An exception leaves the firewall check with a service that it has not   *)
(* asked; otherwise it reports what the answers say (firewall.py:14-28).   *)
LEMMA ServiceOrder == Spec => []ServicesInOrder
BY InitServices, NextServices, InductiveInvariant, PTL DEF Spec

-----------------------------------------------------------------------------
(* A finding of a finished check that is not the runner's error.           *)
LEMMA VerdictFacts ==
    ASSUME Inductive, NEW id \in DOMAIN findings
    PROVE  \/ findings[id].status = "error" /\ findings = RaisedFinding
           \/ findings = Verdict /\ ToSet(plan) = {} /\ Progress
<1>1. ~Running
  BY DEF Running
<1> QED BY <1>1, ShortPlans DEF Inductive, Concluded, RaisedFinding, Single, Finding

(* What an answer that was not executed looks like.                        *)
LEMMA NotExecutedFacts ==
    ASSUME NEW r \in NotExecuted
    PROVE  /\ r.returncode \in {124, 126, 127} /\ r.stdout = {"message"}
           /\ ~IsActive(r) /\ ~IsInactive(r)
BY DEF NotExecuted, Result, Diagnostics, IsActive, IsInactive

(* A failure or a review of sshd's settings needs a server that was seen   *)
(* running, and judges all settings (ssh.py:14-41).                        *)
THEOREM SettingsJudgedWithServer == Spec => []SettingsNeedAServer
<1>1. Inductive => SettingsNeedAServer
  <2> SUFFICES ASSUME Inductive, check = "ssh",
                      NEW id \in DOMAIN findings, findings[id].status = "fail"
               PROVE  /\ DOMAIN findings = DOMAIN SshSettings
                      /\ IsActive(results["sshd"]) /\ results["sshd"] \in ever["sshd"]
    BY DEF SettingsNeedAServer, Reported
  <2>1. findings = Ssh /\ "sshd" \in DOMAIN results
    BY VerdictFacts DEF Verdict, Progress, Covered
  <2>2. IsActive(results["sshd"]) /\ results["sshd -T"].returncode = 0
    <3>1. CASE IsInactive(results["sshd"])
      <4>1. ~IsActive(results["sshd"])
        BY <3>1 DEF IsActive, IsInactive
      <4>2. findings = Single(Finding("not_applicable", "info", "high"))
        BY <2>1, <3>1, <4>1 DEF Ssh
      <4> QED BY <4>2 DEF Single, Finding
    <3>2. CASE ~IsInactive(results["sshd"]) /\ ~IsActive(results["sshd"])
      BY <2>1, <3>2 DEF Ssh, Single, Unknown, Finding
    <3>3. CASE IsActive(results["sshd"]) /\ results["sshd -T"].returncode # 0
      <4>1. ~IsInactive(results["sshd"])
        BY <3>3 DEF IsActive, IsInactive
      <4>2. findings = Single(Unavailable(results["sshd -T"]))
        BY <2>1, <3>3, <4>1 DEF Ssh
      <4> QED BY <4>2 DEF Single, Unavailable, Unknown, Unfinished, Finding
    <3> QED BY <3>1, <3>2, <3>3
  <2>3. findings = [key \in DOMAIN SshSettings |-> Setting(key, SshSettings[key])]
    <3>1. ~IsInactive(results["sshd"])
      BY <2>2 DEF IsActive, IsInactive
    <3> QED BY <2>1, <2>2, <3>1 DEF Ssh
  <2>4. results["sshd"] \in ever["sshd"]
    <3>1. results["sshd"] \notin NotExecuted
      BY <2>2, NotExecutedFacts
    <3> QED BY <2>1, <3>1 DEF Inductive, Genuine
  <2> QED BY <2>2, <2>3, <2>4
<1> QED
  BY <1>1, InductiveInvariant, PTL

(* A firewall that is up throughout and answers makes the check pass once  *)
(* all services were asked, whatever the others answer and whatever goes   *)
(* wrong with their queries (firewall.py:14-46).                           *)
THEOREM ActiveFirewallRecognised == Spec => []ActiveFirewallPasses
<1>1. Inductive /\ ServicesInOrder => ActiveFirewallPasses
  <2> SUFFICES ASSUME Inductive, ServicesInOrder, check = "firewall", ~Running,
                      ToSet(services) \subseteq DOMAIN results, NEW s \in ToSet(services),
                      Throughout(s), Answered(s), IsActive(world[s])
               PROVE  Reported("pass")
    BY DEF ActiveFirewallPasses
  <2>1. findings = Single(Firewall)
    BY DEF ServicesInOrder, Verdict
  <2>2. s \in QueriesOf(check) /\ s # "--repo-list" /\ s \in DOMAIN results
    BY CommandScanAssumption DEF QueriesOf, Special
  <2>3. results[s] \in ever[s] /\ world[s] \in ever[s] /\ IsFiniteSet(ever[s])
    BY <2>2 DEF Answered, Inductive, Genuine, Types
  <2>4. PICK r : ever[s] = {r}
    BY <2>3, FS_Singleton DEF Throughout
  <2>5. IsActive(results[s])
    BY <2>3, <2>4
  <2>6. Firewall.status = "pass"
    <3>1. {t \in DOMAIN results : IsActive(results[t])} # {}
      BY <2>2, <2>5
    <3> QED BY <3>1 DEF Firewall, Finding
  <2> QED BY <2>1, <2>6 DEF Reported, Single
<1> QED
  BY <1>1, InductiveInvariant, ServiceOrder, PTL

(* A pass of the firewall or of the signature check is earned: a service   *)
(* was active; every repository that was configured all along answered     *)
(* with verification on (firewall.py:28-32, package_trust.py:57-90).       *)
THEOREM PassesAreEarned == Spec => []PassIsEarned
<1>1. Inductive => PassIsEarned
  <2> SUFFICES ASSUME Inductive, NEW id \in DOMAIN findings, findings[id].status = "pass"
               PROVE  /\ check = "firewall" =>
                            \E s \in DOMAIN world : \E r \in ever[s] : IsActive(r)
                      /\ check = "signatures" =>
                            \A p \in ToSet(repositories) :
                                (\A r \in ever[p] : r.returncode = 0) =>
                                    Answered(p) /\ \E r \in ever[p] : ~IsDisabled(r.stdout)
    BY DEF PassIsEarned, Reported
  <2>1. findings = Verdict /\ ToSet(plan) = {} /\ Progress
    BY VerdictFacts
  <2>2. ASSUME check = "firewall"
        PROVE  \E s \in DOMAIN world : \E r \in ever[s] : IsActive(r)
    <3>1. Firewall.status = "pass"
      BY <2>1, <2>2 DEF Verdict, Single
    <3>2. PICK s \in DOMAIN results : IsActive(results[s])
      <4>1. CASE {s \in DOMAIN results : IsActive(results[s])} = {}
        BY <3>1, <4>1 DEF Firewall, Finding, Unknown
      <4> QED BY <4>1
    <3>3. s \in DOMAIN world /\ s # "--repo-list"
      BY <2>2, CommandScanAssumption DEF Inductive, Types, Queries, QueriesOf, Special
    <3>4. results[s] \in ever[s]
      BY <3>2, <3>3, NotExecutedFacts DEF Inductive, Genuine
    <3> QED BY <3>2, <3>3, <3>4
  <2>3. ASSUME check = "signatures", NEW p \in ToSet(repositories),
               \A r \in ever[p] : r.returncode = 0
        PROVE  Answered(p) /\ \E r \in ever[p] : ~IsDisabled(r.stdout)
    <3> DEFINE global == results["SigLevel"]
               unsafe == {r \in Scoped \ Failing : IsDisabled(Effective(r))}
               errors == Scoped \cap Failing
    <3>1. Signatures.status = "pass"
      BY <2>1, <2>3 DEF Verdict, Single
    <3>2. /\ global.returncode = 0 /\ global.stdout # {} /\ ~IsDisabled(global.stdout)
          /\ "--repo-list" \notin Failing /\ unsafe = {} /\ errors = {}
      BY <3>1 DEF Signatures, Unavailable, Unknown, Unfinished, Finding
    <3>3. "SigLevel" \in DOMAIN results
      BY <2>1, <2>3 DEF Progress, Covered
    <3>4. "--repo-list" \in DOMAIN results /\ results["--repo-list"].returncode = 0
      <4>1. "--repo-list" \in DOMAIN results
        BY <2>1, <2>3, <3>2, <3>3 DEF Progress, Covered, Proceeds
      <4> QED BY <3>2, <4>1 DEF Failing
    <3>5. p \in results["--repo-list"].stdout
      BY <2>3, <3>4, NotExecutedFacts DEF Inductive, Genuine, Kept
    <3>6. p \in DOMAIN results
      BY <2>1, <2>3, <3>4, <3>5 DEF Progress, Covered
    <3>7. results[p].returncode = 0 /\ ~IsDisabled(Effective(p))
      BY <2>3, <3>2, <3>6 DEF Scoped, Failing
    <3>8. results[p] \notin NotExecuted
      BY <3>7, NotExecutedFacts
    <3>9. results[p] \in ever[p]
      <4>1. p # "--repo-list"
        BY <2>3, CommandScanAssumption DEF Special
      <4> QED BY <3>6, <3>8, <4>1 DEF Inductive, Genuine
    <3>10. ~IsDisabled(results[p].stdout)
      <4>1. CASE results[p].stdout = {}
        BY <4>1 DEF IsDisabled
      <4>2. CASE results[p].stdout # {}
        BY <3>7, <4>2 DEF Effective
      <4> QED BY <4>1, <4>2
    <3> QED BY <3>6, <3>8, <3>9, <3>10 DEF Answered
  <2> QED BY <2>2, <2>3
<1> QED
  BY <1>1, InductiveInvariant, PTL

(* What the checks make of messages instead of answers.                    *)
LEMMA NoAnswerNoVerdict ==
    ASSUME NEW r \in NotExecuted
    PROVE  /\ \A f \in {Updates(r), Foreign(r), Vulnerabilities(r), Listeners(r),
                        DebugShell(r), Ntp(r), Unavailable(r)} :
                 f.status \in {"unknown", "error"}
<1>1. r.returncode \in {124, 126, 127} /\ r.stdout = {"message"}
  BY NotExecutedFacts
<1>2. Updates(r).status \in {"unknown", "error"}
  BY <1>1 DEF Updates, Finding
<1>3. Foreign(r).status \in {"unknown", "error"}
  BY <1>1 DEF Foreign, Finding, Unknown, Unfinished
<1>4. Vulnerabilities(r).status \in {"unknown", "error"}
  BY <1>1 DEF Vulnerabilities, Finding, Unfinished
<1>5. Listeners(r).status \in {"unknown", "error"}
  BY <1>1 DEF Listeners, Unavailable, Finding, Unknown, Unfinished
<1>6. DebugShell(r).status \in {"unknown", "error"}
  <2>1. r.stdout # {"disabled"} /\ r.returncode # 0
    BY <1>1
  <2> QED BY <2>1 DEF DebugShell, Finding, Unknown
<1>7. Ntp(r).status \in {"unknown", "error"}
  BY <1>1 DEF Ntp, Finding, Unknown
<1>8. Unavailable(r).status \in {"unknown", "error"}
  BY DEF Unavailable, Finding, Unknown, Unfinished
<1> QED BY <1>2, <1>3, <1>4, <1>5, <1>6, <1>7, <1>8

(* Programs that are missing, refused or never end are no evidence: for    *)
(* every check, service and repository, messages of the executor are never *)
(* read as data (README.md:63-64; commands.py:25-51).                      *)
THEOREM MessagesAreNoEvidence == Spec => []NoEvidenceNoVerdict
<1>1. Inductive => NoEvidenceNoVerdict
  <2> SUFFICES ASSUME Inductive, \A q \in DOMAIN results : results[q] \in NotExecuted,
                      NEW id \in DOMAIN findings
               PROVE  findings[id].status \in {"unknown", "error"}
    BY DEF NoEvidenceNoVerdict, Answered
  <2>1. CASE findings = RaisedFinding
    BY <2>1 DEF RaisedFinding, Single, Finding
  <2>2. CASE findings = Verdict /\ ToSet(plan) = {} /\ Progress
    <3>1. CASE check = "firewall"
      <4>1. \A s \in DOMAIN results : ~IsActive(results[s]) /\ ~IsInactive(results[s])
        BY NotExecutedFacts
      <4>2. {s \in DOMAIN results : IsActive(results[s])} = {}
            /\ {s \in DOMAIN results : IsInactive(results[s])} = {}
        BY <4>1
      <4>3. Firewall = Unknown
        BY <4>2 DEF Firewall
      <4>4. findings = Single(Unknown)
        BY <2>2, <3>1, <4>3 DEF Verdict
      <4> QED BY <4>4 DEF Single, Unknown, Finding
    <3>2. CASE check = "ssh"
      <4>1. "sshd" \in DOMAIN results
        BY <2>2, <3>2 DEF Progress, Covered
      <4>2. ~IsActive(results["sshd"]) /\ ~IsInactive(results["sshd"])
        BY <4>1, NotExecutedFacts
      <4>3. findings = Single(Unknown)
        BY <2>2, <3>2, <4>2 DEF Verdict, Ssh
      <4> QED BY <4>3 DEF Single, Unknown, Finding
    <3>3. CASE check = "signatures"
      <4>1. "SigLevel" \in DOMAIN results
        BY <2>2, <3>3 DEF Progress, Covered
      <4>2. /\ results["SigLevel"] \in NotExecuted
            /\ results["SigLevel"].returncode # 0
        BY <4>1, NotExecutedFacts
      <4>3. Unavailable(results["SigLevel"]).status \in {"unknown", "error"}
        BY <4>2, NoAnswerNoVerdict
      <4>4. Signatures = Finding(Unavailable(results["SigLevel"]).status, "info", "high")
        BY <4>2 DEF Signatures
      <4>5. findings = Single(Signatures)
        BY <2>2, <3>3 DEF Verdict
      <4> QED BY <4>3, <4>4, <4>5 DEF Single, Finding
    <3>4. CASE check \notin {"firewall", "ssh", "signatures"}
      <4>1. check \in DOMAIN results /\ results[check] \in NotExecuted
        BY <2>2, <3>4 DEF Progress, Covered
      <4>2. check \in {"updates", "foreign", "vulnerabilities", "listeners", "debug-shell", "ntp"}
        BY <3>4, CommandScanAssumption DEF Inductive, Types, CheckName
      <4>3. \E f \in {Updates(results[check]), Foreign(results[check]),
                      Vulnerabilities(results[check]), Listeners(results[check]),
                      DebugShell(results[check]), Ntp(results[check])} : findings = Single(f)
        BY <2>2, <4>2 DEF Verdict
      <4> QED BY <4>1, <4>3, NoAnswerNoVerdict DEF Single
    <3> QED BY <3>1, <3>2, <3>3, <3>4
  <2> QED BY <2>1, <2>2, VerdictFacts
<1> QED
  BY <1>1, InductiveInvariant, PTL

(* A repository that turns verification off all along and answers fails    *)
(* the check, whatever goes wrong with the others (package_trust.py:57-74).*)
THEOREM OverridesShow == Spec => []OverrideNeverMasked
<1>1. Inductive /\ SignaturesInOrder => OverrideNeverMasked
  <2> SUFFICES ASSUME Inductive, SignaturesInOrder, NEW p \in Scoped, check = "signatures",
                      ~Running, Answered(p), ever[p] = {Result(0, {"Never"})},
                      ToSet(repositories) \cap results["--repo-list"].stdout \subseteq DOMAIN results
               PROVE  Reported("fail")
    BY DEF OverrideNeverMasked
  <2> DEFINE global == results["SigLevel"]
             unsafe == {r \in Scoped \ Failing : IsDisabled(Effective(r))}
  <2>1. p \in DOMAIN results /\ p \in ToSet(repositories)
    BY DEF Scoped
  <2>2. SignatureSteps /\ (CutShort \/ findings = Verdict)
    BY DEF SignaturesInOrder
  <2>3. "--repo-list" \in DOMAIN results /\ results["--repo-list"].returncode = 0
    BY <2>1, <2>2 DEF SignatureSteps
  <2>4. "SigLevel" \in DOMAIN results /\ Proceeds(global)
    BY <2>2, <2>3 DEF SignatureSteps
  <2>5. findings = Single(Signatures)
    BY <2>2, <2>3 DEF CutShort, Verdict
  <2>6. results[p] = Result(0, {"Never"})
    <3>1. p # "--repo-list"
      BY <2>1, CommandScanAssumption DEF Special
    <3> QED BY <2>1, <3>1 DEF Answered, Inductive, Genuine
  <2>7. p \in unsafe
    <3>1. results[p].returncode = 0 /\ results[p].stdout = {"Never"}
      BY <2>6 DEF Result
    <3>2. p \notin Failing /\ IsDisabled(Effective(p))
      BY <3>1 DEF Failing, Effective, IsDisabled
    <3> QED BY <3>2
  <2>8. Signatures.status = "fail"
    <3>1. "--repo-list" \notin Failing
      BY <2>3 DEF Failing
    <3>2. unsafe # {}
      BY <2>7
    <3> QED BY <2>4, <3>1, <3>2 DEF Signatures, Proceeds, Finding
  <2> QED BY <2>5, <2>8 DEF Reported, Single
<1> QED BY <1>1, InductiveInvariant, SignatureOrder, PTL

-----------------------------------------------------------------------------
(* Every finding of a check has one of the three confidences, and the      *)
(* identifiers of a check are its own: a check that judges several         *)
(* settings answers for those settings.                                    *)
Rated(f) == f.confidence \in {"high", "medium", "low"}

LEMMA RatedFindings ==
    /\ Rated(Unknown) /\ Rated(Unfinished) /\ Rated(Passes)
    /\ \A status, severity : \A c \in {"high", "medium", "low"} : Rated(Finding(status, severity, c))
    /\ \A r : Rated(Unavailable(r))
BY DEF Rated, Unknown, Unfinished, Passes, Finding, Unavailable

(* A check with one identifier.                                            *)
LEMMA SingleRated ==
    ASSUME NEW f, Rated(f)
    PROVE  DOMAIN Single(f) = {check} /\ \A id \in DOMAIN Single(f) : Rated(Single(f)[id])
BY DEF Single

(* What a setting leads to is what one of its lines leads to.              *)
LEMMA SettingRated ==
    ASSUME NEW key, NEW verdicts, \A line \in DOMAIN verdicts : Rated(verdicts[line])
    PROVE  Rated(Setting(key, verdicts))
<1> DEFINE stated == {line \in DOMAIN verdicts : line \in results["sshd -T"].stdout}
<1>1. CASE stated = {}
  BY <1>1, RatedFindings DEF Setting
<1>2. CASE stated # {}
  <2> DEFINE line == CHOOSE l \in stated : TRUE
  <2>1. line \in stated
    BY <1>2
  <2>2. Setting(key, verdicts) = verdicts[line]
    BY <1>2 DEF Setting
  <2> QED BY <2>1, <2>2
<1> QED BY <1>1, <1>2

LEMMA SettingsRated ==
    \A id \in DOMAIN SshSettings : \A line \in DOMAIN SshSettings[id] : Rated(SshSettings[id][line])
BY RatedFindings DEF SshSettings

LEMMA VerdictRated ==
    ASSUME check \in CheckName
    PROVE  /\ DOMAIN Verdict \subseteq {check} \cup DOMAIN SshSettings
           /\ \A id \in DOMAIN Verdict : Rated(Verdict[id])
<1>1. CASE check = "ssh"
  <2>1. \/ \E f : Rated(f) /\ Verdict = Single(f)
        \/ Verdict = [id \in DOMAIN SshSettings |-> Setting(id, SshSettings[id])]
    <3>1. Verdict = Ssh
      BY <1>1 DEF Verdict
    <3>2. CASE IsInactive(results["sshd"])
      <4>1. ~IsActive(results["sshd"])
        BY <3>2 DEF IsActive, IsInactive
      <4> QED BY <3>1, <3>2, <4>1, RatedFindings DEF Ssh
    <3>3. CASE ~IsInactive(results["sshd"]) /\ ~IsActive(results["sshd"])
      BY <3>1, <3>3, RatedFindings DEF Ssh
    <3>4. CASE IsActive(results["sshd"])
      <4>1. ~IsInactive(results["sshd"])
        BY <3>4 DEF IsActive, IsInactive
      <4> QED BY <3>1, <3>4, <4>1, RatedFindings DEF Ssh
    <3> QED BY <3>2, <3>3, <3>4
  <2> QED BY <2>1, SingleRated, SettingRated, SettingsRated
<1>2. CASE check # "ssh"
  <2>1. \E f : Rated(f) /\ Verdict = Single(f)
    <3>1. CASE check = "firewall"
      <4>1. Rated(Firewall)
        BY RatedFindings DEF Firewall
      <4> QED BY <3>1, <4>1 DEF Verdict
    <3>2. CASE check = "signatures"
      <4>1. Rated(Signatures)
        BY RatedFindings DEF Signatures
      <4> QED BY <3>2, <4>1 DEF Verdict
    <3>3. CASE check \notin {"firewall", "ssh", "signatures"}
      <4> DEFINE r == results[check]
      <4>1. /\ Rated(Updates(r)) /\ Rated(Foreign(r)) /\ Rated(Vulnerabilities(r))
            /\ Rated(Listeners(r)) /\ Rated(DebugShell(r)) /\ Rated(Ntp(r))
        BY RatedFindings DEF Updates, Foreign, Vulnerabilities, Listeners, DebugShell, Ntp
      <4> QED BY <3>3, <4>1 DEF Verdict, CheckName
    <3> QED BY <1>2, <3>1, <3>2, <3>3
  <2> QED BY <2>1, SingleRated
<1> QED BY <1>1, <1>2

(* The types of the state, findings included.                              *)
THEOREM TypeCorrect == Spec => []TypeOK
<1>1. Inductive => TypeOK
  <2> SUFFICES ASSUME Inductive PROVE TypeOK
    OBVIOUS
  <2>1. Queries(check) \subseteq QueriesOf(check) \cup {"--repo-list"}
    BY DEF Queries
  <2>2. plan \in Seq(QueriesOf(check) \cup {"--repo-list"})
    BY <2>1 DEF Inductive, Types
  <2>3. /\ DOMAIN findings \subseteq {check} \cup DOMAIN SshSettings
        /\ \A id \in DOMAIN findings : Rated(findings[id])
    <3>1. CASE Running
      <4>1. DOMAIN findings = {}
        BY <3>1 DEF Running
      <4> QED BY <4>1
    <3>2. CASE findings = RaisedFinding
      BY <3>2, RatedFindings, SingleRated DEF RaisedFinding
    <3>3. CASE findings = Verdict
      BY <3>3, VerdictRated, CommandScanAssumption DEF Inductive, Types
    <3> QED BY <3>1, <3>2, <3>3 DEF Inductive, Concluded
  <2> QED BY <2>1, <2>2, <2>3 DEF Inductive, Types, TypeOK, Rated
<1> QED BY <1>1, InductiveInvariant, PTL

=============================================================================
