--------------------------- MODULE BaselineProofs ---------------------------
(***************************************************************************)
(* What somebody who reads only the deltas can rely on, for any checks,    *)
(* any outcomes, any filters and any number of scans.                      *)
(***************************************************************************)
EXTENDS BaselineCycle, TLAPS

(* The two facts about Delta on which everything rests: a current failure  *)
(* is either new or a failure of the baseline, and never resolved; a       *)
(* baseline failure that is present and no failure any more is resolved.   *)
LEMMA DeltaFacts ==
    ASSUME NEW now, NEW before
    PROVE  LET d == Delta(now, before)
           IN  /\ Failing(now) \subseteq d.new_failures \cup Failing(before)
               /\ d.new_failures \subseteq Failing(now)
               /\ d.resolved_failures \cap Failing(now) = {}
               /\ d.resolved_failures \subseteq DOMAIN now
               /\ \A id \in Failing(before) :
                     id \in DOMAIN now /\ id \notin Failing(now) => id \in d.resolved_failures
<1> DEFINE d == Delta(now, before)
<1>1. d.new_failures = {id \in Failing(now) : Get(before, id) # "fail"}
  BY DEF Delta, Failing
<1>2. d.resolved_failures =
        {id \in Failing(before) : id \in DOMAIN now /\ now[id] # "fail"}
  BY DEF Delta, Failing
<1>3. \A id : id \in Failing(now) <=> id \in DOMAIN now /\ now[id] = "fail"
  BY DEF Failing, WithStatus
<1>4. ASSUME NEW id, Get(before, id) = "fail"
      PROVE  id \in Failing(before)
  BY <1>4 DEF Get, Absent, Failing, WithStatus
<1> HIDE DEF d
<1>5. Failing(now) \subseteq d.new_failures \cup Failing(before)
  BY <1>1, <1>4
<1>6. /\ d.new_failures \subseteq Failing(now)
      /\ d.resolved_failures \cap Failing(now) = {}
      /\ d.resolved_failures \subseteq DOMAIN now
  BY <1>1, <1>2, <1>3
<1>7. \A id \in Failing(before) :
         id \in DOMAIN now /\ id \notin Failing(now) => id \in d.resolved_failures
  BY <1>2, <1>3
<1> QED
  BY <1>5, <1>6, <1>7 DEF d

(* Following a delta leads from any belief that contains the baseline's    *)
(* failures to one that contains the current ones, and following it twice  *)
(* changes nothing more.                                                   *)
LEMMA FollowFacts ==
    ASSUME NEW now, NEW before, NEW open, Failing(before) \subseteq open
    PROVE  LET d == Delta(now, before)
           IN  /\ Failing(now) \subseteq Follow(open, d)
               /\ Follow(Follow(open, d), d) = Follow(open, d)
<1> DEFINE d == Delta(now, before)
<1>1. /\ Failing(now) \subseteq d.new_failures \cup Failing(before)
      /\ d.new_failures \subseteq Failing(now)
      /\ d.resolved_failures \cap Failing(now) = {}
  BY DeltaFacts
<1> HIDE DEF d
<1>2. Failing(now) \subseteq Follow(open, d)
  BY <1>1 DEF Follow
<1>3. Follow(Follow(open, d), d) = Follow(open, d)
  BY <1>1 DEF Follow
<1> QED
  BY <1>2, <1>3 DEF d

(* A filtered report holds some of the report's identifiers, with the      *)
(* statuses they have there.                                               *)
LEMMA ShownFacts ==
    ASSUME NEW full, NEW filter
    PROVE  /\ DOMAIN Shown(full, filter) \subseteq DOMAIN full
           /\ \A id \in DOMAIN Shown(full, filter) : Shown(full, filter)[id] = full[id]
BY DEF Shown, WithStatus

-----------------------------------------------------------------------------
(* The saved file never knows of a failure the reader does not believe in; *)
(* what the reader believes beyond that, the file has dropped.             *)
FileBelieved ==
    file # NotAReport =>
        /\ Failing(file) \subseteq ledger
        /\ ledger \ untracked \subseteq Failing(file)

CycleIInv == FileBelieved /\ FailuresNeverMissed /\ LedgerExact

(* Saving a report as the baseline starts a fresh ledger: what the file    *)
(* shows as failing.                                                       *)
LEMMA EstablishIInv ==
    ASSUME NEW full, NEW filter, Establish(full, filter)
    PROVE  CycleIInv'
BY DEF Establish, CycleIInv, FileBelieved, FailuresNeverMissed, LedgerExact, Compared

(* Peek and Roll alike: the delta just computed is against the file.       *)
LEMMA BeliefAfterDelta ==
    ASSUME CycleIInv, file # NotAReport, NEW full
    PROVE  LET d == Delta(full, file)
           IN  /\ Failing(full) \subseteq Follow(ledger, d)
               /\ \A id \in Follow(ledger, d) \cap DOMAIN full :
                     id \notin Failing(full) => id \in untracked /\ id \in ledger
<1> DEFINE d == Delta(full, file)
<1>1. /\ Failing(file) \subseteq ledger
      /\ ledger \ untracked \subseteq Failing(file)
  BY DEF CycleIInv, FileBelieved
<1>2. Failing(full) \subseteq Follow(ledger, d)
  BY <1>1, FollowFacts
<1>3. /\ d.new_failures \subseteq Failing(full)
      /\ \A id \in Failing(file) :
            id \in DOMAIN full /\ id \notin Failing(full) => id \in d.resolved_failures
  BY DeltaFacts
<1> HIDE DEF d
<1>4. ASSUME NEW id \in Follow(ledger, d) \cap DOMAIN full, id \notin Failing(full)
      PROVE  id \in untracked /\ id \in ledger
  <2>1. id \in ledger /\ id \notin d.resolved_failures
    BY <1>3, <1>4 DEF Follow
  <2> QED BY <2>1, <1>1, <1>3, <1>4
<1> QED
  BY <1>2, <1>4 DEF d

(* A comparison that is only read leaves file and ledger alone; what the   *)
(* reader believes afterwards is what BeliefAfterDelta says.               *)
LEMMA PeekIInv ==
    ASSUME CycleIInv, NEW full, Peek(full)
    PROVE  CycleIInv'
<1>1. /\ file # NotAReport /\ report' = full /\ delta' = Delta(full, file)
      /\ file' = file /\ ledger' = ledger /\ untracked' = untracked
  BY DEF Peek
<1>2. FileBelieved'
  BY <1>1 DEF CycleIInv, FileBelieved, Failing, WithStatus
<1>3. FailuresNeverMissed' /\ LedgerExact'
  BY <1>1, BeliefAfterDelta DEF FailuresNeverMissed, LedgerExact, Belief
<1> QED
  BY <1>2, <1>3 DEF CycleIInv

(* A comparison that also replaces the file: the ledger follows the delta, *)
(* and what the new file leaves out becomes untracked.                     *)
LEMMA RollIInv ==
    ASSUME CycleIInv, NEW full, NEW filter, Roll(full, filter)
    PROVE  CycleIInv'
<1> DEFINE d == Delta(full, file)
<1>1. /\ file # NotAReport /\ report' = full /\ delta' = d
      /\ file' = Shown(full, filter) /\ ledger' = Follow(ledger, d)
      /\ untracked' = (untracked \cup (ledger' \ DOMAIN file')) \cap ledger'
  BY DEF Roll
<1>2. /\ Failing(file) \subseteq ledger
      /\ ledger \ untracked \subseteq Failing(file)
  BY <1>1 DEF CycleIInv, FileBelieved
<1>3. /\ Failing(full) \subseteq Follow(ledger, d)
      /\ \A id \in Follow(ledger, d) \cap DOMAIN full :
            id \notin Failing(full) => id \in untracked /\ id \in ledger
  BY <1>1, BeliefAfterDelta
<1>4. Follow(Follow(ledger, d), d) = Follow(ledger, d)
  BY <1>2, FollowFacts
<1>5. /\ DOMAIN file' \subseteq DOMAIN full
      /\ \A id \in DOMAIN file' : file'[id] = full[id]
  BY <1>1, ShownFacts
<1> HIDE DEF d
<1>6. FileBelieved'
  <2>1. Failing(file') \subseteq Failing(full)
    BY <1>5 DEF Failing, WithStatus
  <2>2. Failing(full) \cap DOMAIN file' \subseteq Failing(file')
    BY <1>5 DEF Failing, WithStatus
  <2>3. ASSUME NEW id \in ledger', id \notin untracked'
        PROVE  id \in Failing(file')
    <3>1. id \in DOMAIN file' /\ id \notin untracked
      BY <2>3, <1>1
    <3>2. id \in Failing(full)
      BY <2>3, <3>1, <1>1, <1>3, <1>5
    <3> QED BY <3>1, <3>2, <2>2
  <2> QED BY <2>1, <2>3, <1>1, <1>3 DEF FileBelieved
<1>7. Belief' = ledger'
  BY <1>1, <1>4 DEF Belief
<1>8. FailuresNeverMissed'
  BY <1>1, <1>3, <1>7 DEF FailuresNeverMissed
<1>9. LedgerExact'
  BY <1>1, <1>3, <1>7 DEF LedgerExact
<1> QED
  BY <1>6, <1>8, <1>9 DEF CycleIInv

(* The invariant holds at first and every invocation preserves it.         *)
LEMMA CycleInductive ==
    /\ CycleInit => CycleIInv
    /\ CycleIInv /\ [CycleNext]_cycleVars => CycleIInv'
<1>1. CycleInit => CycleIInv
  BY DEF CycleInit, CycleIInv, FileBelieved, FailuresNeverMissed, LedgerExact, Compared
<1>2. ASSUME CycleIInv, [CycleNext]_cycleVars PROVE CycleIInv'
  <2>1. CASE LoseFile
    BY <1>2, <2>1 DEF LoseFile, CycleIInv, FileBelieved, FailuresNeverMissed, LedgerExact,
                      Compared, Belief
  <2>2. CASE UNCHANGED cycleVars
    BY <1>2, <2>2 DEF cycleVars, CycleIInv, FileBelieved, FailuresNeverMissed, LedgerExact,
                      Compared, Belief
  <2> QED
    BY <1>2, <2>1, <2>2, EstablishIInv, PeekIInv, RollIInv DEF CycleNext
<1> QED
  BY <1>1, <1>2

(* comparison.py:36-45: after any number of scans, saved under any status  *)
(* filter and narrowed to any selection, every failure of the report just  *)
(* compared is among those the reader of the deltas believes open.         *)
THEOREM NoFailureMissed == CycleSpec => []FailuresNeverMissed
<1>1. CycleIInv => FailuresNeverMissed
  BY DEF CycleIInv
<1> QED
  BY <1>1, CycleInductive, PTL DEF CycleSpec

(* comparison.py:40-45: and a failure that is believed open although the   *)
(* report shows it is gone is one that a narrowed file had dropped.        *)
THEOREM LedgerIsExact == CycleSpec => []LedgerExact
<1>1. CycleIInv => LedgerExact
  BY DEF CycleIInv
<1> QED
  BY <1>1, CycleInductive, PTL DEF CycleSpec

-----------------------------------------------------------------------------
(* The delta on record is that of the report and the document on record.   *)
DeltaIsOfRecord == Compared => delta = Delta(report, compared)

LEMMA DeltaOfRecord == CycleSpec => []DeltaIsOfRecord
<1>1. CycleInit => DeltaIsOfRecord
  BY DEF CycleInit, DeltaIsOfRecord, Compared
<1>2. ASSUME DeltaIsOfRecord, [CycleNext]_cycleVars PROVE DeltaIsOfRecord'
  <2> USE DEF DeltaIsOfRecord, Compared
  <2>1. ASSUME NEW full, NEW filter, Establish(full, filter) PROVE DeltaIsOfRecord'
    BY <2>1 DEF Establish
  <2>2. ASSUME NEW full, NEW filter, Roll(full, filter) PROVE DeltaIsOfRecord'
    BY <2>2 DEF Roll
  <2>3. ASSUME NEW full, Peek(full) PROVE DeltaIsOfRecord'
    BY <2>3 DEF Peek
  <2>4. CASE LoseFile
    BY <1>2, <2>4 DEF LoseFile
  <2>5. CASE UNCHANGED cycleVars
    BY <1>2, <2>5 DEF cycleVars
  <2> QED BY <1>2, <2>1, <2>2, <2>3, <2>4, <2>5 DEF CycleNext
<1> QED
  BY <1>1, <1>2, PTL DEF CycleSpec

(* comparison.py:36-55: whatever is in a report, a second one that says    *)
(* the same announces nothing new, resolved, to be reviewed or lost.       *)
THEOREM UnchangedIsQuiet == CycleSpec => []QuietWhenUnchanged
<1>1. ASSUME NEW now PROVE Delta(now, now) = NoDelta
  <2>1. \A id \in DOMAIN now : Get(now, id) = now[id]
    BY DEF Get
  <2>2. {id \in WithStatus(now, {"fail"}) : Get(now, id) # "fail"} = {}
    BY <2>1 DEF WithStatus
  <2>3. {id \in WithStatus(now, {"fail"}) : id \in DOMAIN now /\ now[id] # "fail"} = {}
    BY DEF WithStatus
  <2>4. {id \in WithStatus(now, {"review"}) : Get(now, id) # "review"} = {}
    BY <2>1 DEF WithStatus
  <2>5. {id \in WithStatus(now, Incomplete) : Get(now, id) \in Established} = {}
    BY <2>1 DEF WithStatus, Incomplete, Established
  <2> QED BY <2>2, <2>3, <2>4, <2>5 DEF Delta, NoDelta
<1>2. DeltaIsOfRecord => QuietWhenUnchanged
  BY <1>1 DEF DeltaIsOfRecord, QuietWhenUnchanged
<1> QED
  BY <1>2, DeltaOfRecord, PTL

(* comparison.py:40-45 and 52-55: a failure that is announced as resolved  *)
(* by a scan without evidence is announced as lost coverage too.           *)
THEOREM DroppedAccounted == CycleSpec => []DroppedIsAccountedFor
<1>1. DeltaIsOfRecord => DroppedIsAccountedFor
  <2> SUFFICES ASSUME DeltaIsOfRecord, Compared,
                      NEW id \in delta.resolved_failures, report[id] \in Incomplete
               PROVE  id \in delta.coverage_regressions
    BY DEF DroppedIsAccountedFor
  <2>1. id \in DOMAIN compared /\ compared[id] = "fail" /\ id \in DOMAIN report
    BY DEF DeltaIsOfRecord, Delta, WithStatus
  <2>2. Get(compared, id) \in Established
    BY <2>1 DEF Get, Established
  <2>3. id \in WithStatus(report, Incomplete)
    BY <2>1 DEF WithStatus
  <2> QED BY <2>2, <2>3 DEF DeltaIsOfRecord, Delta
<1> QED
  BY <1>1, DeltaOfRecord, PTL

-----------------------------------------------------------------------------
FindingIds == UNION {DOMAIN f : f \in UNION {Outcomes[c] : c \in DOMAIN Outcomes}}

(* A report maps identifiers of its checks to statuses.                    *)
LEMMA ReportTyped ==
    ASSUME NEW selection \in Selections, NEW full \in Reports(selection)
    PROVE  full \in [DOMAIN full -> Status] /\ DOMAIN full \subseteq FindingIds
<1>1. PICK choice \in [selection -> UNION {Outcomes[c] : c \in selection}] :
         /\ \A c \in selection : choice[c] \in Outcomes[c]
         /\ full = [id \in UNION {DOMAIN choice[c] : c \in selection} |->
                      choice[CHOOSE c \in selection : id \in DOMAIN choice[c]][id]]
  BY DEF Reports
<1>2. DOMAIN full = UNION {DOMAIN choice[c] : c \in selection}
  BY <1>1
<1>3. \A c \in selection : c \in DOMAIN Outcomes /\ choice[c] \in Outcomes[c]
  BY <1>1, OutcomesAreStatuses
<1>4. DOMAIN full \subseteq FindingIds
  BY <1>2, <1>3 DEF FindingIds
<1>5. ASSUME NEW id \in DOMAIN full PROVE full[id] \in Status
  <2> DEFINE owner == CHOOSE c \in selection : id \in DOMAIN choice[c]
  <2>1. owner \in selection /\ id \in DOMAIN choice[owner]
    BY <1>2, <1>5
  <2>2. full[id] = choice[owner][id]
    BY <1>1, <1>2, <1>5
  <2> HIDE DEF owner
  <2>3. choice[owner] \in [DOMAIN choice[owner] -> Status]
    BY <1>3, <2>1, OutcomesAreStatuses
  <2> QED BY <2>1, <2>2, <2>3
<1>6. full = [id \in DOMAIN full |-> full[id]]
  BY <1>1, <1>2
<1> QED BY <1>4, <1>5, <1>6

LEMMA ShownTyped ==
    ASSUME NEW full, full \in [DOMAIN full -> Status], NEW filter
    PROVE  Shown(full, filter) \in [DOMAIN Shown(full, filter) -> Status]
BY DEF Shown, WithStatus

LEMMA DeltaTyped ==
    ASSUME NEW now, NEW before, DOMAIN now \subseteq FindingIds
    PROVE  \A field \in DOMAIN Delta(now, before) : Delta(now, before)[field] \subseteq FindingIds
BY DEF Delta, WithStatus

(* The state of the cycle keeps its types for any checks, selections and   *)
(* filters; in particular what a filtered file left out stays a part of    *)
(* what the reader believes open.                                          *)
THEOREM CycleTypeCorrect == CycleSpec => []CycleTypeOK
<1> USE DEF CycleTypeOK, FindingIds
<1>1. CycleInit => CycleTypeOK
  BY DEF CycleInit, NoDelta
<1>2. ASSUME CycleTypeOK, [CycleNext]_cycleVars PROVE CycleTypeOK'
  <2>1. CASE LoseFile
    BY <1>2, <2>1 DEF LoseFile
  <2>2. CASE UNCHANGED cycleVars
    BY <1>2, <2>2 DEF cycleVars
  <2>3. ASSUME NEW selection \in Selections, NEW full \in Reports(selection),
               \/ \E filter \in Filters : Establish(full, filter) \/ Roll(full, filter)
               \/ Peek(full)
        PROVE  CycleTypeOK'
    <3> HIDE DEF FindingIds
    <3>1. full \in [DOMAIN full -> Status] /\ DOMAIN full \subseteq FindingIds
      BY ReportTyped
    <3>2. \A before : \A field \in DOMAIN Delta(full, before) :
             Delta(full, before)[field] \subseteq FindingIds
      BY <3>1, DeltaTyped
    <3>3. ASSUME NEW filter, Establish(full, filter) PROVE CycleTypeOK'
      <4>1. file' \in [DOMAIN file' -> Status] /\ DOMAIN file' \subseteq FindingIds
        BY <3>1, <3>3, ShownTyped, ShownFacts DEF Establish
      <4>2. ledger' \subseteq FindingIds /\ untracked' \subseteq ledger'
        BY <3>3, <4>1 DEF Establish, Failing, WithStatus
      <4>3. \A field \in DOMAIN delta' : delta'[field] \subseteq FindingIds
        BY <3>3 DEF Establish, NoDelta
      <4> QED BY <4>1, <4>2, <4>3 DEF FindingIds
    <3>4. ASSUME NEW filter, Roll(full, filter) PROVE CycleTypeOK'
      <4>1. file' \in [DOMAIN file' -> Status]
        BY <3>1, <3>4, ShownTyped DEF Roll
      <4>2. \A field \in DOMAIN delta' : delta'[field] \subseteq FindingIds
        BY <3>2, <3>4 DEF Roll
      <4>3. delta'.new_failures \subseteq FindingIds
        <5>1. delta'.new_failures \subseteq DOMAIN full
          BY <3>4 DEF Roll, Delta, WithStatus
        <5> QED BY <3>1, <5>1
      <4>4. ledger' \subseteq FindingIds /\ untracked' \subseteq ledger'
        BY <1>2, <3>4, <4>3 DEF Roll, Follow, FindingIds
      <4> QED BY <4>1, <4>2, <4>4 DEF FindingIds
    <3>5. ASSUME Peek(full) PROVE CycleTypeOK'
      <4>1. \A field \in DOMAIN delta' : delta'[field] \subseteq FindingIds
        BY <3>2, <3>5 DEF Peek
      <4> QED BY <1>2, <3>5, <4>1 DEF Peek, FindingIds
    <3> QED BY <2>3, <3>3, <3>4, <3>5
  <2> QED BY <1>2, <2>1, <2>2, <2>3 DEF CycleNext
<1> QED BY <1>1, <1>2, PTL DEF CycleSpec

=============================================================================
