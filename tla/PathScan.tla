------------------------------ MODULE PathScan ------------------------------
(***************************************************************************)
(* The permission checks over a directory and a few paths below it         *)
(* (scanit/checks/filesystem.py, ssh_keys.py, accounts.py), running on a   *)
(* file system that other processes change meanwhile.                      *)
(*                                                                         *)
(* A check looks at the directory (gate), lists it (list) or knows the     *)
(* names beforehand, and then reads the metadata of one path after the     *)
(* other (scan).  Every one of these is one system call, so files may      *)
(* appear, vanish or change owner and mode between any two of them.        *)
(***************************************************************************)
EXTENDS Naturals, FiniteSets

CONSTANTS
    Checks,        \* the checks to consider, a subset of CheckName
    Names,         \* names below the directory
    Ignored,       \* for each check, names its filter excludes (a dot, .pub, ...)
    FixedNames,    \* names a check without a listing asks for
    DirMetas,      \* metadata the directory may have
    Metas,         \* metadata the other paths may have
    MaxChanges     \* bound: changes of other processes during one check

Dir == "."

Path == Names \cup {Dir}

CheckName ==
    {"sudoers", "sensitive", "home",             \* one path
     "drop-ins", "private-keys", "host-keys",    \* a listed directory
     "authorization", "temporary", "startup"}    \* fixed names

(* What stat or lstat says of a path.  kind: absent, denied (permission),  *)
(* io (another error), file, dir, unlistable (a directory that may be      *)
(* stat'ed and not read), link (to a file), dangling (a link to nothing).  *)
(* owner is root, self or another user; mode is the class of its bits.     *)
Kind == {"absent", "denied", "io", "file", "dir", "unlistable", "link", "dangling"}
Owner == {"root", "self", "other"}
Mode == {"private", "readable", "group", "world", "sticky"}
Meta == [kind : Kind, owner : Owner, mode : Mode]

ASSUME PathScanAssumption ==
    /\ Checks \subseteq CheckName
    /\ Dir \notin Names
    /\ Ignored \in [CheckName -> SUBSET Names] /\ FixedNames \subseteq Names
    /\ DirMetas \subseteq Meta /\ Metas \subseteq Meta
    /\ MaxChanges \in Nat

VARIABLES
    check,         \* the check that runs
    fs,            \* the metadata of every path, now
    stage,         \* gate, list, scan or done
    dirSeen,       \* the directory's metadata as stat reported it
    listed,        \* the paths the check has decided to inspect
    obs,           \* what it found there
    finding,       \* its finding
    changes,       \* how many changes other processes have made
    always,        \* history: for each verdict, where it held all along
    ever           \* history: where a path was unsafe at some moment

vars == <<check, fs, stage, dirSeen, listed, obs, finding, changes, always, ever>>

-----------------------------------------------------------------------------
(* Mode bits and file types.                                               *)
OtherAccess(m) == m.mode # "private"                          \* & 0o077
OtherWrite(m) == m.mode \in {"group", "world", "sticky"}      \* & 0o022

unsafe_privileged_metadata(m) == m.owner # "root" \/ OtherWrite(m)

Failed == {"absent", "denied", "io"}
IsDir(m) == m.kind \in {"dir", "unlistable"}
IsLink(m) == m.kind \in {"link", "dangling"}
IsFile(m) == m.kind = "file"

(* stat follows a link, lstat does not.                                    *)
Resolve(m) ==
    CASE m.kind = "link"     -> [m EXCEPT !.kind = "file"]
      [] m.kind = "dangling" -> [m EXCEPT !.kind = "absent"]
      [] OTHER               -> m

FollowsLinks == {"sudoers", "home", "drop-ins"}

Stat(c, m) == IF c \in FollowsLinks THEN Resolve(m) ELSE m

Judge(unsafe) == IF unsafe THEN "unsafe" ELSE "safe"

(* The body of each check's loop, for metadata m as Stat reported it.      *)
InspectDropIn(m) ==
    CASE m.kind \in Failed -> "blind"
      [] IsFile(m)         -> Judge(unsafe_privileged_metadata(m))
      [] OTHER             -> "gone"

InspectTemporary(m) ==
    CASE m.kind = "absent" -> "gone"
      [] IsDir(m)          -> Judge(m.mode = "world")
      [] OTHER             -> "blind"

InspectStartup(m) ==
    CASE m.kind = "absent"         -> "gone"
      [] m.kind \in {"denied", "io"} -> "blind"
      [] OTHER                     -> Judge(IsLink(m) \/ OtherWrite(m))

InspectKey(m) ==
    CASE m.kind \in Failed \/ IsLink(m) -> "blind"
      [] IsFile(m)                      -> Judge(OtherAccess(m))
      [] OTHER                          -> "gone"

InspectAuthorization(m) ==
    CASE m.kind = "absent" -> "gone"
      [] IsFile(m)         -> Judge(OtherWrite(m))
      [] OTHER             -> "blind"

Inspect(c, meta) ==
    LET m == Stat(c, meta)
    IN  CASE c = "drop-ins"                        -> InspectDropIn(m)
          [] c = "temporary"                       -> InspectTemporary(m)
          [] c = "startup"                         -> InspectStartup(m)
          [] c \in {"private-keys", "host-keys"}   -> InspectKey(m)
          [] c = "authorization"                   -> InspectAuthorization(m)

(* What the directory's own metadata says, for the checks that read it; it *)
(* is only asked for metadata that could be read.                          *)
JudgeDir(c, m) ==
    CASE c \in {"sudoers", "drop-ins"} -> Judge(unsafe_privileged_metadata(m))
      [] c = "sensitive"     -> Judge(~IsFile(m) \/ unsafe_privileged_metadata(m))
      [] c = "home"          -> Judge(m.owner # "self" \/ OtherWrite(m))
      [] c = "authorization" -> Judge(OtherWrite(m))

-----------------------------------------------------------------------------
Result(status, severity, confidence, evidence) ==
    [status |-> status, severity |-> severity, confidence |-> confidence,
     evidence |-> evidence]

NoFinding == Result("none", "info", "high", {})

Early(status, confidence) == Result(status, "info", confidence, {})

(* The findings that end a check before it inspects anything, by what the  *)
(* directory looks like to the system call of that stage.                  *)
GateStops(c, m) ==
    m.kind \in Failed \/ (c = "authorization" /\ ~IsDir(m))

GateFinding(c, m) ==
    CASE c = "sudoers" /\ m.kind = "absent"         -> Early("unknown", "medium")
      [] c = "sudoers" /\ m.kind # "absent"         -> Early("error", "low")
      [] c = "sensitive" /\ m.kind = "absent"       -> Early("not_applicable", "medium")
      [] c = "drop-ins" /\ m.kind = "absent"        -> Early("not_applicable", "high")
      [] c = "drop-ins" /\ m.kind = "io"            -> Early("error", "low")
      [] c = "authorization" /\ m.kind = "absent"   -> Early("not_applicable", "high")
      [] OTHER                                      -> Early("unknown", "low")

(* iterdir follows a link to the directory; it fails on anything that is   *)
(* not a readable directory.  glob (host keys) finds nothing where there   *)
(* is no directory, and nothing in a directory it may not read.  Where not *)
(* even stat succeeds it raises up to Python 3.12, and finds nothing from  *)
(* then on; scanit supports both.                                          *)
ListStops(c, m) ==
    IF c = "host-keys" THEN m.kind \in {"denied", "io"} ELSE m.kind # "dir"

ListGoesOn(c, m) == c = "host-keys" \/ m.kind = "dir"

ListFinding(c, m) ==
    CASE c = "drop-ins" /\ m.kind \notin {"denied", "unlistable"} -> Early("error", "low")
      [] c = "private-keys" /\ m.kind = "absent"    -> Early("not_applicable", "high")
      [] OTHER                                      -> Early("unknown", "low")

EntriesNow(m) ==
    IF m.kind = "dir" THEN {p \in Names \ Ignored[check] : fs[p].kind # "absent"} ELSE {}

(* The finding that closes the inspection.  The checks of SSH files have   *)
(* only the violations as evidence of a failure, always at high            *)
(* confidence; the others add what they could not inspect and say so.      *)
SshChecks == {"private-keys", "host-keys", "authorization"}

FailSeverity(c) ==
    IF c \in {"sudoers", "sensitive", "drop-ins"} THEN "critical" ELSE "high"

Seen(what) == {p \in Path : obs[p] = what}

Unsafe == Seen("unsafe")
Blind == Seen("blind")

(* Mutants: what could not be inspected comes first; a failure is always   *)
(* certain.                                                                *)
BlindFirst ==
    IF Blind # {} THEN Result("unknown", "info", "low", Blind)
    ELSE IF Unsafe # {} THEN Result("fail", FailSeverity(check), "high", Unsafe)
    ELSE Result("pass", "info", "high", {})

AlwaysCertain ==
    IF Unsafe # {} THEN Result("fail", FailSeverity(check), "high", Unsafe \cup Blind)
    ELSE IF Blind # {} THEN Result("unknown", "info", "low", Blind)
    ELSE Result("pass", "info", "high", {})

ClosingFinding ==
    CASE Unsafe # {} ->
            IF check \in SshChecks
            THEN Result("fail", FailSeverity(check), "high", Unsafe)
            ELSE Result("fail", FailSeverity(check),
                        IF Blind = {} THEN "high" ELSE "medium", Unsafe \cup Blind)
      [] Unsafe = {} /\ Blind # {} -> Result("unknown", "info", "low", Blind)
      [] Unsafe = {} /\ Blind = {} ->
            IF Seen("safe") = {} /\ check # "drop-ins"
            THEN Result("not_applicable", "info",
                        IF check = "private-keys" /\ listed = {} THEN "high" ELSE "medium", {})
            ELSE Result("pass", "info", "high", {})

-----------------------------------------------------------------------------
FirstStage(c) ==
    CASE c \in {"sudoers", "sensitive", "home", "drop-ins", "authorization"} -> "gate"
      [] c \in {"private-keys", "host-keys"} -> "list"
      [] OTHER -> "scan"

(* The paths a check judges: the one it starts from, if it has a gate, and *)
(* the names below, if it has a loop.                                      *)
Inspected(c) ==
    (IF FirstStage(c) = "gate" THEN {Dir} ELSE {})
      \cup (IF c \in {"sudoers", "sensitive", "home"} THEN {} ELSE Names)

(* What the check would say of p if it looked now.                         *)
Verdict(c, f, p) ==
    IF p # Dir THEN Inspect(c, f[p])
    ELSE LET m == Stat(c, f[Dir])
         IN  IF GateStops(c, m) THEN "gone" ELSE JudgeDir(c, m)

(* The paths are unsafe, or hidden from the check, for as long as it would *)
(* say so of them.                                                         *)
Where(what, c, f) == {p \in Inspected(c) : Verdict(c, f, p) = what}

Init ==
    /\ check \in Checks
    /\ fs \in {f \in [Path -> DirMetas \cup Metas] :
                  f[Dir] \in DirMetas /\ \A p \in Names : f[p] \in Metas}
    /\ stage = FirstStage(check)
    /\ dirSeen = fs[Dir]
    /\ listed = IF stage = "scan" THEN FixedNames ELSE {}
    /\ obs = [p \in Path |-> "unseen"]
    /\ finding = NoFinding
    /\ changes = 0
    /\ always = [what \in {"unsafe", "blind"} |-> Where(what, check, fs)]
    /\ ever = Where("unsafe", check, fs)

(* Mutant: a finding is appended, but the check goes on.                   *)
AppendAndGoOn(result) ==
    /\ finding' = result
    /\ stage' = stage

Stop(result) ==
    /\ finding' = result
    /\ stage' = "done"

(* stat or lstat of the path the check starts from.                        *)
Gate ==
    /\ stage = "gate"
    /\ LET m == Stat(check, fs[Dir])
       IN  IF GateStops(check, m)
           THEN /\ Stop(GateFinding(check, m))
                /\ UNCHANGED <<dirSeen, listed, obs>>
           ELSE /\ dirSeen' = m
                /\ stage' = IF check = "drop-ins" THEN "list" ELSE "scan"
                /\ listed' = IF check = "authorization" THEN FixedNames ELSE {}
                /\ obs' = IF check = "drop-ins" THEN obs
                          ELSE [obs EXCEPT ![Dir] = JudgeDir(check, m)]
                /\ UNCHANGED finding
    /\ UNCHANGED <<check, fs, changes, always, ever>>

(* The listing.  The drop-in check judges the directory only afterwards,   *)
(* by the metadata it read before.                                         *)
List ==
    /\ stage = "list"
    /\ LET m == Resolve(fs[Dir])
       IN  \/ /\ ListStops(check, m)
              /\ Stop(ListFinding(check, m))
              /\ UNCHANGED <<listed, obs>>
           \/ /\ ListGoesOn(check, m)
              /\ listed' = EntriesNow(m)
              /\ stage' = "scan"
              /\ obs' = IF check = "drop-ins"
                        THEN [obs EXCEPT ![Dir] = JudgeDir(check, dirSeen)] ELSE obs
              /\ UNCHANGED finding
    /\ UNCHANGED <<check, fs, dirSeen, changes, always, ever>>

(* Mutants of the loop: a flag that is not reset from one path to the      *)
(* next; errors that are skipped; paths read again; errors tried again.    *)
VisitObserving(p, what) ==
    /\ stage = "scan"
    /\ p \in listed
    /\ obs' = [obs EXCEPT ![p] = what]
    /\ UNCHANGED <<check, fs, stage, dirSeen, listed, finding, changes, always, ever>>

VisitStaleFlag(p) ==
    /\ obs[p] = "unseen"
    /\ VisitObserving(p, IF Unsafe # {} THEN "unsafe" ELSE Inspect(check, fs[p]))

VisitSkippingErrors(p) ==
    /\ obs[p] = "unseen"
    /\ VisitObserving(p, IF Inspect(check, fs[p]) = "blind" THEN "gone" ELSE Inspect(check, fs[p]))

VisitAgain(p) == VisitObserving(p, Inspect(check, fs[p]))

VisitRetrying(p) ==
    /\ obs[p] = "unseen"
    /\ VisitObserving(p, IF Inspect(check, fs[p]) = "blind" THEN "unseen" ELSE Inspect(check, fs[p]))

(* One path of the loop.  The order of iterdir is the file system's.       *)
Visit(p) ==
    /\ stage = "scan"
    /\ p \in listed
    /\ obs[p] = "unseen"
    /\ obs' = [obs EXCEPT ![p] = Inspect(check, fs[p])]
    /\ UNCHANGED <<check, fs, stage, dirSeen, listed, finding, changes, always, ever>>

Close ==
    /\ stage = "scan"
    /\ \A p \in listed : obs[p] # "unseen"
    /\ Stop(ClosingFinding)
    /\ UNCHANGED <<check, fs, dirSeen, listed, obs, changes, always, ever>>

(* Another process creates, removes or changes a path.                     *)
Change(p) ==
    /\ stage # "done"
    /\ changes < MaxChanges
    /\ changes' = changes + 1
    /\ \E m \in IF p = Dir THEN DirMetas ELSE Metas :
          /\ m # fs[p]
          /\ fs' = [fs EXCEPT ![p] = m]
    /\ always' = [what \in DOMAIN always |-> always[what] \cap Where(what, check, fs')]
    /\ ever' = ever \cup Where("unsafe", check, fs')
    /\ UNCHANGED <<check, stage, dirSeen, listed, obs, finding>>

CheckStep == Gate \/ List \/ (\E p \in Names : Visit(p)) \/ Close

Next == CheckStep \/ \E p \in Path : Change(p)

Spec == Init /\ [][Next]_vars

(* The check runs as long as it has something to do.                       *)
FairSpec == Spec /\ WF_vars(CheckStep)

-----------------------------------------------------------------------------
TypeOK ==
    /\ check \in Checks
    /\ fs \in [Path -> Meta]
    /\ stage \in {"gate", "list", "scan", "done"}
    /\ dirSeen \in Meta
    /\ listed \subseteq Names
    /\ obs \in [Path -> {"unseen", "safe", "unsafe", "blind", "gone"}]
    /\ finding.status # "none" <=> stage = "done"
    /\ changes \in 0..MaxChanges
    /\ always["unsafe"] \subseteq ever

Reported(status) == stage = "done" /\ finding.status = status

(* What the check is to judge: what it listed, and the directory itself,   *)
(* unless (drop-ins) it could not be listed.                               *)
ToJudge == listed \cup (IF check = "drop-ins" /\ obs[Dir] = "unseen" THEN {} ELSE {Dir})

(* No exposure is overlooked: a path the check is to judge, the directory  *)
(* included, that is unsafe from the first system call to the last makes   *)
(* it fail, whatever happens to other paths in between (filesystem.py:     *)
(* 124-144, 228-252, 324-345; ssh_keys.py:41-64, 117-144, 179-201).        *)
PersistentExposureFails ==
    stage = "done" /\ ToJudge \cap always["unsafe"] # {} => Reported("fail")

(* No false accusation: each path given as evidence of a failure really    *)
(* was unsafe at some moment of the scan, or is one that could not be      *)
(* read, and at least one was unsafe.  It holds of the directory too,      *)
(* which the drop-in check judges by metadata read before the listing      *)
(* (filesystem.py:97-127).                                                 *)
FailureWasReal ==
    Reported("fail") =>
        /\ \A p \in finding.evidence : p \in ever \/ obs[p] = "blind"
        /\ finding.evidence \cap ever # {}

(* A pass is earned: nothing the check listed was unsafe, or hidden from   *)
(* it, all along (README.md:63-64, "they do not silently pass").           *)
PassWasEarned ==
    Reported("pass") =>
        /\ listed \cap (always["unsafe"] \cup always["blind"]) = {}
        /\ \A p \in listed : obs[p] \in {"safe", "gone"}

(* What cannot be read is not passed over: a listed path that was hidden   *)
(* all along leaves the result unknown or, next to a violation, shows in   *)
(* the failure, as evidence and in a lower confidence (filesystem.py:143,  *)
(* 251, 344).  The checks of SSH files drop it from a failure.             *)
HiddenPathShows ==
    LET hidden == listed \cap always["blind"]
    IN  stage = "done" /\ hidden # {} =>
            \/ Reported("unknown")
            \/ /\ Reported("fail")
               /\ check \notin SshChecks =>
                     finding.confidence = "medium" /\ hidden \subseteq finding.evidence

(* The check went through its inspection.                                  *)
Inspecting == \A p \in listed : obs[p] # "unseen"

(* Without evidence the check says so: if everything it was to inspect was *)
(* unreadable throughout, it reports unknown unless the directory itself   *)
(* already fails.                                                          *)
BlindIsUnknown ==
    stage = "done" /\ Inspecting /\ listed # {} /\ listed \subseteq always["blind"] =>
        finding.status = IF obs[Dir] = "unsafe" THEN "fail" ELSE "unknown"

(* Every check ends, although the paths change under it.                   *)
Concludes == <>(stage = "done")

(* Each of these checks implements the contract of CheckContract.          *)
Contract ==
    INSTANCE CheckContract WITH
        Path <- Path, obs <- obs, status <- finding.status,
        Violation <- {"fail"}, MayAbort <- FALSE

ImplementsContract == Contract!ContractSpec

-----------------------------------------------------------------------------
(* README.md:63-64, "Checks that cannot obtain enough evidence report      *)
(* `unknown` or `error`": a directory that exists and may not be read is   *)
(* no proof that the control does not apply.                               *)
NotApplicableIsEstablished ==
    Reported("not_applicable") /\ changes = 0 => fs[Dir].kind # "unlistable"

=============================================================================
