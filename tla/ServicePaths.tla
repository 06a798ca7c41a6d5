----------------------------- MODULE ServicePaths -----------------------------
(***************************************************************************)
(* The execution paths of system services (scanit/checks/                  *)
(* systemd_execution.py).                                                  *)
(*                                                                         *)
(* Two calls of systemctl list the active and the enabled services, a      *)
(* third shows how they are run; each program named there is resolved, and *)
(* the file it resolves to and the directories above it are looked at.     *)
(* Nothing holds still meanwhile.                                          *)
(***************************************************************************)
EXTENDS Evidence

CONSTANTS
    Service,       \* the service units of the machine, template units left out
    Executable,    \* the programs their Exec lines name
    ExecutionPath  \* the files and directories such programs lead to

(* The name of a program is no path: it is what has to be resolved; and a  *)
(* diagnostic names no service.                                            *)
ASSUME ServicePathsAssumption ==
    /\ Executable \cap ExecutionPath = {}
    /\ Service \cap Diagnostics = {}

(* What systemd knows of a service: exec maps each program of its Exec     *)
(* lines to whether one of them overrides the user of the service.         *)
Unit == [active : BOOLEAN, enabled : BOOLEAN, dynamic : BOOLEAN,
         user : {"root", "other", "unreported"},
         exec : UNION {[programs -> BOOLEAN] : programs \in SUBSET Executable}]

ServicesCheck == "services"

-----------------------------------------------------------------------------
Active == LookFor("run", "systemd", <<"active">>)
Enabled == LookFor("run", "systemd", <<"enabled">>)
Show == LookFor("run", "systemd", <<"show">>)

Discovery == {Active, Enabled}

(* The services of the inventories that were obtained.                     *)
Services(obs) ==
    UNION {obs[w].stdout : w \in {v \in Discovery \cap DOMAIN obs : obs[v].returncode = 0}}

Missing127(obs) == {w \in Discovery \cup {Show} : w \in DOMAIN obs /\ obs[w].returncode = 127}

(* systemctl show prints a block for each service; without a block there   *)
(* is nothing to go on with.                                               *)
ShowFailed(obs) ==
    Show \in DOMAIN obs /\ obs[Show].returncode # 0 /\ obs[Show].stdout = {}

Blocks(obs) ==
    IF Show \in DOMAIN obs /\ Missing127(obs) = {} THEN obs[Show].stdout \cap Service ELSE {}

UnitOf(obs, s) == obs[Show].unit[s]

Programs(obs) == {se \in Blocks(obs) \X Executable : se[2] \in DOMAIN UnitOf(obs, se[1]).exec}

Resolutions(obs) == {LookFor("resolve", se[2], se) : se \in Programs(obs)}

Resolved(obs) == {w \in Taken(obs, "resolve") : obs[w].kind = "resolved"}

(* _candidate_paths: the file and the directories above it, on the way the *)
(* name takes and on the way it resolves to.                               *)
Candidates(obs) ==
    UNION {{LookFor("stat", p, w.of) : p \in {obs[w].target} \cup obs[w].above} :
              w \in Resolved(obs)}

ServicesReady(obs) ==
    IF Active \notin DOMAIN obs THEN {Active}
    ELSE IF Enabled \notin DOMAIN obs THEN {Enabled}
    ELSE IF Missing127(obs) # {} \/ Services(obs) = {} THEN {}
    ELSE IF Show \notin DOMAIN obs THEN {Show}
    ELSE InOrder(Pending(Candidates(obs), obs), Pending(Resolutions(obs), obs))

-----------------------------------------------------------------------------
(* Mutant: what one command may do is taken for what the service may do.   *)
ServiceWide(obs, se) ==
    LET unit == UnitOf(obs, se[1])
    IN  (unit.user = "root" /\ ~unit.dynamic) \/ \E e \in DOMAIN unit.exec : unit.exec[e]

(* A command runs with privileges if its service does, or if the command   *)
(* overrides the service's user.                                           *)
Privileged(obs, se) ==
    \/ UnitOf(obs, se[1]).user = "root" /\ ~UnitOf(obs, se[1]).dynamic
    \/ UnitOf(obs, se[1]).exec[se[2]]

IsTarget(obs, w) ==
    w.at = obs[LookFor("resolve", w.of[2], w.of)].target

(* Whatever stat tells of is judged, but for a target that is not a        *)
(* regular file.                                                           *)
StatFails == {"absent", "refused", "loop"}

Judged(obs) ==
    {w \in Taken(obs, "stat") :
        obs[w].kind \notin StatFails /\ (IsTarget(obs, w) => obs[w].kind = "file")}

UnsafePaths(obs) == {w \in Judged(obs) : obs[w].unsafe}

PrivilegedUnsafe(obs) == {w \in UnsafePaths(obs) : Privileged(obs, w.of)}

DiscoveryErrors(obs) == {w \in Discovery : obs[w].returncode # 0}

(* What systemctl show says of a service is not all there is to know.      *)
Incomplete(obs, s) ==
    \/ s \notin Blocks(obs)
    \/ UnitOf(obs, s).user = "unreported"
    \/ DOMAIN UnitOf(obs, s).exec = {}

PathErrorsOf(obs) == (Taken(obs, "resolve") \ Resolved(obs)) \cup (Taken(obs, "stat") \ Judged(obs))

(* Mutant: services that systemctl show does not speak of are forgotten.   *)
ErrorsOfBlocks(obs) ==
    DiscoveryErrors(obs) \cup PathErrorsOf(obs)
        \cup {Look("service", s) : s \in {t \in Blocks(obs) : Incomplete(obs, t)}}

ExecutionErrors(obs) ==
    DiscoveryErrors(obs) \cup PathErrorsOf(obs)
        \cup {w \in {Show} : obs[w].returncode # 0}
        \cup {Look("service", s) : s \in {t \in Services(obs) : Incomplete(obs, t)}}

ServicesFinding(obs) ==
    IF Missing127(obs) # {} THEN Unknown
    ELSE IF Services(obs) = {}
         THEN IF DiscoveryErrors(obs) # {} THEN Unknown ELSE Nothing("high")
    ELSE IF ShowFailed(obs) THEN Unknown
    ELSE IF PrivilegedUnsafe(obs) # {}
         THEN Collected(PrivilegedUnsafe(obs), ExecutionErrors(obs), "fail", "high", Protected)
    ELSE Collected(UnsafePaths(obs), ExecutionErrors(obs), "review", "medium", Protected)

=============================================================================
