------------------------------- MODULE Controls -------------------------------
(***************************************************************************)
(* The checks that read single values: kernel and network controls, IP     *)
(* forwarding, Secure Boot, security modules, the account databases, the   *)
(* age of the package databases, mounts, the device tree of the root file  *)
(* system and the flags of running browsers (scanit/checks/kernel.py,      *)
(* network.py, boot.py, security_modules.py, accounts.py, packages.py,     *)
(* storage.py, browser_processes.py).                                      *)
(*                                                                         *)
(* What a file shows is a record with its kind, "absent", "refused" or     *)
(* what was read.  Some of these checks read several files, one after the  *)
(* other, and some stop at the first they cannot read.                     *)
(***************************************************************************)
EXTENDS Evidence

CONSTANTS
    Minimum,      \* [kernel control -> least accepted value]
    SeverityOf,   \* [kernel control -> severity of a lower one]
    Expected,     \* [network control -> 0, or the least accepted value]
    BootVariable, \* the SecureBoot-* variables there may be
    Database,     \* the pacman databases there may be
    Devices,      \* [output of lsblk -> its devices]
    maximum_age_days

ASSUME ControlsAssumption ==
    /\ Minimum \in [DOMAIN Minimum -> Nat]
    /\ SeverityOf \in [DOMAIN Minimum -> {"low", "medium", "high"}]
    /\ Expected \in [DOMAIN Expected -> Nat]
    /\ maximum_age_days \in Nat
    /\ IsFiniteSet(Database)

KernelControl == DOMAIN Minimum
NetworkControl == DOMAIN Expected

CommandControls == {"root-encryption", "processes"}

ControlChecks ==
    {"kernel", "network", "ip-forwarding", "secure-boot", "security-modules",
     "uid-zero", "empty-passwords", "shared-mounts", "freshness"} \cup CommandControls

(* What each of them looks at.                                             *)
ControlObjects(c) ==
    CASE c = "kernel"           -> KernelControl
      [] c = "network"          -> NetworkControl
      [] c = "ip-forwarding"    -> {"ipv4", "ipv6"}
      [] c = "secure-boot"      -> {"efivars"} \cup BootVariable
      [] c = "security-modules" -> {"lsm", "lockdown"}
      [] c = "freshness"        -> {"sync", "clock"} \cup Database
      [] OTHER                  -> {c}

(* The kinds of what its files may show, where a check tells them apart.   *)
KindsOf(c, o) ==
    CASE c \in {"kernel", "network"} -> {"absent", "refused", "undecodable", "garbage", "number"}
      [] c = "ip-forwarding"   -> {"absent", "refused", "undecodable", "garbage", "on", "off"}
      [] c = "secure-boot" /\ o \in BootVariable ->
            {"absent", "refused", "short", "enabled", "disabled", "other"}
      [] c = "security-modules" /\ o = "lsm" -> {"absent", "refused", "undecodable", "modules"}
      [] c = "security-modules" /\ o = "lockdown" ->
            {"absent", "refused", "undecodable", "unmarked", "none", "integrity", "other"}
      [] c = "empty-passwords" -> {"absent", "refused", "io-error", "text"}
      [] c = "freshness" /\ o = "clock" -> {"clock"}

Read(o) == Look("read", o)

-----------------------------------------------------------------------------
(* The files each check reads, in the order of the code.                   *)
Forwarding == <<"ipv4", "ipv6">>

(* IpForwardingCheck gives up at the first file it may not read.           *)
ForwardingReady(obs) ==
    IF Read("ipv4") \notin DOMAIN obs THEN {Read("ipv4")}
    ELSE Pending({Read("ipv6") : w \in {v \in {Read("ipv4")} : obs[v].kind # "refused"}}, obs)

EfiTest == Look("is_dir", "efivars")
EfiList == Look("list", "efivars")

(* The first variable that glob yields, whichever that is.                 *)
BootReady(obs) ==
    CASE EfiTest \notin DOMAIN obs -> {EfiTest}
      [] EfiTest \in DOMAIN obs /\ EfiList \notin DOMAIN obs ->
            {w \in {EfiList} : obs[EfiTest].kind \in {"dir", "unlistable"}}
      [] {EfiTest, EfiList} \subseteq DOMAIN obs ->
            {Read(v) : v \in {u \in obs[EfiList].entries : Taken(obs, "read") = {}}}

SyncList == Look("list", "sync")
Clock == Look("time", "clock")

Stats(obs) == {Look("stat", d) : d \in obs[SyncList].entries}

StatFailed(obs) == \E w \in Taken(obs, "stat") : obs[w].kind # "database"

(* The databases are listed, then looked at, then compared with the clock. *)
FreshnessReady(obs) ==
    IF SyncList \notin DOMAIN obs THEN {SyncList}
    ELSE IF StatFailed(obs) \/ Stats(obs) = {} THEN {}
    ELSE InOrder(Pending(Stats(obs), obs), Pending({Clock}, obs))

ControlsReady(c, obs) ==
    CASE c = "kernel"           -> Pending({Read(k) : k \in KernelControl}, obs)
      [] c = "network"          -> Pending({Read(k) : k \in NetworkControl}, obs)
      [] c = "ip-forwarding"    -> ForwardingReady(obs)
      [] c = "secure-boot"      -> BootReady(obs)
      [] c = "security-modules" -> InOrder(Pending({Read("lsm")}, obs), Pending({Read("lockdown")}, obs))
      [] c = "freshness"        -> FreshnessReady(obs)
      [] c \in CommandControls  -> Pending({Look("run", c)}, obs)
      [] OTHER                  -> Pending({Read(c)}, obs)

-----------------------------------------------------------------------------
(* The findings, [identifier -> finding].                                  *)
Sysctl(value, meets, failed) ==
    CASE value.kind = "absent"  -> Nothing("medium")
      [] value.kind = "refused" -> Unknown
      [] value.kind = "garbage" -> Unfinished
      [] value.kind = "number"  -> IF meets THEN Protected ELSE failed

KernelFinding(k, value) ==
    Sysctl(value, value.number >= Minimum[k], Finding("fail", SeverityOf[k], "high"))

NetworkFinding(k, value) ==
    Sysctl(value, IF Expected[k] = 0 THEN value.number = 0 ELSE value.number >= Expected[k],
           Finding("review", "low", "high"))

ForwardingFinding(obs) ==
    LET shown(kind) == {w \in DOMAIN obs : obs[w].kind = kind}
    IN  IF shown("refused") # {} THEN Unknown
        ELSE IF shown("garbage") # {} THEN Unfinished
        ELSE IF shown("on") # {} THEN Finding("review", "low", "high")
        ELSE IF shown("off") # {} THEN Protected
        ELSE Nothing("medium")

(* The fifth byte of the variable decides.                                 *)
BootFinding(obs) ==
    IF Taken(obs, "read") = {} THEN Unknown
    ELSE LET value == obs[CHOOSE w \in Taken(obs, "read") : TRUE]
         IN  CASE value.kind \in {"absent", "refused", "other"} -> Unknown
               [] value.kind = "short"    -> Unfinished
               [] value.kind = "enabled"  -> Protected
               [] value.kind = "disabled" -> Finding("fail", "medium", "high")

MandatoryAccessControl == {"apparmor", "selinux", "smack", "tomoyo"}

ModulesFinding(value) ==
    CASE value.kind \in {"absent", "refused"} -> Unknown
      [] value.kind = "modules" ->
            IF value.names \cap MandatoryAccessControl # {} THEN Protected
            ELSE Finding("fail", "low", "high")

LockdownFinding(value) ==
    CASE value.kind = "absent"    -> Nothing("medium")
      [] value.kind \in {"refused", "other"} -> Unknown
      [] value.kind = "unmarked"  -> Unfinished
      [] value.kind = "none"      -> Finding("fail", "low", "high")
      [] value.kind = "integrity" -> Protected

(* /etc/passwd as the set of its lines.                                    *)
UidZeroFinding(value) ==
    IF value.kind # "text" THEN Unknown
    ELSE IF "toor uid=0" \in value.lines THEN Finding("fail", "critical", "high")
    ELSE IF "root uid=0" \notin value.lines \/ "malformed" \in value.lines THEN Unknown
    ELSE Protected

EmptyPasswordsFinding(value) ==
    CASE value.kind \in {"absent", "refused"} -> Unknown
      [] value.kind = "io-error" -> Unfinished
      [] value.kind = "text" ->
            IF "empty password" \in value.lines THEN Finding("fail", "critical", "high")
            ELSE IF "malformed" \in value.lines THEN Unknown ELSE Protected

(* A FAT file system at /boot or /efi is none of the shared ones.          *)
MountsFinding(value) ==
    IF value.kind # "text" THEN Unknown
    ELSE IF value.lines = {} \/ "malformed" \in value.lines THEN Unfinished
    ELSE IF "shared" \in value.lines THEN Finding("review", "low", "high")
    ELSE IF "shared nosuid,nodev,noexec" \in value.lines THEN Protected ELSE Nothing("high")

(* Mutant: the oldest database decides.                                    *)
OldestAge(obs) ==
    LET times == {obs[w].mtime : w \in Taken(obs, "stat")}
    IN  obs[Clock].now - (CHOOSE t \in times : \A u \in times : t <= u)

(* The age of the newest database.                                         *)
Age(obs) ==
    LET times == {obs[w].mtime : w \in Taken(obs, "stat")}
    IN  obs[Clock].now - (CHOOSE t \in times : \A u \in times : u <= t)

FreshnessFinding(obs) ==
    IF StatFailed(obs) \/ Stats(obs) = {} \/ Age(obs) < 0 THEN Unknown
    ELSE IF Age(obs) > maximum_age_days THEN Finding("fail", "low", "high")
    ELSE Protected

(* _collect_root_states: Devices has the path from the disk to each device *)
(* mounted at "/", and the devices of type crypt.                          *)
EncryptionFinding(r) ==
    IF r.returncode # 0 THEN Unavailable(r)
    ELSE IF r.stdout \cap DOMAIN Devices = {} THEN Unfinished
    ELSE LET tree == Devices[CHOOSE d \in r.stdout : d \in DOMAIN Devices]
             encrypted(path) == \E k \in DOMAIN path : path[k] \in tree.crypt
         IN  IF tree.roots = {} THEN Unknown
             ELSE IF \A path \in tree.roots : encrypted(path)
             THEN Finding("pass", "info", "medium") ELSE Finding("fail", "medium", "medium")

(* The lines of ps that are about a browser, with the severity of their    *)
(* flags.                                                                  *)
BrowserProcesses ==
    [line \in {"chromium", "chromium --no-sandbox", "firefox --remote-debugging-port"} |->
        CASE line = "chromium"                        -> "info"
          [] line = "chromium --no-sandbox"           -> "critical"
          [] line = "firefox --remote-debugging-port" -> "medium"]

ProcessesFinding(r) ==
    LET flagged(severity) == \E line \in r.stdout \cap DOMAIN BrowserProcesses :
                                BrowserProcesses[line] = severity
    IN  IF r.returncode # 0 THEN Unavailable(r)
        ELSE IF flagged("critical") THEN Finding("fail", "critical", "high")
        ELSE IF flagged("medium") THEN Finding("fail", "medium", "high")
        ELSE IF flagged("info") THEN Protected ELSE Nothing("high")

ControlFinding(c, o, obs) ==
    CASE c = "kernel"           -> KernelFinding(o, obs[Read(o)])
      [] c = "network"          -> NetworkFinding(o, obs[Read(o)])
      [] c = "security-modules" -> IF o = "lsm" THEN ModulesFinding(obs[Read(o)])
                                   ELSE LockdownFinding(obs[Read(o)])
      [] c = "ip-forwarding"    -> ForwardingFinding(obs)
      [] c = "secure-boot"      -> BootFinding(obs)
      [] c = "freshness"        -> FreshnessFinding(obs)
      [] c = "uid-zero"         -> UidZeroFinding(obs[Read(c)])
      [] c = "empty-passwords"  -> EmptyPasswordsFinding(obs[Read(c)])
      [] c = "shared-mounts"    -> MountsFinding(obs[Read(c)])
      [] c = "root-encryption"  -> EncryptionFinding(obs[Look("run", c)])
      [] c = "processes"        -> ProcessesFinding(obs[Look("run", c)])

(* Three of the checks have a finding for each of their files.             *)
Identifiers(c) == IF c \in {"kernel", "network", "security-modules"} THEN ControlObjects(c) ELSE {c}

ControlsFindings(c, obs) == [id \in Identifiers(c) |-> ControlFinding(c, id, obs)]

=============================================================================
