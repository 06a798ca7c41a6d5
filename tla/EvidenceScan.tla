----------------------------- MODULE EvidenceScan -----------------------------
(***************************************************************************)
(* The checks of the sudo policy, of service paths, of browser profiles    *)
(* and of single controls, running on a machine that changes meanwhile.    *)
(*                                                                         *)
(* A check takes one look after the other (a system call or a command);    *)
(* where it looks next depends on what the looks so far have shown, and so *)
(* do its findings.  The modules this one extends say how; this one lets   *)
(* the machine change between any two looks.                               *)
(***************************************************************************)
EXTENDS SudoPolicy, ServicePaths, Browser, Controls

CONSTANTS
    Possible,       \* [check -> [object that matters to it -> its possible values]]
    InitialWorlds,  \* [check -> the worlds it may start in, [object -> value]]
    MaxChanges      \* bound of the model: [check -> changes of the machine meanwhile]

AllChecks == SudoChecks \cup {ServicesCheck} \cup BrowserChecks \cup ControlChecks

Checks == DOMAIN Possible

ASSUME EvidenceScanAssumption ==
    /\ Checks \subseteq AllChecks
    /\ DOMAIN InitialWorlds = Checks
    /\ \A c \in Checks : \A w \in InitialWorlds[c] :
          DOMAIN w = DOMAIN Possible[c] /\ \A o \in DOMAIN w : w[o] \in Possible[c][o]
    /\ MaxChanges \in [Checks -> Nat]

(* What the looks of a check may lead to.                                  *)
ObjectsOf(c) ==
    CASE c \in PolicyChecks  ->
            {"sudoers", "sudoers.d"} \cup DropIn \cup Backup
                \cup UNION {Chain[p] : p \in {q \in DOMAIN Chain : c = "secure-path"}}
      [] c = "syntax"        -> {"sudoers", "visudo"}
      [] c = ServicesCheck   -> {"systemd"} \cup Executable \cup ExecutionPath
      [] c \in BrowserChecks ->
            ProfileRoot \cup (UNION {Profiles[d] : d \in ProfileRoot})
                \cup UNION {{d} \cup Extension[d] : d \in {e \in DOMAIN Extension : c = "extensions"}}
      [] c \in ControlChecks -> ControlObjects(c)

(* What a file of a control may show, and in what.                         *)
ShowsControl(c, o, value) ==
    /\ \/ c \in {"kernel", "network", "ip-forwarding", "security-modules", "empty-passwords"}
       \/ c = "secure-boot" /\ o \in BootVariable
       \/ c = "freshness" /\ o = "clock"
       => value.kind \in KindsOf(c, o)
    /\ value.kind = "number" => value.number \in Int
    /\ value.kind = "database" => value.mtime \in Int
    /\ value.kind = "clock" => value.now \in Int

(* The world of a check has all of them, each with a name of its own.      *)
ASSUME WorldAssumption ==
    /\ \A c \in Checks : DOMAIN Possible[c] = ObjectsOf(c)
    /\ \A c \in Checks : "sudoers.d" \in ObjectsOf(c) => c \in PolicyChecks
    /\ \A c \in Checks : "systemd" \in ObjectsOf(c) => c = ServicesCheck
    /\ {"sudoers.d", "efivars", "sync"} \cap (ProfileRoot \cup DOMAIN Extension) = {}
    /\ ServicesCheck \in Checks =>
          \A e \in Executable : \A value \in Possible[ServicesCheck][e] :
              value.kind = "resolved" => {value.target} \cup value.above \subseteq ExecutionPath
    /\ \A c \in Checks \cap ControlChecks : \A o \in ObjectsOf(c) : \A value \in Possible[c][o] :
          c \notin CommandControls => ShowsControl(c, o, value)
    /\ \A c \in Checks \cap PolicyChecks : \A f \in {"sudoers"} \cup DropIn :
          \A value \in Possible[c][f] :
              value.kind \in {"file", "link", "large"} /\ value.readable => value.text \in Seq(Seq(STRING))
    /\ "root-encryption" \in Checks =>
          \A r \in Possible["root-encryption"]["root-encryption"] :
              \A d, e \in r.stdout \cap DOMAIN Devices : d = e
    /\ \A c \in Checks \cap FirefoxChecks : \A p \in ProfilesFor(c) : \A value \in Possible[c][p] :
          value.kind = "profile" => value.text \in Seq(STRING \X STRING)

VARIABLES
    check,     \* the check that runs
    world,     \* [object -> value]: what there is now
    obs,       \* [look -> what it showed]
    findings,  \* [identifier -> finding], empty until the check has finished
    changes,   \* how often the machine has changed
    ever       \* history: [object -> the values it has had since the start]

vars == <<check, world, obs, findings, changes, ever>>

-----------------------------------------------------------------------------
(* What a look may show now.                                               *)
Content(d) ==
    CASE d = "sudoers.d"          -> DropIn \cup Backup
      [] d \in ProfileRoot        -> Profiles[d]
      [] d \in DOMAIN Extension   -> Extension[d]
      [] d = "efivars"            -> BootVariable
      [] d = "sync"               -> Database

(* glob finds nothing where there is nothing to be listed.                 *)
Listed(d) ==
    [kind |-> world[d].kind,
     entries |-> IF world[d].kind = "dir"
                 THEN {e \in Content(d) : world[e].kind # "absent"} ELSE {}]

(* systemctl: an inventory or a message; "show" may fail half way, or fail *)
(* without a word, and describes the services as they are at that moment.  *)
Inventory(flag) ==
    Executed(Result(0, {s \in Service : world["systemd"][s][flag]}))
        \cup {Result(1, Diagnostics)}

Shown(asked) ==
    LET shown(code, of) == [returncode |-> code, stdout |-> of, unit |-> world["systemd"]]
    IN  {shown(0, asked)} \cup {shown(code, part) : code \in {1, 124}, part \in SUBSET asked}
            \cup NotExecuted

Answers(w) ==
    CASE w = Show    -> Shown(Services(obs))
      [] w = Active  -> Inventory("active")
      [] w = Enabled -> Inventory("enabled")
      [] OTHER       -> Executed(world[w.at])

Outcomes(w) ==
    CASE w.call = "list" -> {Listed(w.at)}
      [] w.call = "run"  -> Answers(w)
      [] OTHER           -> {world[w.at]}

(* Exceptions that no check catches.  Up to Python 3.13 exists and is_dir  *)
(* raise where a directory on the way may not be searched, later they say  *)
(* no; up to 3.12 resolve raises another exception for a loop of links.  A *)
(* damaged archive may fail in the decompressor, a manifest nested too     *)
(* deeply in the parser (browser_extensions.py:132, 151).                  *)
MayRaise(w) ==
    \/ w.call = "run"
    \/ w.call \in {"exists", "is_dir", "is_profile"} /\ world[w.at].kind = "refused"
    \/ w.call = "resolve" /\ world[w.at].kind = "loop"
    \/ w.call = "read" /\ check = "extensions" /\ world[w.at].kind = "broken"

ReadAsAscii == {"kernel", "network", "ip-forwarding", "security-modules"}

MustRaise(w) ==
    \/ w.call = "list" /\ check \in BrowserChecks /\ world[w.at].kind # "dir"
    \/ w.call = "read" /\ check \in ReadAsAscii /\ world[w.at].kind = "undecodable"

-----------------------------------------------------------------------------
Ready ==
    CASE check \in SudoChecks      -> SudoReady(check, obs)
      [] check = ServicesCheck     -> ServicesReady(obs)
      [] check \in BrowserChecks   -> BrowserReady(check, obs)
      [] check \in ControlChecks   -> ControlsReady(check, obs)

(* Most checks have one finding, with their own identifier.                *)
Single(finding) == [id \in {check} |-> finding]

Verdict ==
    CASE check \in SudoChecks      -> Single(SudoFinding(check, obs))
      [] check = ServicesCheck     -> Single(ServicesFinding(obs))
      [] check \in BrowserChecks   -> Single(BrowserFinding(check, obs))
      [] check \in ControlChecks   -> ControlsFindings(check, obs)

RunnerError == Single(Finding("error", "info", "high"))

Running == findings = <<>>

Init ==
    /\ check \in Checks
    /\ world \in InitialWorlds[check]
    /\ obs = <<>>
    /\ findings = <<>>
    /\ changes = 0
    /\ ever = [o \in DOMAIN world |-> {world[o]}]

(* One system call or command, and what the check makes of it.             *)
Take(w) ==
    /\ Running
    /\ w \in Ready
    /\ ~MustRaise(w)
    /\ \E shown \in Outcomes(w) : obs' = Noted(obs, w, shown)
    /\ UNCHANGED <<check, world, findings, changes, ever>>

(* The exception ends the check; the runner reports it.                    *)
LookRaises(w) ==
    /\ Running
    /\ w \in Ready
    /\ MayRaise(w) \/ MustRaise(w)
    /\ findings' = RunnerError
    /\ UNCHANGED <<check, world, obs, changes, ever>>

Conclude ==
    /\ Running
    /\ Ready = {}
    /\ findings' = Verdict
    /\ UNCHANGED <<check, world, obs, changes, ever>>

(* Another process, or the administrator, changes something.               *)
Change(o) ==
    /\ Running
    /\ changes < MaxChanges[check]
    /\ changes' = changes + 1
    /\ \E value \in Possible[check][o] \ {world[o]} :
          /\ world' = [world EXCEPT ![o] = value]
          /\ ever' = [ever EXCEPT ![o] = @ \cup {value}]
    /\ UNCHANGED <<check, obs, findings>>

CheckStep == (\E w \in Ready : Take(w) \/ LookRaises(w)) \/ Conclude

Next == CheckStep \/ \E o \in DOMAIN world : Change(o)

Spec == Init /\ [][Next]_vars

(* Every look ends: system calls return and commands have a timeout.       *)
FairSpec == Spec /\ WF_vars(CheckStep)

-----------------------------------------------------------------------------
TypeOK ==
    /\ check \in Checks
    /\ \A o \in DOMAIN world : world[o] \in Possible[check][o] /\ world[o] \in ever[o]
    /\ \A w \in DOMAIN obs : w.call \in {"run", "list", "time"} \/ obs[w] \in ever[w.at]
    /\ \A id \in DOMAIN findings :
          /\ findings[id].status \in {"pass", "fail", "review", "unknown", "error", "not_applicable"}
          /\ findings[id].severity \in {"info", "low", "medium", "high", "critical"}
          /\ findings[id].confidence \in {"high", "medium", "low"}
          /\ findings[id].severity = "info" <=> findings[id].status \notin {"fail", "review"}
    /\ changes \in 0..MaxChanges[check]

-----------------------------------------------------------------------------
(* What does not change while the check runs.                              *)
Still == {o \in DOMAIN world : ever[o] = {world[o]}}

Stays(o, kinds) == o \in Still /\ world[o].kind \in kinds

(* When a value of an object violates what the check stands for.  What a   *)
(* policy says is told from the places of its tokens, and not from the     *)
(* check's logical lines and rules.                                        *)
Positive == {"fail", "review"}

Finished == ~Running /\ findings # RunnerError

(* Position k of physical line i is policy if no comment comes before it   *)
(* in its line, which starts where the line before is not continued.       *)
Joined(text, j, i) == \A n \in j..(i - 1) : Continued(text[n])

IsPolicy(text, i, k) ==
    \A j \in 1..i : \A m \in DOMAIN text[j] :
        text[j][m] \in Comments /\ (j < i \/ m < k) => ~Joined(text, j, i)

(* The first token of the line is on line j, which only backslashes precede. *)
InDefaults(text, i) ==
    \E j \in 1..i :
        /\ text[j] # <<>> /\ text[j][1] = "Defaults" /\ Joined(text, j, i)
        /\ \A h \in 1..(j - 1) : Joined(text, h, j) => text[h] = <<"\\">>

Grants(text) ==
    \E i \in DOMAIN text : \E k \in DOMAIN text[i] :
        /\ IsPolicy(text, i, k)
        /\ \/ text[i][k] = "NOPASSWD:"
           \/ text[i][k] = "!authenticate" /\ InDefaults(text, i)

(* The policy that starts on line s: the places of its tokens, on lines    *)
(* joined to s and not behind a comment, and the tokens in their order.    *)
(* A backslash that continues a line is no token.                          *)
Places(text, s) ==
    UNION {{i} \X {k \in DOMAIN text[i] :
                      /\ IsPolicy(text, i, k) /\ text[i][k] \notin Comments
                      /\ ~(k = Len(text[i]) /\ text[i][k] = "\\")} :
              i \in {j \in s..Len(text) : Joined(text, s, j)}}

Precedes(p, q) == p[1] < q[1] \/ (p[1] = q[1] /\ p[2] < q[2])

Earlier(places, p) == {q \in places : Precedes(q, p)}

Reading(text, s) ==
    LET places == Places(text, s)
        place(n) == CHOOSE p \in places : Cardinality(Earlier(places, p)) = n - 1
    IN  [n \in 1..Cardinality(places) |-> text[place(n)[1]][place(n)[2]]]

Readings(text) == {Reading(text, s) : s \in LineStarts(text)}

PolicyFiles == {"sudoers"} \cup DropIn

Says(value) == value.kind \in {"file", "link", "large"} /\ value.readable

Assigned(text) == UNION {Components(rule) : rule \in Readings(text)}

PolicyViolates(text) ==
    CASE check = "passwordless" -> Grants(text)
      [] check = "broad"        -> \E rule \in Readings(text) : Broad(rule)
      [] check = "secure-path"  -> Assigned(text) \cap Misplaced # {}

SudoViolates(o, value) ==
    \/ check \in PolicyChecks /\ o \in PolicyFiles /\ Says(value) /\ PolicyViolates(value.text)
    \/ check = "secure-path" /\ o \in UNION {Chain[c] : c \in DOMAIN Chain} /\ UnsafeDirectory(value)
    \/ /\ check = "syntax" /\ o = "visudo"
       /\ value.returncode \notin {0, 124, 126, 127} /\ "permission denied" \notin value.stdout

(* The last line about a preference is the one that counts.                *)
LastSays(text, key, setting) ==
    \E i \in DOMAIN text : /\ text[i] = <<key, setting>>
                          /\ \A j \in (i + 1)..Len(text) : text[j][1] # key

BrowserViolates(o, value) ==
    \/ /\ check = "extensions" /\ o \notin ProfilesFor(check)
       /\ value.kind = "manifest" /\ value.powers # {}
    \/ /\ check = "profile-permissions" /\ o \in ProfilesFor(check)
       /\ value.kind # "absent" /\ value.exposed
    \/ /\ check \in FirefoxChecks /\ o \in ProfilesFor(check) /\ Readable(value)
       /\ IF check = "https-only" THEN LastSays(value.text, "https", "false")
          ELSE LastSays(value.text, "tls.min", "1") \/ LastSays(value.text, "roots", "true")

(* The databases that are there all along: one that is fresh is enough.    *)
KeptDatabases ==
    {world[d] : d \in {e \in Database : Stays("sync", {"dir"}) /\ Stays(e, {"database"})}}

ControlViolates(o, value) ==
    \/ check = "kernel" /\ value.kind = "number" /\ value.number < Minimum[o]
    \/ /\ check = "network" /\ value.kind = "number"
       /\ IF Expected[o] = 0 THEN value.number # 0 ELSE value.number < Expected[o]
    \/ check = "ip-forwarding" /\ value.kind = "on"
    \/ check = "secure-boot" /\ value.kind = "disabled"
    \/ /\ check = "security-modules" /\ o = "lsm"
       /\ value.kind = "modules" /\ value.names \cap MandatoryAccessControl = {}
    \/ check = "security-modules" /\ o = "lockdown" /\ value.kind = "none"
    \/ check = "uid-zero" /\ value.kind = "text" /\ "toor uid=0" \in value.lines
    \/ check = "empty-passwords" /\ value.kind = "text" /\ "empty password" \in value.lines
    \/ check = "shared-mounts" /\ value.kind = "text" /\ "shared" \in value.lines
    \/ /\ check = "freshness" /\ value.kind = "database"
       /\ \E clock \in ever["clock"] : \A old \in {value} \cup KeptDatabases :
                clock.now - old.mtime > maximum_age_days
    \/ /\ check = "root-encryption" /\ value.returncode = 0
       /\ \E d \in value.stdout \cap DOMAIN Devices : \E path \in Devices[d].roots :
                \A k \in DOMAIN path : path[k] \notin Devices[d].crypt
    \/ /\ check = "processes" /\ value.returncode = 0
       /\ \E line \in value.stdout \cap DOMAIN BrowserProcesses : BrowserProcesses[line] # "info"

Violates(o, value) ==
    CASE check \in SudoChecks    -> SudoViolates(o, value)
      [] check = ServicesCheck   -> o \in ExecutionPath /\ value.kind \notin StatFails /\ value.unsafe
      [] check \in BrowserChecks -> BrowserViolates(o, value)
      [] check \in ControlChecks -> ControlViolates(o, value)

-----------------------------------------------------------------------------
(* What the check can reach of it: the way to it does not change either.   *)
FilesInReach == {f \in PolicyFiles \cap Still : f \in DropIn => Stays("sudoers.d", {"dir"})}

DirectoriesInReach ==
    LET read == {f \in FilesInReach : world[f].kind = "file" /\ world[f].readable}
    IN  UNION {Chain[c] : c \in (UNION {Assigned(world[f].text) : f \in read}) \ Misplaced}

Runs ==
    IF "systemd" \notin Still THEN {}
    ELSE {se \in Service \X Executable :
            LET unit == world["systemd"][se[1]]
            IN  (unit.active \/ unit.enabled) /\ se[2] \in DOMAIN unit.exec}

PathsOf(program) ==
    IF Stays(program, {"resolved"}) THEN {world[program].target} \cup world[program].above ELSE {}

ProfilesInReach ==
    {p \in ProfilesFor(check) : /\ Stays(p, {"profile"})
                               /\ \A d \in ProfileRoot : p \in Profiles[d] => Stays(d, {"dir"})}

ExtensionsInReach ==
    UNION {Extension[Extensions[p]] : p \in {q \in ProfilesInReach : Stays(Extensions[q], {"dir"})}}

ControlsInReach ==
    CASE check = "secure-boot" ->
            {v \in BootVariable : /\ Stays("efivars", {"dir"})
                                  /\ \A u \in BootVariable \ {v} : Stays(u, {"absent"})}
      [] check = "freshness" ->
            {d \in Database : /\ Stays("sync", {"dir"}) /\ "clock" \in Still
                              /\ \A e \in Database : e \in Still}
      [] OTHER -> DOMAIN world

InReach ==
    Still \cap
    CASE check = "syntax"      -> {o \in {"visudo"} : "sudoers" \in Still /\ world["sudoers"].kind \notin {"absent", "refused"}}
      [] check = "secure-path" -> FilesInReach \cup DirectoriesInReach
      [] check \in {"passwordless", "broad"} -> FilesInReach
      [] check = ServicesCheck -> {se[2] : se \in Runs} \cup UNION {PathsOf(se[2]) : se \in Runs}
      [] check = "extensions"  -> ExtensionsInReach
      [] check \in BrowserChecks \ {"extensions"} -> ProfilesInReach
      [] check \in ControlChecks -> ControlsInReach

(* What can be seen of it at all.                                          *)
Judgeable(o) ==
    /\ check \in PolicyChecks /\ o \in PolicyFiles => world[o].kind = "file" /\ world[o].readable
    /\ check = ServicesCheck =>
          /\ o \in ExecutionPath
          /\ \A se \in Runs : o \in PathsOf(se[2]) /\ o = world[se[2]].target => world[o].kind = "file"
    /\ check \in FirefoxChecks => world[o].readable
    /\ check = "ip-forwarding" => \A p \in DOMAIN world : Stays(p, {"on", "off", "absent"})
    /\ check = "shared-mounts" => world[o].kind = "text" /\ "malformed" \notin world[o].lines
    /\ check = "freshness" => \A d \in Database : world[d].kind = "absent" \/ Violates(d, world[d])

Exposures == {o \in InReach : Judgeable(o) /\ Violates(o, world[o])}

About(o) == IF o \in DOMAIN findings THEN findings[o] ELSE findings[check]

Answered ==
    \A w \in Taken(obs, "run") : obs[w] \notin NotExecuted /\ (w.at = "systemd" => obs[w].returncode = 0)

(* An exposure in reach that does not change while the check runs is       *)
(* reported, whatever else changes between any two looks and whatever else *)
(* cannot be read (sudo_policy.py:26-55, 323-336; systemd_execution.py:    *)
(* 198-236; firefox_preferences.py:42-76; kernel.py:42-70): a clean        *)
(* neighbour, an error or a later line does not mask it.                   *)
ExposureIsReported ==
    Finished /\ Answered => \A o \in Exposures : About(o).status \in Positive

RunsPrivileged(unit, e) == unit.exec[e] \/ (unit.user = "root" /\ ~unit.dynamic)

(* A moment at which service s was active or enabled, one at which program *)
(* e was its, with privileges, and one at which a path of it was unsafe.   *)
WasPrivileged(s, e) ==
    /\ \E units \in ever["systemd"] : units[s].active \/ units[s].enabled
    /\ \E units \in ever["systemd"] : e \in DOMAIN units[s].exec /\ RunsPrivileged(units[s], e)
    /\ \E r \in ever[e] :
          /\ r.kind = "resolved"
          /\ \E o \in {r.target} \cup r.above : \E value \in ever[o] : Violates(o, value)

(* A program that runs with privileges, and whose path is unsafe all       *)
(* along, makes the check fail, not merely ask for a review; and only such *)
(* a program makes it fail, not the privileges of another command of the   *)
(* service or an unsafe path of another program (systemd_execution.py:     *)
(* 181-182, 214-217).                                                      *)
PrivilegeDecides ==
    Finished /\ check = ServicesCheck =>
        /\ Answered => \A se \in Runs :
              /\ PathsOf(se[2]) \cap Exposures # {}
              /\ RunsPrivileged(world["systemd"][se[1]], se[2])
              => findings[check].status = "fail"
        /\ findings[check].status = "fail" =>
              \E s \in Service, e \in Executable : WasPrivileged(s, e)

(* No false accusation: whatever is reported was there at some moment of   *)
(* the scan, in a place that counts; files that sudo ignores, commented    *)
(* policy and the profiles of other browsers do not (sudo_policy.py:38,    *)
(* 95-98; firefox_preferences.py:33; ROADMAP.md:29, "demonstrated policy   *)
(* violations").                                                           *)
VerdictWasReal ==
    \A id \in DOMAIN findings : findings[id].status \in Positive =>
        \E o \in IF id = check THEN DOMAIN world ELSE {id} : \E value \in ever[o] : Violates(o, value)

(* What the check is to look at and cannot see.  Left out is what a later  *)
(* Python takes for absent, as exists and is_dir then say no: a main       *)
(* policy file that is refused or dangling, and a profile of which nothing *)
(* may be known (profile-permissions).  Up to 3.13 an exception ends the   *)
(* check there, but for the dangling file, which exists never sees.        *)
Hidden(o) ==
    LET value == world[o]
    IN  \/ /\ check \in PolicyChecks /\ o \in PolicyFiles
           /\ \/ value.kind \in {"link", "large"}
              \/ value.kind = "dangling" /\ o \in DropIn
              \/ value.kind = "file" /\ (~value.readable \/ Unresolved(value.text) # {})
        \/ check = "secure-path" /\ o \notin PolicyFiles /\ value.kind \in {"absent", "refused", "link"}
        \/ check = "syntax" /\ value.returncode # 0 /\ "permission denied" \in value.stdout
        \/ check = ServicesCheck /\ o \in Executable /\ value.kind # "resolved"
        \/ check = ServicesCheck /\ o \notin Executable /\ value.kind \in StatFails
        \/ check \in FirefoxChecks /\ ~value.readable
        \/ check = "extensions" /\ value.kind = "broken"
        \/ check \in CommandControls /\ value.returncode # 0
        \/ /\ check \in ControlChecks \ CommandControls
           /\ \/ value.kind \in {"refused", "garbage", "io-error", "other", "short", "unmarked"}
              \/ value.kind = "text" /\ "malformed" \in value.lines

(* A listing, or what systemd does not say of a service, hides more.       *)
BlindSpots ==
    {o \in InReach : Hidden(o)}
        \cup {d \in Still \cap {"sudoers.d"} : world[d].kind = "unlistable"}
        \cup {s \in {"systemd"} \cap Still : \E t \in Service :
                /\ world[s][t].active \/ world[s][t].enabled
                /\ world[s][t].user = "unreported" \/ DOMAIN world[s][t].exec = {}}

(* "Checks that cannot obtain enough evidence report unknown or error;     *)
(* they do not silently pass" (README.md:63-64; test_sudo_policy.py:66-78):*)
(* something in reach that cannot be seen all along leaves no pass and no  *)
(* not_applicable, and a check that collects from several places does not  *)
(* claim high confidence (sudo_policy.py:67, systemd_execution.py:229,     *)
(* browser_extensions.py:81).                                              *)
BlindSpotShows ==
    Finished => \A o \in BlindSpots :
        /\ About(o).status \notin {"pass", "not_applicable"}
        /\ check \in PolicyChecks \cup {ServicesCheck} \cup BrowserChecks => About(o).confidence # "high"

(* Every check ends, although the machine changes under it.                *)
Concludes == <>(~Running)

-----------------------------------------------------------------------------
(* The checks that collect from several places implement the contract of a *)
(* check, with their looks for its paths.                                  *)
Collecting == PolicyChecks \cup {ServicesCheck} \cup BrowserChecks

(* Whether a look showed a violation, or not what it was to show.          *)
ShowsViolation(w) ==
    LET value == obs[w]
    IN  CASE check \in PolicyChecks ->
                \/ w \in Texts(obs) /\ PolicyViolates(value.text)
                \/ check = "secure-path" /\ w.call = "lstat-dir" /\ UnsafeDirectory(value)
          [] check = ServicesCheck          -> w \in UnsafePaths(obs)
          [] check \in BrowserChecks        -> w.call \in {"stat", "read"} /\ BrowserViolates(w.at, value)

ShowsNothing(w) ==
    LET value == obs[w]
    IN  CASE check \in PolicyChecks ->
                w \in PolicyErrors(obs) \/ (w.call = "lstat-dir" /\ value.kind \in {"absent", "refused", "link"})
          [] check = ServicesCheck ->
                \/ w.call = "run" /\ value.returncode # 0
                \/ w = Show /\ \E s \in Services(obs) : Incomplete(obs, s)
                \/ w \in PathErrorsOf(obs)
          [] check = "profile-permissions"  -> w.call = "stat" /\ value.kind = "absent"
          [] check = "preferences"          -> w \in Unread(obs)
          [] check = "https-only"           -> w.call = "read" /\
                (~Readable(value) \/ Preference(value.text, "https") \notin {"true", "false"})
          [] check = "extensions"           -> w.call = "read" /\ w \notin Manifests(obs)

Evidential == {"read", "lstat-dir", "stat"}

SeenAs(w) ==
    IF w \notin DOMAIN obs \/ check \notin Collecting THEN "unseen"
    ELSE IF ShowsViolation(w) THEN "unsafe"
    ELSE IF ShowsNothing(w) THEN "blind"
    ELSE IF w.call \in Evidential THEN "safe" ELSE "gone"

Looks ==
    {Listing, Active, Enabled, Show}
        \cup {Look(call, f) : call \in {"lstat", "read"}, f \in PolicyFiles}
        \cup {Look("lstat-dir", d) : d \in UNION {Chain[c] : c \in DOMAIN Chain}}
        \cup {LookFor("resolve", se[2], se) : se \in Service \X Executable}
        \cup {LookFor("stat", p, se) : p \in ExecutionPath, se \in Service \X Executable}
        \cup {Look(call, p) : call \in {"stat", "read"}, p \in UNION {Profiles[d] : d \in ProfileRoot}}
        \cup {Look("read", e) : e \in UNION {Extension[d] : d \in DOMAIN Extension}}

Contract ==
    INSTANCE CheckContract WITH
        Path <- Looks, obs <- [w \in Looks |-> SeenAs(w)],
        status <- IF Running \/ check \notin Collecting THEN "none" ELSE findings[check].status,
        Violation <- {"fail", "review"}, MayAbort <- TRUE

ImplementsContract == Contract!ContractSpec

=============================================================================
