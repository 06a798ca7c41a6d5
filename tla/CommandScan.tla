---------------------------- MODULE CommandScan ----------------------------
(***************************************************************************)
(* The checks that ask other programs (scanit/commands.py and the checks   *)
(* in firewall.py, ssh.py, package_trust.py, packages.py, listeners.py,    *)
(* systemd_services.py, time_sync.py and vulnerabilities.py).              *)
(*                                                                         *)
(* A check runs one command after the other; what it runs next depends on  *)
(* the results so far, and its findings depend on all of them.  A command  *)
(* may be missing, refused or time out, and services, repositories and     *)
(* settings may change between two commands.                               *)
(***************************************************************************)
EXTENDS Evidence, Lists, SequencesExt

CONSTANTS
    Checks,        \* the checks to consider, a subset of CheckName
    services,      \* the firewall services, a sequence
    repositories,  \* the repositories there may be, in the order of pacman.conf
    Answers,       \* for each query, the results the program may give
    MaxChanges     \* bound of the model: changes of the machine during a check

CheckName ==
    {"firewall", "ssh", "signatures",                          \* several commands
     "updates", "foreign", "vulnerabilities", "listeners",     \* one command
     "debug-shell", "ntp"}

(* The queries.  Those of one-command checks have the name of the check;   *)
(* firewall asks for each service, signatures for each repository.         *)
QueriesOf(c) ==
    CASE c = "firewall"   -> ToSet(services)
      [] c = "ssh"        -> {"sshd", "sshd -T"}
      [] c = "signatures" -> {"SigLevel"} \cup ToSet(repositories)
      [] OTHER            -> {c}

(* The repositories of S, in the order of pacman.conf.                     *)
Ordered(S) == ItemsAt(repositories, {i \in DOMAIN repositories : repositories[i] \in S})

Special == {"sshd", "sshd -T", "SigLevel", "--repo-list"}

ASSUME CommandScanAssumption ==
    /\ Checks \subseteq CheckName
    /\ services \in Seq(STRING) /\ repositories \in Seq(STRING)
    /\ IsInjective(services) /\ IsInjective(repositories)
    /\ (ToSet(services) \cup ToSet(repositories)) \cap Special = {}
    /\ \A c \in Checks : QueriesOf(c) \subseteq DOMAIN Answers
    /\ \A q \in DOMAIN Answers : \A r \in Answers[q] :
          r.returncode \in Int /\ IsFiniteSet(r.stdout)
    /\ MaxChanges \in Nat

VARIABLES
    check,       \* the check that runs
    world,       \* [query -> result]: what each program would answer now
    plan,        \* the queries still to be made, a sequence
    results,     \* [query -> result] of the commands that ran
    findings,    \* [identifier -> finding], empty until the check has finished
    changes,     \* how often the machine has changed
    ever         \* history: [query -> the answers it would have given so far]

vars == <<check, world, plan, results, findings, changes, ever>>

-----------------------------------------------------------------------------
(* pacman-conf --repo-list names the repositories that are configured now. *)
Configured == {r \in ToSet(repositories) : world[r].returncode = 0}

Answer(q) == IF q = "--repo-list" THEN Result(0, Configured) ELSE world[q]

-----------------------------------------------------------------------------
(* What the checks make of the results.                                    *)
Single(f) == [id \in {check} |-> f]

IsInactive(r) ==
    /\ r.returncode \in {3, 4}
    /\ r.stdout \in {{"inactive"}, {"failed"}, {"unknown"}, {"not-found"}}

(* Mutant: everything that is not inactive is active.                      *)
IsNotInactive(r) == ~IsInactive(r)

IsActive(r) == r.returncode = 0 /\ r.stdout = {"active"}

(* Mutant: one stopped service is enough for a failure.                    *)
FirewallAnyInactive ==
    IF \E s \in DOMAIN results : IsInactive(results[s])
    THEN Finding("fail", "medium", "medium") ELSE Unknown

Firewall ==
    LET active == {s \in DOMAIN results : IsActive(results[s])}
        known  == {s \in DOMAIN results : IsInactive(results[s])}
    IN  CASE active # {}                -> Finding("pass", "info", "medium")
          [] active = {} /\ known = {}  -> Unknown
          [] active = {} /\ known # {}  -> Finding("fail", "medium", "medium")

(* sshd -T prints one line for each setting; a setting maps its lines to   *)
(* the findings they lead to.                                              *)
Setting(key, verdicts) ==
    LET stated == {line \in DOMAIN verdicts : line \in results["sshd -T"].stdout}
    IN  IF stated = {} THEN Unknown ELSE verdicts[CHOOSE line \in stated : TRUE]

Passes == Finding("pass", "info", "medium")

SshSettings ==
    [root |-> [permitrootlogin_no  |-> Passes,
               permitrootlogin_yes |-> Finding("fail", "high", "medium"),
               permitrootlogin_prohibit_password |-> Finding("fail", "medium", "medium")],
     password |-> [passwordauthentication_no  |-> Passes,
                   passwordauthentication_yes |-> Finding("fail", "medium", "medium")],
     x11 |-> [x11forwarding_no  |-> Passes,
              x11forwarding_yes |-> Finding("review", "low", "medium")],
     tcp |-> [allowtcpforwarding_no  |-> Passes,
              allowtcpforwarding_yes |-> Finding("review", "low", "medium")],
     idle |-> [clientaliveinterval_300  |-> Passes,
               clientaliveinterval_0    |-> Finding("review", "low", "medium"),
               clientaliveinterval_soon |-> Unfinished]]

Ssh ==
    CASE IsInactive(results["sshd"]) -> Single(Finding("not_applicable", "info", "high"))
      [] ~IsInactive(results["sshd"]) /\ ~IsActive(results["sshd"]) -> Single(Unknown)
      [] IsActive(results["sshd"]) ->
            IF results["sshd -T"].returncode # 0
            THEN Single(Unavailable(results["sshd -T"]))
            ELSE [id \in DOMAIN SshSettings |-> Setting(id, SshSettings[id])]

IsDisabled(policy) == "Never" \in policy

(* Mutant: exit codes are not looked at.                                   *)
FailingIgnored == {}

Failing == {q \in DOMAIN results : results[q].returncode # 0}

Scoped == DOMAIN results \cap ToSet(repositories)

(* Mutant: the repository's own policy is ignored.                         *)
EffectiveGlobal(r) == results["SigLevel"].stdout

(* A repository without a policy of its own has the global one.            *)
Effective(r) ==
    IF results[r].stdout = {} THEN results["SigLevel"].stdout ELSE results[r].stdout

Signatures ==
    LET global == results["SigLevel"]
        unsafe == {r \in Scoped \ Failing : IsDisabled(Effective(r))}
        errors == Scoped \cap Failing
    IN  IF global.returncode # 0
        THEN Finding(Unavailable(global).status, "info", "high")
        ELSE IF global.stdout = {} THEN Unknown
        ELSE IF IsDisabled(global.stdout) THEN Finding("fail", "critical", "high")
        ELSE IF "--repo-list" \in Failing THEN Unavailable(results["--repo-list"])
        ELSE IF unsafe # {}
             THEN Finding("fail", "critical", IF errors = {} THEN "high" ELSE "medium")
        ELSE IF errors # {} THEN Unknown
        ELSE Finding("pass", "info", "high")

Updates(r) ==
    CASE r.returncode = 0 /\ r.stdout # {}       -> Finding("fail", "medium", "medium")
      [] r.returncode \in {0, 1} /\ r.stdout = {} -> Passes
      [] r.returncode = 127                      -> Finding("unknown", "info", "high")
      [] OTHER                                   -> Finding("error", "info", "high")

(* Mutant: whatever the command printed is a package.                      *)
ForeignAnyCode(r) ==
    IF r.returncode = 127 THEN Unknown
    ELSE IF r.stdout = {} THEN Passes
    ELSE Finding("review", "medium", "high")

Foreign(r) ==
    CASE r.returncode = 127                       -> Unknown
      [] r.returncode \in {0, 1} /\ r.stdout = {} -> Finding("pass", "info", "high")
      [] r.returncode \in {0, 1} /\ r.stdout # {} -> Finding("review", "medium", "high")
      [] OTHER                                    -> Unfinished

Vulnerabilities(r) ==
    CASE r.returncode = 127                   -> Finding("unknown", "info", "high")
      [] r.returncode = 0 /\ r.stdout = {}    -> Passes
      [] r.returncode \in {0, 1} /\ r.stdout = {"is affected by"} -> Finding("fail", "high", "medium")
      [] OTHER                                -> Unfinished

Listeners(r) ==
    CASE r.returncode # 0                              -> Unavailable(r)
      [] r.returncode = 0 /\ "wildcard" \in r.stdout   -> Finding("review", "low", "medium")
      [] r.returncode = 0 /\ r.stdout = Diagnostics    -> Unknown
      [] OTHER                                         -> Passes

(* "enabled" and "disabled" stand for the states the code lists with them; *)
(* the second list does not depend on the exit status.                     *)
DebugShell(r) ==
    CASE r.returncode # 127 /\ r.stdout = {"disabled"} -> Finding("pass", "info", "high")
      [] r.returncode = 0 /\ r.stdout = {"enabled"}    -> Finding("fail", "high", "high")
      [] OTHER                                         -> Unknown

Ntp(r) ==
    CASE r.returncode = 0 /\ r.stdout = {"yes"} -> Finding("pass", "info", "high")
      [] r.returncode = 0 /\ r.stdout = {"no"}  -> Finding("review", "low", "medium")
      [] OTHER                                  -> Unknown

Verdict ==
    CASE check = "firewall"        -> Single(Firewall)
      [] check = "ssh"             -> Ssh
      [] check = "signatures"      -> Single(Signatures)
      [] check = "updates"         -> Single(Updates(results[check]))
      [] check = "foreign"         -> Single(Foreign(results[check]))
      [] check = "vulnerabilities" -> Single(Vulnerabilities(results[check]))
      [] check = "listeners"       -> Single(Listeners(results[check]))
      [] check = "debug-shell"     -> Single(DebugShell(results[check]))
      [] check = "ntp"             -> Single(Ntp(results[check]))

-----------------------------------------------------------------------------
FirstQueries(c) ==
    CASE c = "firewall"   -> services
      [] c = "ssh"        -> <<"sshd">>
      [] c = "signatures" -> <<"SigLevel">>
      [] OTHER            -> <<c>>

(* What the result r of query q leads the check to ask next: the early     *)
(* returns leave nothing to ask.                                           *)
NextQueries(q, r) ==
    CASE q = "sshd"        -> IF IsActive(r) THEN <<"sshd -T">> ELSE <<>>
      [] q = "SigLevel"    -> IF r.returncode = 0 /\ r.stdout # {} /\ ~IsDisabled(r.stdout)
                              THEN <<"--repo-list">> ELSE <<>>
      [] q = "--repo-list" -> IF r.returncode = 0
                              THEN Ordered(ToSet(repositories) \cap r.stdout) ELSE <<>>
      [] OTHER             -> Tail(plan)

Init ==
    /\ check \in Checks
    /\ world \in {w \in [QueriesOf(check) -> UNION {Answers[q] : q \in QueriesOf(check)}] :
                    \A q \in DOMAIN w : w[q] \in Answers[q]}
    /\ plan = FirstQueries(check)
    /\ results = <<>>
    /\ findings = <<>>
    /\ changes = 0
    /\ ever = [q \in QueriesOf(check) |-> {world[q]}]

Running == findings = <<>>

(* Mutant: a command that could not be executed is tried again.            *)
RunRetrying ==
    /\ Running
    /\ plan # <<>>
    /\ LET q == Head(plan)
       IN  \E r \in Executed(Answer(q)) :
              /\ results' = Noted(results, q, r)
              /\ plan' = IF r \in NotExecuted THEN plan ELSE NextQueries(q, r)
    /\ UNCHANGED <<check, world, findings, changes, ever>>

(* One call of context.commands.run.                                       *)
Run ==
    /\ Running
    /\ plan # <<>>
    /\ LET q == Head(plan)
       IN  \E r \in Executed(Answer(q)) :
              /\ results' = Noted(results, q, r)
              /\ plan' = NextQueries(q, r)
    /\ UNCHANGED <<check, world, findings, changes, ever>>

(* What subprocess.run raises otherwise (output that is no UTF-8, no       *)
(* memory, no valid executable) leaves the check for the runner.           *)
RunRaises ==
    /\ Running
    /\ plan # <<>>
    /\ findings' = Single(Finding("error", "info", "high"))
    /\ plan' = <<>>
    /\ UNCHANGED <<check, world, results, changes, ever>>

Report ==
    /\ Running
    /\ plan = <<>>
    /\ findings' = Verdict
    /\ UNCHANGED <<check, world, plan, results, changes, ever>>

(* A service starts or stops, a setting or a repository changes.           *)
Change(q) ==
    /\ Running
    /\ changes < MaxChanges
    /\ changes' = changes + 1
    /\ \E r \in Answers[q] \ {world[q]} : world' = [world EXCEPT ![q] = r]
    /\ ever' = [ever EXCEPT ![q] = @ \cup {world'[q]}]
    /\ UNCHANGED <<check, plan, results, findings>>

CheckStep == Run \/ RunRaises \/ Report

Next == CheckStep \/ \E q \in DOMAIN world : Change(q)

Spec == Init /\ [][Next]_vars

(* Every command has a timeout, so the check always goes on.               *)
FairSpec == Spec /\ WF_vars(CheckStep)

-----------------------------------------------------------------------------
TypeOK ==
    /\ check \in Checks
    /\ DOMAIN world = QueriesOf(check) /\ \A q \in DOMAIN world : world[q] \in Answers[q]
    /\ plan \in Seq(QueriesOf(check) \cup {"--repo-list"})
    /\ DOMAIN results \subseteq QueriesOf(check) \cup {"--repo-list"}
    /\ DOMAIN findings \subseteq {check} \cup DOMAIN SshSettings
    /\ \A id \in DOMAIN findings : findings[id].confidence \in {"high", "medium", "low"}
    /\ changes \in 0..MaxChanges

Reported(status) == \E id \in DOMAIN findings : findings[id].status = status

Answered(q) == q \in DOMAIN results /\ results[q] \notin NotExecuted

Throughout(q) == Cardinality(ever[q]) = 1

(* Commands that are missing, refused or time out are no evidence: a check *)
(* none of whose commands ran to its end reports nothing else than unknown *)
(* or error (README.md:63-64; commands.py:45-51).  Diagnostics are printed *)
(* text, so this is about every place that reads text as data.             *)
NoEvidenceNoVerdict ==
    (\A q \in DOMAIN results : ~Answered(q)) =>
        \A id \in DOMAIN findings : findings[id].status \in {"unknown", "error"}

(* A repository that turns verification off is not masked by anything that *)
(* goes wrong with other repositories: if it is configured so throughout   *)
(* and its own query is answered, the check fails (package_trust.py:57-74). *)
OverrideNeverMasked ==
    \A r \in Scoped :
        /\ check = "signatures" /\ ~Running /\ plan = <<>> /\ Answered(r)
        /\ ever[r] = {Result(0, {"Never"})}
        /\ ToSet(repositories) \cap results["--repo-list"].stdout \subseteq DOMAIN results
        => Reported("fail")

(* A pass of a check that combines several commands is earned, whatever    *)
(* changed between them: a firewall service was active; every repository   *)
(* that was configured throughout answered with verification on.           *)
PassIsEarned ==
    Reported("pass") =>
        /\ check = "firewall" =>
              \E s \in DOMAIN world : \E r \in ever[s] : IsActive(r)
        /\ check = "signatures" =>
              \A p \in ToSet(repositories) :
                  (\A r \in ever[p] : r.returncode = 0) =>
                      Answered(p) /\ \E r \in ever[p] : ~IsDisabled(r.stdout)

(* One service that answers "active" decides: once every service has been  *)
(* asked, a firewall that is up throughout and answers makes the check     *)
(* pass, although the others are stopped, cannot be asked, or change       *)
(* between the queries (firewall.py:14-32).                                *)
ActiveFirewallPasses ==
    check = "firewall" /\ ~Running /\ ToSet(services) \subseteq DOMAIN results =>
        \A s \in ToSet(services) :
            Throughout(s) /\ Answered(s) /\ IsActive(world[s]) => Reported("pass")

(* sshd's settings are judged only after the check saw a server run that   *)
(* really ran at some moment, and then all five of them (ssh.py:14-41): a  *)
(* machine that merely has an sshd configuration is not failed for it.     *)
SettingsNeedAServer ==
    Reported("fail") /\ check = "ssh" =>
        /\ DOMAIN findings = DOMAIN SshSettings
        /\ IsActive(results["sshd"]) /\ results["sshd"] \in ever["sshd"]

(* Every check ends, whatever its commands do.                             *)
Concludes == <>(~Running)

-----------------------------------------------------------------------------
(* ROADMAP.md:29, "Reserve failures for demonstrated policy violations":   *)
(* the firewall check fails only if it saw every service not running.      *)
FailureIsDemonstrated ==
    check = "firewall" /\ Reported("fail") => \A s \in ToSet(services) : IsInactive(results[s])

(* README.md:63-64, "Checks that cannot obtain enough evidence report      *)
(* `unknown` or `error`": a program that failed and printed nothing but    *)
(* diagnostics has not named a package.                                    *)
DiagnosticsAreNoEvidence ==
    check = "foreign" /\ ~Running /\ DOMAIN results = {check}
        /\ results[check].returncode # 0 /\ results[check].stdout = Diagnostics
    => ~Reported("review")

=============================================================================
