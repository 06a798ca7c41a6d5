--------------------------- MODULE MCCommandScan ---------------------------
(***************************************************************************)
(* Nine checks; two firewall services and two repositories are enough for  *)
(* one to hide the other.                                                  *)
(***************************************************************************)
EXTENDS CommandScan

MCServices == <<"nftables", "ufw">>

MCRepositories == <<"core", "custom">>

UnitStates ==
    {Result(0, {"active"}), Result(3, {"inactive"}), Result(4, {"not-found"}),
     Result(3, {"activating"}), Result(1, Diagnostics)}

RepositoryPolicies ==
    {Result(0, {}), Result(0, {"Required"}), Result(0, {"Never"}), Result(1, Diagnostics)}

(* A strict configuration, a lax one, and one of an sshd that does not     *)
(* print every setting.                                                    *)
SshConfigurations ==
    {Result(0, {"permitrootlogin_no", "passwordauthentication_no", "x11forwarding_no",
                "allowtcpforwarding_no", "clientaliveinterval_300"}),
     Result(0, {"permitrootlogin_yes", "passwordauthentication_yes", "x11forwarding_yes",
                "allowtcpforwarding_yes", "clientaliveinterval_0"}),
     Result(0, {"permitrootlogin_prohibit_password", "clientaliveinterval_soon"}),
     Result(255, Diagnostics)}

(* A program may also fail by itself, with code 1 and a message.           *)
MCAnswers ==
    [q \in {"nftables", "ufw", "sshd"} |-> UnitStates] @@
    [q \in {"core", "custom"} |-> RepositoryPolicies] @@
    ("sshd -T" :> SshConfigurations) @@
    ("SigLevel" :> {Result(0, {}), Result(0, {"Required"}), Result(0, {"Never"}), Result(1, Diagnostics)}) @@
    ("updates" :> {Result(0, {"linux"}), Result(1, {}), Result(1, Diagnostics)}) @@
    ("foreign" :> {Result(0, {"tool"}), Result(1, {}), Result(1, Diagnostics)}) @@
    ("vulnerabilities" :> {Result(0, {}), Result(1, {"is affected by"}),
                           Result(1, {"is affected by"} \cup Diagnostics), Result(1, Diagnostics)}) @@
    ("listeners" :> {Result(0, {}), Result(0, {"loopback"}), Result(0, {"loopback", "wildcard"}),
                     Result(0, Diagnostics), Result(1, Diagnostics)}) @@
    ("debug-shell" :> {Result(0, {"enabled"}), Result(1, {"disabled"}), Result(0, {"disabled"}),
                       Result(1, Diagnostics)}) @@
    ("ntp" :> {Result(0, {"yes"}), Result(0, {"no"}), Result(0, Diagnostics), Result(1, Diagnostics)})

=============================================================================
