--------------------------- MODULE MCEvidenceScan ---------------------------
(***************************************************************************)
(* Small machines for each of the checks: two policy files, two services,  *)
(* three browser profiles, two controls of each kind.                      *)
(***************************************************************************)
EXTENDS EvidenceScan

Gone == [kind |-> "absent"]
Refused == [kind |-> "refused"]
Unlistable == [kind |-> "unlistable"]
Directory == [kind |-> "dir"]

(* The worlds in which each object has one of its values.                  *)
Worlds(values) ==
    FoldSet(LAMBDA o, worlds : {(o :> value) @@ rest : value \in values[o], rest \in worlds},
            {<<>>}, DOMAIN values)

-----------------------------------------------------------------------------
(* The sudo policy.  A grant spread over two lines, one that is commented  *)
(* out, one behind another command, and an include.                        *)
Text(kind, text) == [kind |-> kind, readable |-> TRUE, text |-> text]
Secret == [kind |-> "file", readable |-> FALSE, text |-> <<>>]

Harmless == <<<<"%ops", "=", "/bin/ls", "#", "NOPASSWD:">>, <<"root", "=", "ALL">>>>
Spread == <<<<"Defaults", "\\">>, <<"!authenticate">>, <<"ops", "=", "\\">>, <<"(ALL)", "ALL">>>>
Listed2 == <<<<"User_Alias", "=", "ALL">>, <<"ops", "=", "/bin/ls", ",", "ALL", ",", "/bin/id">>>>
Including == <<<<"#includedir", "/etc/sudoers.d">>, <<"@include", "/etc/more">>>>
Assigning(token) == <<<<"Defaults", token>>>>

MCDropIn == {"ops"}
MCBackup == {"ops.bak"}
MCSecurePath == ("good" :> {"/usr/bin"}) @@ ("mixed" :> {"", "/usr/sbin"})
MCChain == ("/usr/bin" :> {"/usr/bin", "/usr"}) @@ ("/usr/sbin" :> {"/usr/sbin", "/usr"}) @@ ("" :> {})
MCMisplaced == {""}

Place(kind, unsafe) == [kind |-> kind, unsafe |-> unsafe]

PolicyValues ==
    ("sudoers" :> {Gone, Refused, [kind |-> "dangling"], Text("file", Harmless), Text("file", Spread),
                   Text("file", Including), Text("link", Spread), Text("large", Spread), Secret}) @@
    ("sudoers.d" :> {Directory, Unlistable}) @@
    ("ops" :> {Gone, Text("file", Harmless), Text("file", Spread), Text("file", Listed2), Text("link", Spread)}) @@
    ("ops.bak" :> {Gone, Text("file", Spread)})

SecurePathValues ==
    ("sudoers" :> {Text("file", Assigning("good")), Text("file", Assigning("mixed"))}) @@
    ("sudoers.d" :> {Directory, Gone}) @@
    ("ops" :> {Text("file", Assigning("good"))}) @@
    ("ops.bak" :> {Gone}) @@
    ("/usr" :> {Place("dir", FALSE), Place("dir", TRUE)}) @@
    ("/usr/bin" :> {Place("dir", FALSE), Place("link", FALSE), Place("file", FALSE)}) @@
    ("/usr/sbin" :> {Place("dir", FALSE), Place("absent", FALSE)})

SyntaxValues ==
    ("sudoers" :> {Gone, Refused, Text("file", Harmless)}) @@
    ("visudo" :> {Result(0, {}), Result(1, {"syntax error"}), Result(1, {"permission denied"})})

-----------------------------------------------------------------------------
(* Two services, one program of each kind, and two places they lead to.    *)
MCService == {"a", "b"}
MCExecutable == {"run", "tool"}
MCExecutionPath == {"bin", "opt"}

UnitState(active, enabled, user, dynamic, exec) ==
    [active |-> active, enabled |-> enabled, dynamic |-> dynamic, user |-> user, exec |-> exec]

Idle == UnitState(FALSE, FALSE, "root", FALSE, ("run" :> FALSE))

(* A root service; a dynamic user, and a command that keeps the privileges *)
(* beside one that does not; no commands, and a user that is not reported. *)
ServiceValues ==
    ("systemd" :> {("a" :> UnitState(TRUE, FALSE, "root", FALSE, ("run" :> FALSE))) @@ ("b" :> Idle),
                   ("a" :> Idle) @@
                       ("b" :> UnitState(TRUE, TRUE, "root", TRUE, ("run" :> FALSE) @@ ("tool" :> TRUE))),
                   ("a" :> UnitState(TRUE, FALSE, "root", FALSE, <<>>)) @@
                       ("b" :> UnitState(FALSE, TRUE, "unreported", FALSE, ("run" :> FALSE)))}) @@
    ("run" :> {[kind |-> "resolved", target |-> "bin", above |-> {"opt"}], [kind |-> "loop"]}) @@
    ("tool" :> {[kind |-> "resolved", target |-> "bin", above |-> {}]}) @@
    ("bin" :> {Place("file", FALSE), Place("file", TRUE), Place("dir", TRUE)}) @@
    ("opt" :> {Place("dir", FALSE), Place("special", TRUE), Place("absent", FALSE)})

-----------------------------------------------------------------------------
(* One directory of Chromium profiles, one of Firefox profiles.            *)
MCFamily == ("chromium" :> "chromium") @@ ("firefox" :> "firefox")
MCProfiles == ("chromium" :> {"C"}) @@ ("firefox" :> {"F", "G"})
MCExtensions == ("C" :> "C/Extensions") @@ ("F" :> "F/extensions") @@ ("G" :> "G/extensions")
MCExtension == ("C/Extensions" :> {"x", "y"}) @@ ("F/extensions" :> {"z"}) @@ ("G/extensions" :> {})

Profile(kind, exposed, readable, text) ==
    [kind |-> kind, exposed |-> exposed, readable |-> readable, text |-> text]

Private(text) == Profile("profile", FALSE, TRUE, text)
Unreadable == Profile("profile", FALSE, FALSE, <<>>)
Plain == Profile("plain", FALSE, FALSE, <<>>)
Barred == Profile("refused", FALSE, FALSE, <<>>)

Manifest(powers) == [kind |-> "manifest", powers |-> powers]

ProfileValues(values) ==
    [d \in {"chromium", "firefox"} |-> {Directory, Gone}] @@
    [p \in {"C", "F", "G"} |-> values]

PreferenceValues ==
    [ProfileValues({Gone, Unreadable, Private(<<<<"tls.min", "1">>, <<"tls.min", "3">>>>),
                    Private(<<<<"tls.min", "3">>, <<"tls.min", "1">>>>), Private(<<<<"roots", "true">>>>)})
        EXCEPT !["C"] = {Gone, Private(<<<<"tls.min", "1">>>>)}]

HttpsValues ==
    [ProfileValues({Gone, Unreadable, Private(<<>>), Private(<<<<"https", "true">>>>),
                    Private(<<<<"https", "true">>, <<"https", "false">>>>)})
        EXCEPT !["C"] = {Gone}]

PermissionValues ==
    [ProfileValues({Private(<<>>), Barred, Profile("profile", TRUE, TRUE, <<>>)})
        EXCEPT !["chromium"] = {Directory, Refused, Unlistable}, !["firefox"] = {Directory},
               !["C"] = {Gone, Plain, Private(<<>>), Profile("profile", TRUE, TRUE, <<>>)},
               !["G"] = {Gone}]

ExtensionValues ==
    [ProfileValues({Gone, Private(<<>>)}) EXCEPT !["firefox"] = {Directory}, !["G"] = {Gone}] @@
    ("C/Extensions" :> {Directory, Unlistable}) @@
    [d \in {"F/extensions", "G/extensions"} |-> {Directory}] @@
    ("x" :> {Gone, Manifest({"high"}), [kind |-> "broken"], [kind |-> "denied"]}) @@
    ("y" :> {Gone, Manifest({"medium"})}) @@
    ("z" :> {Manifest({}), [kind |-> "broken"]})

-----------------------------------------------------------------------------
(* Two controls of each kind.                                              *)
MCMinimum == ("aslr" :> 2) @@ ("kptr" :> 1)
MCSeverityOf == ("aslr" :> "high") @@ ("kptr" :> "medium")
MCExpected == ("redirects" :> 0) @@ ("rp_filter" :> 1)
MCBootVariable == {"SecureBoot-1", "SecureBoot-2"}
MCDatabase == {"core.db", "extra.db"}

Number(n) == [kind |-> "number", number |-> n]
Numbers == {Number(0), Number(1), Number(2)} \cup {Gone, Refused, [kind |-> "garbage"], [kind |-> "undecodable"]}
Kinds(kinds) == {[kind |-> k] : k \in kinds}
Lines(lines) == [kind |-> "text", lines |-> lines]

(* lsblk's devices: an encrypted root, a mirror of which one half is, and  *)
(* none that is mounted at "/".                                            *)
MCDevices ==
    ("encrypted" :> [roots |-> {<<"sda", "luks">>}, crypt |-> {"luks"}]) @@
    ("half" :> [roots |-> {<<"sda", "luks">>, <<"sdb">>}, crypt |-> {"luks"}]) @@
    ("none" :> [roots |-> {}, crypt |-> {}])

ControlValues ==
    [k \in {"aslr", "kptr", "redirects", "rp_filter"} |-> Numbers] @@
    [p \in {"ipv4", "ipv6"} |-> Kinds({"absent", "refused", "on", "off", "garbage", "undecodable"})] @@
    ("efivars" :> {Directory, Gone, Refused, Unlistable}) @@
    [v \in MCBootVariable |-> Kinds({"absent", "refused", "short", "enabled", "disabled", "other"})] @@
    ("lsm" :> {Gone, Refused, [kind |-> "undecodable"]}
                \cup {[kind |-> "modules", names |-> names] : names \in {{}, {"landlock"}, {"landlock", "apparmor"}}}) @@
    ("lockdown" :> Kinds({"absent", "refused", "undecodable", "unmarked", "none", "integrity", "other"})) @@
    ("uid-zero" :> {Gone, Refused} \cup {Lines(lines) : lines \in SUBSET {"root uid=0", "toor uid=0", "malformed"}}) @@
    ("empty-passwords" :> {Gone, Refused, [kind |-> "io-error"]}
                \cup {Lines(lines) : lines \in SUBSET {"empty password", "malformed"}}) @@
    ("shared-mounts" :> {Gone, Refused}
                \cup {Lines(lines) : lines \in SUBSET {"shared", "shared nosuid,nodev,noexec", "system", "malformed"}}) @@
    ("sync" :> {Directory, Gone, Unlistable}) @@
    [d \in MCDatabase |-> {Gone, Refused, [kind |-> "database", mtime |-> 0], [kind |-> "database", mtime |-> 3]}] @@
    ("clock" :> {[kind |-> "clock", now |-> now] : now \in {2, 3, 4, 6}}) @@
    ("root-encryption" :> {Result(0, {d}) : d \in DOMAIN MCDevices \cup {"{"}} \cup {Result(1, Diagnostics)}) @@
    ("processes" :> {Result(0, {}), Result(0, DOMAIN BrowserProcesses), Result(1, Diagnostics),
                     Result(0, {"chromium"}), Result(0, {"chromium", "firefox --remote-debugging-port"})})

Controlled(D) == [o \in D |-> ControlValues[o]]

-----------------------------------------------------------------------------
MCPossible ==
    [c \in {"passwordless", "broad"} |-> PolicyValues] @@
    ("secure-path" :> SecurePathValues) @@
    ("syntax" :> SyntaxValues) @@
    (ServicesCheck :> ServiceValues) @@
    ("preferences" :> PreferenceValues) @@
    ("https-only" :> HttpsValues) @@
    ("profile-permissions" :> PermissionValues) @@
    ("extensions" :> ExtensionValues) @@
    ("kernel" :> Controlled({"aslr", "kptr"})) @@
    ("network" :> Controlled({"redirects", "rp_filter"})) @@
    ("ip-forwarding" :> Controlled({"ipv4", "ipv6"})) @@
    ("secure-boot" :> Controlled({"efivars"} \cup MCBootVariable)) @@
    ("security-modules" :> Controlled({"lsm", "lockdown"})) @@
    ("freshness" :> Controlled({"sync", "clock"} \cup MCDatabase)) @@
    [c \in {"uid-zero", "empty-passwords", "shared-mounts", "root-encryption", "processes"} |-> Controlled({c})]

(* Two changes where that is affordable: something is replaced and put back. *)
MCMaxChanges ==
    [c \in DOMAIN MCPossible |->
        IF c \in {"syntax", "profile-permissions", "ip-forwarding"}
                 \cup {"uid-zero", "empty-passwords", "shared-mounts"} \cup CommandControls
        THEN 2 ELSE 1]

MCInitialWorlds == [c \in DOMAIN MCPossible |-> Worlds(MCPossible[c])]

=============================================================================
