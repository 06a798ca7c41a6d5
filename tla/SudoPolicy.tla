------------------------------ MODULE SudoPolicy ------------------------------
(***************************************************************************)
(* The four checks of the sudo policy (scanit/checks/sudo_policy.py).      *)
(*                                                                         *)
(* Three of them read the same files: /etc/sudoers and the files of        *)
(* /etc/sudoers.d, each with an lstat and then a read.  A text is a        *)
(* sequence of physical lines, a line a sequence of tokens, and the token  *)
(* "\\" at its end continues it.  The fourth check asks visudo.            *)
(***************************************************************************)
EXTENDS Evidence, SequencesExt

CONSTANTS
    DropIn,       \* the files of /etc/sudoers.d sudo reads
    Backup,       \* the files there whose name has a dot or ends in a tilde
    SecurePath,   \* [token that assigns secure_path -> its components]
    Chain,        \* [component -> itself and the directories above it, without
                  \*  the root of the file system]
    Misplaced     \* the components that are empty, relative or go through ..

ASSUME SudoPolicyAssumption ==
    /\ SecurePath \in [DOMAIN SecurePath -> SUBSET DOMAIN Chain]
    /\ Misplaced \subseteq DOMAIN Chain
    /\ "sudoers" \notin DropIn \cup Backup
    /\ DropIn \cap Backup = {}
    /\ \A c \in DOMAIN Chain : Chain[c] \cap ({"sudoers", "sudoers.d"} \cup DropIn \cup Backup) = {}

PolicyChecks == {"passwordless", "broad", "secure-path"}

SudoChecks == PolicyChecks \cup {"syntax"}

-----------------------------------------------------------------------------
Comments == {"#", "#include", "#includedir"}

Continued(line) == line # <<>> /\ Last(line) = "\\"

Unbroken(line) == IF Continued(line) THEN Front(line) ELSE line

(* Mutant: every physical line is a rule of its own.                       *)
PhysicalLines(text) == {Unbroken(text[i]) : i \in DOMAIN text}

(* _logical_lines: a line starts where the one before is not continued and *)
(* takes in all that follow up to the first that is not continued.         *)
LineStarts(text) == {i \in DOMAIN text : i = 1 \/ ~Continued(text[i - 1])}

LineEnd(text, i) ==
    CHOOSE j \in i..Len(text) :
        /\ \A k \in i..(j - 1) : Continued(text[k])
        /\ j = Len(text) \/ ~Continued(text[j])

LogicalLines(text) ==
    {FlattenSeq([j \in 1..(LineEnd(text, i) - i + 1) |-> Unbroken(text[i + j - 1])]) :
        i \in LineStarts(text)}

(* The tokens before the first comment.                                    *)
Policy(line) ==
    LET cut == {k \in DOMAIN line : line[k] \in Comments}
    IN  {k \in DOMAIN line : \A c \in cut : k < c}

Rules(text) == {SubSeq(line, 1, Cardinality(Policy(line))) : line \in LogicalLines(text)}

IsDefaults(rule) == rule # <<>> /\ rule[1] = "Defaults"

Passwordless(rule) ==
    \/ "NOPASSWD:" \in ToSet(rule)
    \/ IsDefaults(rule) /\ "!authenticate" \in ToSet(rule)

(* _broad_rule_kind: the commands follow the first "="; a run-as           *)
(* specification right after it and the tags that follow are dropped.      *)
(* Either of them anywhere else is taken for a part of a command.          *)
Broad(rule) ==
    /\ rule # <<>>
    /\ rule[1] \notin {"Defaults", "User_Alias", "Runas_Alias", "Host_Alias", "root"}
    /\ \E eq \in DOMAIN rule :
          /\ rule[eq] = "=" /\ \A k \in 1..(eq - 1) : rule[k] # "="
          /\ \E k \in (eq + 1)..Len(rule) :
                \/ rule[k] = "/bin/*"
                \/ /\ rule[k] = "ALL"
                   /\ k = Len(rule) \/ rule[k + 1] = ","
                   /\ \/ rule[k - 1] = ","
                      \/ \A j \in (eq + 1)..(k - 1) :
                            rule[j] = "NOPASSWD:" \/ (j = eq + 1 /\ rule[j] = "(ALL)")

(* The secure_path a rule assigns, if any: the first assignment counts.    *)
Components(rule) ==
    LET at    == {k \in DOMAIN rule : rule[k] \in DOMAIN SecurePath}
        first == {k \in at : \A j \in at : k <= j}
    IN  IF IsDefaults(rule) THEN UNION {SecurePath[rule[k]] : k \in first} ELSE {}

(* _unresolved_includes, over physical lines: an include of anything but   *)
(* /etc/sudoers.d is not followed.                                         *)
Unresolved(text) ==
    {i \in DOMAIN text :
        /\ text[i] # <<>>
        /\ \/ text[i][1] \in {"@include", "#include"}
           \/ /\ text[i][1] \in {"@includedir", "#includedir"}
              /\ Len(text[i]) < 2 \/ text[i][2] # "/etc/sudoers.d"}

-----------------------------------------------------------------------------
Main == Look("exists", "sudoers")
Listing == Look("list", "sudoers.d")

(* _policy_paths: exists() follows links.                                  *)
PolicyPaths(obs) ==
    {f \in {"sudoers"} : obs[Main].kind \notin {"absent", "dangling", "refused"}}
        \cup (obs[Listing].entries \cap DropIn)

ListingErrors(obs) == {w \in {Listing} : obs[w].kind \notin {"dir", "absent"}}

(* What lstat must show for the file to be read.                           *)
MayRead(value) == value.kind = "file"

(* The texts read, and the paths that could not be inspected.              *)
Texts(obs) == {w \in Taken(obs, "read") : obs[w].kind \in {"file", "link", "large"} /\ obs[w].readable}

PolicyErrors(obs) ==
    ListingErrors(obs)
        \cup {w \in Taken(obs, "lstat") : ~MayRead(obs[w])}
        \cup (Taken(obs, "read") \ Texts(obs))
        \cup {w \in Texts(obs) : Unresolved(obs[w].text) # {}}

(* One file after the other, the main file first.                          *)
FileLooks(obs) ==
    LET pending(files) == Pending({Look("lstat", f) : f \in files}, obs)
    IN  InOrder(Pending({Look("read", w.at) : w \in {v \in Taken(obs, "lstat") : MayRead(obs[v])}}, obs),
        InOrder(pending(PolicyPaths(obs) \cap {"sudoers"}), pending(PolicyPaths(obs))))

Values(obs) == UNION {Components(rule) : rule \in UNION {Rules(obs[w].text) : w \in Texts(obs)}}

(* Each directory is looked at once, whatever components it is above of.   *)
DirectoryLooks(obs) ==
    Pending({Look("lstat-dir", d) : d \in UNION {Chain[c] : c \in Values(obs) \ Misplaced}}, obs)

PolicyReady(c, obs) ==
    CASE Main \notin DOMAIN obs    -> {Main}
      [] Main \in DOMAIN obs /\ Listing \notin DOMAIN obs -> {Listing}
      [] {Main, Listing} \subseteq DOMAIN obs ->
            InOrder(FileLooks(obs), IF c = "secure-path" THEN DirectoryLooks(obs) ELSE {})

SyntaxGate == Look("lstat", "sudoers")
Visudo == Look("run", "visudo")

SudoReady(c, obs) ==
    IF c # "syntax" THEN PolicyReady(c, obs)
    ELSE IF SyntaxGate \notin DOMAIN obs THEN {SyntaxGate}
    ELSE Pending({Visudo : w \in {v \in {SyntaxGate} : obs[v].kind \notin {"absent", "refused"}}}, obs)

-----------------------------------------------------------------------------
Matching(c, text) ==
    \E rule \in Rules(text) : IF c = "passwordless" THEN Passwordless(rule) ELSE Broad(rule)

Matches(c, obs) == {w \in Texts(obs) : Matching(c, obs[w].text)}

RulesFinding(c, obs) ==
    Collected(Matches(c, obs), PolicyErrors(obs), "review", "high",
              IF Texts(obs) = {} THEN Nothing("medium") ELSE Protected)

UnsafeDirectory(value) == value.kind = "file" \/ (value.kind = "dir" /\ value.unsafe)

UnsafeComponents(obs) ==
    {Look("component", c) : c \in Values(obs) \cap Misplaced}
        \cup {w \in Taken(obs, "lstat-dir") : UnsafeDirectory(obs[w])}

PathErrors(obs) ==
    PolicyErrors(obs) \cup {w \in Taken(obs, "lstat-dir") : obs[w].kind \in {"absent", "refused", "link"}}

SecurePathFinding(obs) ==
    Collected(UnsafeComponents(obs), PathErrors(obs), "fail", "high",
              IF Values(obs) = {} THEN Unknown ELSE Protected)

(* A diagnostic about permissions is told from one about the policy.       *)
SyntaxFinding(obs) ==
    CASE Visudo \notin DOMAIN obs ->
            IF obs[SyntaxGate].kind = "absent" THEN Nothing("high") ELSE Unknown
      [] Visudo \in DOMAIN obs ->
            LET r == obs[Visudo]
            IN  IF r.returncode = 0 THEN Protected
                ELSE IF r.returncode \in {124, 126, 127} \/ "permission denied" \in r.stdout
                THEN Unknown
                ELSE Finding("fail", "high", "high")

SudoFinding(c, obs) ==
    CASE c = "syntax"                     -> SyntaxFinding(obs)
      [] c = "secure-path"                -> SecurePathFinding(obs)
      [] c \in {"passwordless", "broad"}  -> RulesFinding(c, obs)

=============================================================================
