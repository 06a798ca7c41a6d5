------------------------------- MODULE Evidence -------------------------------
(***************************************************************************)
(* What the checks have in common: the findings they return (models.py),   *)
(* the results of commands (commands.py), and the single looks at the      *)
(* system from which a check gathers its evidence.                         *)
(***************************************************************************)
EXTENDS Integers, FiniteSets, Sequences, TLC

(* Mutant: two arguments change places.                                    *)
SwappedFinding(status, severity, confidence) ==
    [status |-> status, severity |-> confidence, confidence |-> severity]

Finding(status, severity, confidence) ==
    [status |-> status, severity |-> severity, confidence |-> confidence]

Unknown == Finding("unknown", "info", "low")
Unfinished == Finding("error", "info", "low")
Protected == Finding("pass", "info", "high")
Nothing(confidence) == Finding("not_applicable", "info", confidence)

(* The order in which most checks decide: what they found comes first, and *)
(* errors lower the confidence; without anything found errors leave the    *)
(* result unknown.                                                         *)
Collected(found, errors, status, severity, otherwise) ==
    CASE found # {}                 ->
            Finding(status, severity, IF errors # {} THEN "medium" ELSE "high")
      [] found = {} /\ errors # {}  -> Unknown
      [] found = {} /\ errors = {}  -> otherwise

-----------------------------------------------------------------------------
(* A CommandResult; stdout is the set of its lines, with those of stderr.  *)
Result(returncode, stdout) == [returncode |-> returncode, stdout |-> stdout]

(* LocalCommandExecutor.run: a command that is not in the trusted path, or *)
(* may not be executed, or does not end in time has a result like any      *)
(* other, with a message as its output.                                    *)
Diagnostics == {"message"}

NotExecuted == {Result(code, Diagnostics) : code \in {124, 126, 127}}

Executed(answer) == {answer} \cup NotExecuted

(* 127 is the code of a program that is not there.                         *)
Unavailable(r) == IF r.returncode = 127 THEN Unknown ELSE Unfinished

-----------------------------------------------------------------------------
(* One look at the system: the call, the object it is about, and what it   *)
(* is done for (a tuple, where one object is looked at more than once).    *)
LookFor(call, at, of) == [call |-> call, at |-> at, of |-> of]

Look(call, at) == LookFor(call, at, <<>>)

(* What is known so far, and one thing more.                               *)
Noted(known, at, value) ==
    [x \in DOMAIN known \cup {at} |-> IF x = at THEN value ELSE known[x]]

(* obs maps the looks taken so far to what they showed.                    *)
Taken(obs, call) == {w \in DOMAIN obs : w.call = call}

(* Mutant: a command that could not be executed is run again.              *)
PendingUntilExecuted(looks, obs) == looks \ {w \in DOMAIN obs : obs[w] \notin NotExecuted}

Pending(looks, obs) == looks \ DOMAIN obs

(* The first of several groups of looks that still has one to take.        *)
InOrder(first, second) == IF first # {} THEN first ELSE second

=============================================================================
