---------------------------- MODULE CheckContract ----------------------------
(***************************************************************************)
(* What a check promises (README.md:63-64 and 80-86): each path it looks   *)
(* at is observed once, and the result follows from the observations.      *)
(*                                                                         *)
(*   a violation      some path was observed to violate the policy (fail,  *)
(*                    where a policy is broken; review, where it may be);  *)
(*   unknown, error   none was, and something could not be observed;       *)
(*   not_applicable   nothing was there to be observed;                    *)
(*   pass             everything there was observed to meet the policy.    *)
(*                                                                         *)
(* Nothing is said about which paths there are or when they are looked at: *)
(* the world changes while a check runs.                                   *)
(***************************************************************************)
CONSTANTS
    Path,       \* what the check may look at
    Violation,  \* the statuses that speak of a violation
    MayAbort    \* whether exceptions may end the check, whatever it has seen

VARIABLES
    obs,       \* what the check observed at each path
    status     \* the status of its finding, "none" before there is one

Observation == {"safe", "unsafe", "blind", "gone"}

Seen(what) == {p \in Path : obs[p] = what}

ContractInit ==
    /\ obs = [p \in Path |-> "unseen"]
    /\ status = "none"

Observe(p) ==
    /\ status = "none"
    /\ obs[p] = "unseen"
    /\ obs'[p] \in Observation
    /\ obs' = [obs EXCEPT ![p] = obs'[p]]
    /\ UNCHANGED status

(* The check gives up before it has observed everything: never with a      *)
(* verdict about the policy.                                               *)
Withdraw ==
    /\ status = "none"
    /\ Seen("unsafe") = {}
    /\ status' \in {"unknown", "error", "not_applicable"}
    /\ UNCHANGED obs

Verdicts ==
    CASE Seen("unsafe") # {}                       -> Violation
      [] Seen("unsafe") = {} /\ Seen("blind") # {} -> {"unknown", "error"}
      [] OTHER -> IF Seen("safe") = {} THEN {"pass", "not_applicable"} ELSE {"pass"}

Conclude ==
    /\ status = "none"
    /\ status' \in Verdicts
    /\ UNCHANGED obs

(* An exception that is not caught ends the check: the runner reports it.  *)
Abort ==
    /\ MayAbort
    /\ status = "none"
    /\ status' = "error"
    /\ UNCHANGED obs

ContractNext == (\E p \in Path : Observe(p)) \/ Withdraw \/ Conclude \/ Abort

ContractSpec == ContractInit /\ [][ContractNext]_<<obs, status>>

=============================================================================
