-------------------------- MODULE MCBaselineCycle --------------------------
(***************************************************************************)
(* One check with a single identifier and one that groups two findings     *)
(* under identifiers of their own and collapses to its own identifier when *)
(* it has no evidence (as SshAuthenticationCheck does).                    *)
(***************************************************************************)
EXTENDS BaselineCycle

MCOutcomes ==
    [updates |-> [{"updates"} -> {"pass", "fail", "unknown"}],
     ssh |-> {[id \in {"ssh.root", "ssh.forwarding"} |->
                    IF id = "ssh.root" THEN r ELSE f] :
                 r \in {"pass", "fail"}, f \in {"pass", "review"}}
             \cup [{"ssh"} -> {"error", "not_applicable"}]]

MCSelections == {{"updates", "ssh"}, {"updates"}, {"ssh"}}

MCFilters == {{}, {"fail"}, {"pass"}}

Everything == {{"updates", "ssh"}}

Unfiltered == {{}}

=============================================================================
