--------------------------- MODULE MCAgenticLoop ---------------------------
EXTENDS AgenticLoop

Run == [kind |-> "RUN_BENCHMARK", target |-> "mvin", command |-> "own",
        config |-> "approved", budget |-> "ok"]

\* One action for each way through the policy: allowed, repaired or denied only
\* by the target rules, denied by the generic rules, and of an unknown target.
MCProposals == {Run,
                [Run EXCEPT !.budget = "outside"],
                [Run EXCEPT !.config = "other_path"],
                [Run EXCEPT !.command = "blocked"],
                [Run EXCEPT !.target = "other", !.kind = "BUILD", !.command = "plain"]}
=============================================================================
