--------------------------- MODULE MCFrozenSuite ---------------------------
EXTENDS FrozenSuite

Run == [kind |-> "RUN_BENCHMARK", target |-> "mvin", command |-> "own",
        config |-> "approved", budget |-> "ok"]

\* Allowed by all, and denied by the target rules only.
MCProposals == {Run, [Run EXCEPT !.config = "other_config"]}

MCPlan == <<"U0", "S4", "S3">>
=============================================================================
