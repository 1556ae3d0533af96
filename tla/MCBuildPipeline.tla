--------------------------- MODULE MCBuildPipeline ---------------------------
(* Instances of BuildPipeline small enough for TLC. *)
EXTENDS BuildPipeline

CONSTANTS r1, r2, b1, b2

Plan(root, keep, config, stages) ==
  [root |-> root, keep |-> keep, config |-> config, stages |-> stages]

\* The registration order of docs/BUILDER_PIPELINE.md and of the tests.
DocumentedOrder ==
  <<"validate-config", "prepare-workspace", "generate-manifest", "finalize">>

\* Two contenders for r1, one of which keeps its workspace and one that has
\* no config, and builds that take the default root.
ContendingPlans ==
  {Plan(r1, FALSE, "missing", {}),
   Plan(r1, TRUE, "good", {"prepare-workspace", "generate-manifest", "typo"}),
   Plan(NoRoot, FALSE, "good", {"prepare-workspace", "finalize"})}

\* Everybody's default root is r1: the builds start in the same second.
SameDefault == [s \in 0 .. LastSecond |-> r1]

NothingOrForeign == {{}, {".", "foreign"}}

\* Builds that follow each other and may be run a second time: in a default
\* root that the clock has moved on from, or in r1 behind a stage that raises.
FollowingPlans ==
  {Plan(NoRoot, FALSE, "good", {}),
   Plan(r1, TRUE, "denied",
        {"validate-config", "prepare-workspace", "generate-manifest"})}

EachSecond == [s \in 0 .. LastSecond |-> IF s = 0 THEN r1 ELSE r2]

JustNothing == {{}}

FailingConfig == {Plan(r1, FALSE, config, {}) : config \in Configs}

KeptPlan == {Plan(r1, TRUE, "good", {})}
=============================================================================
