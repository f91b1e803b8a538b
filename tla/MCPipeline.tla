----------------------------- MODULE MCPipeline ------------------------------
(* Pipeline with three runs, which may overlap, and two configs. The runs  *)
(* are alike, and so are the configs.                                      *)
EXTENDS Pipeline, TLC

CONSTANTS r1, r2, r3, c1, c2
ThreeRuns == {r1, r2, r3}
TwoConfigs == {c1, c2}
Symmetry == {f @@ g : f \in Permutations(ThreeRuns), g \in Permutations(TwoConfigs)}
=============================================================================
