---------------------------- MODULE MCModelTasks ----------------------------
(* An instance of ModelTasks for TLC: a local model whose queue two workers  *)
(* consume, as during a rolling update of their deployment.                *)
EXTENDS ModelTasks

CONSTANTS p1, w1, w2

MCProfiles == {p1}
MCProvider(p) == "qwen"
MCWorkers == {w1, w2}
MCFaulty == {w1}
MCServes(w) == "qwen"
=============================================================================
