----------------------------- MODULE MCJudgeTour -----------------------------
(* The walkthrough and the pages over the scenario the fixtures create. *)
EXTENDS JudgeTour, WorkflowPages, MCResolutionWorkflow
=============================================================================
