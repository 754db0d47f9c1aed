------------------------- MODULE MCResolutionWorkflow -------------------------
(* The scenario the fixtures create: one record with both defects, one issue *)
(* of each kind, a request of each other member, and one id more than the    *)
(* scenario can use, so that a second request for an issue would have one.   *)
EXTENDS ResolutionWorkflow

MCRelated == [i \in Issues |-> "demo-systems"]

MCSeedRequests == [ananya |-> "AWAITING_REVIEW", kabir |-> "APPROVED"]
=============================================================================
