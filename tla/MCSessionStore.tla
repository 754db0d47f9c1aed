---------------------------- MODULE MCSessionStore ----------------------------
(* The session boundary over the fixtures' resolution document.              *)
EXTENDS SessionStore, TLC

MCRelated == [i \in Issues |-> "demo-systems"]

MCSeedRequests == [ananya |-> "AWAITING_REVIEW"]

\* Requests are interchangeable: they differ only in what they are sent for.
MCSymmetry == Permutations(Calls)
=============================================================================
