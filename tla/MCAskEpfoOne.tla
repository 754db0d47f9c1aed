----------------------------- MODULE MCAskEpfoOne -----------------------------
(* Two questions beside the calls of the session: one no keyword rule knows, *)
(* one that two rules match.                                                 *)
EXTENDS MCSessionStore, AskEpfoOne

MCMatches ==
  [q \in Questions |->
     IF q = "my PF status" THEN {"CLAIM_STATUS", "FINAL_SETTLEMENT"} ELSE {}]
=============================================================================
