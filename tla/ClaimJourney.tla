----------------------------- MODULE ClaimJourney -----------------------------
(***************************************************************************)
(* What the settlement journey promises, without issues, requests or       *)
(* people: a set of defects blocks the claim; removing the last one makes  *)
(* the claim ready in the same step; after that it walks its sequence one  *)
(* state at a time and no defect comes back.  Only a reset starts over.    *)
(***************************************************************************)
EXTENDS Naturals

CONSTANT Defects     \* what blocks the claim of a fresh scenario

JourneySequence ==
  << "DRAFT", "READY", "SUBMITTED", "ELIGIBILITY_VERIFIED", "RECORDS_VERIFIED",
     "APPROVED", "PAYMENT_INSTRUCTION_CREATED", "BANK_PROCESSING", "CREDITED" >>

VARIABLES
  blocking,    \* the defects that still block
  claim        \* the state of the claim

journeyVars == << blocking, claim >>

JourneyInit == blocking = Defects /\ claim = "DRAFT"

RemoveDefect(x) ==
  /\ x \in blocking
  /\ claim = "DRAFT"
  /\ blocking' = blocking \ {x}
  /\ claim' = IF blocking' = {} THEN "READY" ELSE "DRAFT"

MoveOn(k) ==
  /\ blocking = {}
  /\ claim = JourneySequence[k]
  /\ claim' = JourneySequence[k + 1]
  /\ UNCHANGED blocking

StartOver == blocking' = Defects /\ claim' = "DRAFT"

JourneyNext ==
  \/ \E x \in Defects : RemoveDefect(x)
  \/ \E k \in 2..8 : MoveOn(k)
  \/ StartOver

JourneySpec == JourneyInit /\ [][JourneyNext]_journeyVars
=============================================================================
