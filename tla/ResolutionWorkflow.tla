-------------------------- MODULE ResolutionWorkflow --------------------------
(***************************************************************************)
(* One visitor's resolution workflow with commands that never overlap: the *)
(* member, the employer reviewer and the demo panel take turns on the one  *)
(* document.  This is what the domain promises; SessionStore asks how much *)
(* of it survives the unlocked read-command-write of the session boundary. *)
(***************************************************************************)
EXTENDS Resolution

CONSTANT MaxResets   \* bound: how often the demo panel resets the scenario

ASSUME MaxResetsAssumption == MaxResets \in Nat

VARIABLES
  doc,      \* the visitor's document
  resets    \* resets so far

vars == << doc, resets >>

Init ==
  /\ doc = SeedDocument
  /\ resets = 0

MemberStartsMarkExit(i) == doc' \in StartMarkExit(doc, i) /\ UNCHANGED resets

MemberCompletesMarkExit(i) == doc' \in CompleteMarkExit(doc, i) /\ UNCHANGED resets

MemberCreatesRequest(i) ==
  /\ \E r \in NewRequestIds : doc' \in CreateRequest(doc, i, r)
  /\ UNCHANGED resets

MemberResubmits(i) == doc' \in Resubmit(doc, i) /\ UNCHANGED resets

MemberSavesNomination == doc' \in SaveNomination(doc) /\ UNCHANGED resets

MemberRecordsPreflight == doc' \in CompletePreflight(doc) /\ UNCHANGED resets

MemberSubmitsClaim == doc' \in SubmitClaim(doc) /\ UNCHANGED resets

EmployerDecides(r, decision) == doc' \in ActOnRequest(doc, r, decision) /\ UNCHANGED resets

ProcessorAdvances(next) == doc' \in AdvanceClaim(doc, next) /\ UNCHANGED resets

DemoResets ==
  /\ resets < MaxResets
  /\ resets' = resets + 1
  /\ doc' \in Reset(doc)

Command ==
  \/ \E i \in ExitIssues : MemberStartsMarkExit(i) \/ MemberCompletesMarkExit(i)
  \/ \E i \in LegacyIssues : MemberCreatesRequest(i) \/ MemberResubmits(i)
  \/ MemberSavesNomination
  \/ MemberRecordsPreflight
  \/ MemberSubmitsClaim
  \/ \E r \in RequestIds, decision \in Decisions : EmployerDecides(r, decision)
  \/ \E next \in claimActionTargets : ProcessorAdvances(next)

Next == Command \/ DemoResets

Spec == Init /\ [][Next]_vars

(***************************************************************************)
(* Nothing in the code schedules anybody: every command is a person's      *)
(* click.  This fairness only says that nobody walks away: a correction    *)
(* that stays open is eventually made, and a reviewer who keeps being able *)
(* to approve eventually does (a request for information can suspend the   *)
(* approval again and again, hence strong fairness there).                 *)
(***************************************************************************)
EngagedParties ==
  /\ \A i \in ExitIssues :
       WF_vars(MemberStartsMarkExit(i)) /\ WF_vars(MemberCompletesMarkExit(i))
  /\ \A i \in LegacyIssues :
       WF_vars(MemberCreatesRequest(i)) /\ WF_vars(MemberResubmits(i))
  /\ \A r \in RequestIds :
       /\ WF_vars(EmployerDecides(r, "START_REVIEW"))
       /\ SF_vars(EmployerDecides(r, "APPROVE"))
  /\ WF_vars(MemberSubmitsClaim)
  /\ \A next \in claimActionTargets : WF_vars(ProcessorAdvances(next))

FairSpec == Spec /\ EngagedParties

-----------------------------------------------------------------------------
(* Invariants. *)

\* The document has the shape AppStateSchema admits (schemas.ts).
TypeOK == doc \in Document /\ resets \in 0..MaxResets

\* The claim is a draft exactly while preflight blocks it: whichever party
\* removes the last blocker, in whichever order, the same command moves the
\* claim to READY, and nothing ever blocks it again (epfo-service.ts,
\* synchronizeClaimReadiness).
ClaimMatchesReadiness == ReadinessPart(doc)

\* The two machines of the employer workflow stay in step: each issue has at
\* most one request and its status is the one the request's status stands for
\* (employer-workflow-adapter.ts, createRequest, decide and resubmit).
IssueMatchesRequest == RequestPart(doc)

\* An issue is resolved exactly when the record it is about was corrected, by
\* the route the resolution router gives it (completeMarkExit and decide).
RecordMatchesIssue == RecordPart(doc)

\* A request shows a reason exactly while its last decision was one that must be
\* explained to the member (employer-request-machine.ts, reason).
DecisionsExplained == ExplanationPart(doc)

\* stateHistory is the path the claim took: one entry per state, in order, none
\* skipped or repeated, and it was the citizen who submitted (claim-machine.ts).
HistoryIsThePath == TrailPart(doc)

\* Money is on its way only after both parties acted: the member closed every
\* missing exit, the employer approved one request for every legacy exception,
\* and the member confirmed the submission.
PaymentNeedsBothParties == PaymentAuthorised(doc)

\* All of it together: the inductive invariant.
Legal == LegalDocument(doc)

(* Action properties. *)

\* Only a reset undoes anything: a decided request keeps its decision, a resolved
\* issue stays resolved, and the claim's history only grows.  An escalated issue
\* stays escalated too: the issue machine would let it go back, but no command
\* takes it there, so a rejection ends the journey.
OnlyResetUndoes == [][resets' # resets \/ UndoesNothing(doc, doc')]_vars

(* Refinement. *)

Journey == INSTANCE ClaimJourney
  WITH Defects <- OpenDefects(SeedDocument), blocking <- OpenDefects(doc), claim <- doc.claim

\* Issues, requests and reviewers are only a way to carry out the claim journey.
ImplementsJourney == Journey!JourneySpec

(* Liveness. *)

\* With both parties engaged, the journey ends in a credited claim unless the
\* employer rejected a request about it.
SettlesUnlessRejected ==
  <>(\/ doc.claim = "CREDITED"
     \/ \E r \in RequestIds :
          doc.request[r].issue # NoIssue /\ doc.request[r].status = "REJECTED")

\* Stated by the request itself (employer-workflow-adapter.ts, supportingContext:
\* "Member-completed synthetic Date of Exit record") and by the issue's userAction
\* ("after marking your Date of Exit"): a request goes out with the exit recorded.
RequestFollowsMarkExit ==
  \A r \in RequestIds : doc.request[r].issue # NoIssue => doc.request[r].exitShown
=============================================================================
