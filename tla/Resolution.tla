------------------------------ MODULE Resolution ------------------------------
(***************************************************************************)
(* The claim-readiness part of one visitor's AppState, and every command   *)
(* the services run against it: the member's self-service correction, the  *)
(* employer review, the nomination, the settlement claim and the reset.    *)
(*                                                                         *)
(* A command is synchronous and works on a copy of the document, so it is  *)
(* an operator from a document to the set of documents it may leave: the   *)
(* empty set when the code throws, one document when it saves.  The module *)
(* has no variables; ResolutionWorkflow applies the commands one at a time *)
(* and SessionStore interleaves them around the durable read and write.    *)
(***************************************************************************)
EXTENDS Naturals, Sequences, FiniteSets

CONSTANTS
  Employments,    \* ids of the member's employment records
  ExitIssues,     \* ids of the MISSING_EXIT_DATE issues
  LegacyIssues,   \* ids of the LEGACY_EMPLOYMENT_EXCEPTION issues
  Related,        \* [Issues -> Employments]: relatedEmploymentId
  SeedRequests,   \* [ids -> status]: the requests the fixtures already hold
  NewRequestIds,  \* ids createId can hand out
  NoIssue         \* the null issueId of a request about another member

Issues == ExitIssues \cup LegacyIssues
RequestIds == DOMAIN SeedRequests \cup NewRequestIds

IssueStatus ==
  {"OPEN", "ACTION_REQUIRED", "WAITING_EXTERNAL", "RESOLVED", "ESCALATED"}

RequestStatus ==
  {"AWAITING_REVIEW", "IN_REVIEW", "INFORMATION_REQUESTED", "APPROVED", "REJECTED"}

CLAIM_SEQUENCE ==
  << "DRAFT", "READY", "SUBMITTED", "ELIGIBILITY_VERIFIED", "RECORDS_VERIFIED",
     "APPROVED", "PAYMENT_INSTRUCTION_CREATED", "BANK_PROCESSING", "CREDITED" >>

ClaimState == {CLAIM_SEQUENCE[k] : k \in 1..9}

ActorType == {"CITIZEN", "SYSTEM", "PROCESSOR", "BANK"}

(***************************************************************************)
(* The fixtures route each kind of defect to one issue: an employment      *)
(* record misses its exit exactly when an exit issue names it, and needs   *)
(* review exactly when a legacy issue names it.                            *)
(***************************************************************************)
ASSUME IssuesAssumption ==
  /\ ExitIssues \cap LegacyIssues = {}
  /\ NoIssue \notin Issues
  /\ Related \in [Issues -> Employments]
  /\ \A i, j \in ExitIssues : Related[i] = Related[j] => i = j
  /\ \A i, j \in LegacyIssues : Related[i] = Related[j] => i = j

ASSUME RequestsAssumption ==
  /\ SeedRequests \in [DOMAIN SeedRequests -> RequestStatus]
  /\ NewRequestIds \cap DOMAIN SeedRequests = {}
  /\ \A r \in DOMAIN SeedRequests :
       SeedRequests[r] \notin {"INFORMATION_REQUESTED", "REJECTED"}

\* The settlement claim can only be a draft while something blocks it.
ASSUME DraftAssumption == Issues # {}

-----------------------------------------------------------------------------
(* The document. *)

\* explained: reason # null.  exitShown: what the "Date of Exit" line of the
\* currentRecord snapshot said when the request was created.
NoRequest ==
  [issue |-> NoIssue, status |-> "ABSENT", explained |-> FALSE, exitShown |-> FALSE]

Request ==
  [issue : Issues \cup {NoIssue}, status : RequestStatus \cup {"ABSENT"},
   explained : BOOLEAN, exitShown : BOOLEAN]

EmploymentRecord ==
  [exitStatus : {"VERIFIED", "MISSING"},
   legacyRecordStatus : {"ALIGNED", "REVIEW_REQUIRED"}]

TrailEntry == [state : ClaimState, actor : ActorType]

Document ==
  [issue : [Issues -> IssueStatus],
   record : [Employments -> EmploymentRecord],
   request : [RequestIds -> Request],
   claim : ClaimState,
   trail : Seq(TrailEntry),
   nomination : {"NOT_STARTED", "SAVED"}]

SeedDocument ==
  [issue |-> [i \in Issues |-> "OPEN"],
   record |-> [e \in Employments |->
     [exitStatus |->
        IF \E i \in ExitIssues : Related[i] = e THEN "MISSING" ELSE "VERIFIED",
      legacyRecordStatus |->
        IF \E i \in LegacyIssues : Related[i] = e THEN "REVIEW_REQUIRED" ELSE "ALIGNED"]],
   request |-> [r \in RequestIds |->
     IF r \in DOMAIN SeedRequests
       THEN [NoRequest EXCEPT !.status = SeedRequests[r]]
       ELSE NoRequest],
   claim |-> "DRAFT",
   trail |-> << [state |-> "DRAFT", actor |-> "CITIZEN"] >>,
   nomination |-> "NOT_STARTED"]

\* A command that throws saves nothing.
When(accepted, docs) == IF accepted THEN docs ELSE {}

\* Variants with the suffix _Bug are the mistakes the properties are tried on:
\* no specification uses them.

-----------------------------------------------------------------------------
(* Preflight: the identity checks read fields that no command changes and  *)
(* that the fixtures pass; two checks read the employment records.         *)

ExitRecorded(d) == \A e \in Employments : d.record[e].exitStatus = "VERIFIED"

LegacyAligned(d) == \A e \in Employments : d.record[e].legacyRecordStatus = "ALIGNED"

HasBlockingChecks_Bug(d) == ~ ExitRecorded(d)   \* the legacy check only warns

HasBlockingChecks(d) == ~ (ExitRecorded(d) /\ LegacyAligned(d))

-----------------------------------------------------------------------------
(* The three state machines. *)

ISSUE_TRANSITIONS_Bug ==   \* nothing leads back to the external party
  [OPEN |-> {"ACTION_REQUIRED"},
   ACTION_REQUIRED |-> {"RESOLVED"},
   WAITING_EXTERNAL |-> {"ACTION_REQUIRED", "RESOLVED", "ESCALATED"},
   RESOLVED |-> {},
   ESCALATED |-> {"ACTION_REQUIRED", "WAITING_EXTERNAL"}]

ISSUE_TRANSITIONS ==
  [OPEN |-> {"ACTION_REQUIRED"},
   ACTION_REQUIRED |-> {"WAITING_EXTERNAL", "RESOLVED"},
   WAITING_EXTERNAL |-> {"ACTION_REQUIRED", "RESOLVED", "ESCALATED"},
   RESOLVED |-> {},
   ESCALATED |-> {"ACTION_REQUIRED", "WAITING_EXTERNAL"}]

REQUEST_TRANSITIONS_Bug ==   \* a rejected request can be taken up again
  [AWAITING_REVIEW |-> {"IN_REVIEW"},
   IN_REVIEW |-> {"APPROVED", "INFORMATION_REQUESTED", "REJECTED"},
   INFORMATION_REQUESTED |-> {"AWAITING_REVIEW"},
   APPROVED |-> {},
   REJECTED |-> {"IN_REVIEW"}]

REQUEST_TRANSITIONS ==
  [AWAITING_REVIEW |-> {"IN_REVIEW"},
   IN_REVIEW |-> {"APPROVED", "INFORMATION_REQUESTED", "REJECTED"},
   INFORMATION_REQUESTED |-> {"AWAITING_REVIEW"},
   APPROVED |-> {},
   REJECTED |-> {}]

IsNextClaimState_Bug(s, t) ==   \* any later state will do
  \E k \in 1..8 : CLAIM_SEQUENCE[k] = s /\ \E l \in k + 1..9 : CLAIM_SEQUENCE[l] = t

IsNextClaimState(s, t) ==
  \E k \in 1..8 : CLAIM_SEQUENCE[k] = s /\ CLAIM_SEQUENCE[k + 1] = t

ClaimMoved(d, next, actor) ==
  [d EXCEPT !.claim = next,
            !.trail = Append(@, [state |-> next, actor |-> actor])]

TransitionClaim(d, next, confirmed, actor) ==
  When(/\ IsNextClaimState(d.claim, next)
       /\ d.claim = "DRAFT" => ~ HasBlockingChecks(d)
       /\ d.claim = "READY" /\ next = "SUBMITTED" => confirmed,
       {ClaimMoved(d, next, actor)})

SynchronizeClaimReadiness_Forgotten(d) == d

SynchronizeClaimReadiness_AnyClaim(d) ==   \* not only a draft
  IF ~ HasBlockingChecks(d) THEN ClaimMoved(d, "READY", "SYSTEM") ELSE d

\* Run after every completed correction: a draft with nothing left to block it
\* becomes READY in the same command.
SynchronizeClaimReadiness(d) ==
  IF d.claim = "DRAFT" /\ ~ HasBlockingChecks(d)
    THEN ClaimMoved(d, "READY", "SYSTEM")
    ELSE d

-----------------------------------------------------------------------------
(* Member self-service. *)

StartMarkExit(d, i) ==
  When(/\ i \in ExitIssues
       /\ "ACTION_REQUIRED" \in ISSUE_TRANSITIONS[d.issue[i]],
       {[d EXCEPT !.issue[i] = "ACTION_REQUIRED"]})

CompleteMarkExit_Bug(d, i) ==   \* the record keeps its missing exit
  When(/\ i \in ExitIssues
       /\ d.issue[i] = "ACTION_REQUIRED",
       {SynchronizeClaimReadiness([d EXCEPT !.issue[i] = "RESOLVED"])})

CompleteMarkExit(d, i) ==
  When(/\ i \in ExitIssues
       /\ d.issue[i] = "ACTION_REQUIRED",
       {SynchronizeClaimReadiness(
          [d EXCEPT !.issue[i] = "RESOLVED",
                    !.record[Related[i]].exitStatus = "VERIFIED"])})

SaveNomination_Bug(d) == {[d EXCEPT !.nomination = "COMPLETE"]}

\* The shares are validated before anything is saved; any valid list saves.
SaveNomination(d) == {[d EXCEPT !.nomination = "SAVED"]}

-----------------------------------------------------------------------------
(* The employer workflow. *)

\* progressIssueToWaiting: OPEN and ACTION_REQUIRED move on, the rest stay.
ProgressedToWaiting(s) ==
  IF s \in {"OPEN", "ACTION_REQUIRED"} THEN "WAITING_EXTERNAL" ELSE s

CreateRequest_Twice(d, i, r) ==   \* an existing request is not looked for
  When(/\ i \in LegacyIssues
       /\ d.request[r].status = "ABSENT",
       {[d EXCEPT !.issue[i] = ProgressedToWaiting(@),
                  !.request[r] =
                    [issue |-> i, status |-> "AWAITING_REVIEW", explained |-> FALSE,
                     exitShown |-> d.record[Related[i]].exitStatus = "VERIFIED"]]})

CreateRequest_Unrouted(d, i, r) ==   \* the issue does not start to wait
  When(/\ i \in LegacyIssues
       /\ \A q \in RequestIds : d.request[q].issue # i
       /\ d.request[r].status = "ABSENT",
       {[d EXCEPT !.request[r] =
                    [issue |-> i, status |-> "AWAITING_REVIEW", explained |-> FALSE,
                     exitShown |-> d.record[Related[i]].exitStatus = "VERIFIED"]]})

CreateRequest(d, i, r) ==
  When(/\ i \in LegacyIssues
       /\ \A q \in RequestIds : d.request[q].issue # i
       /\ d.request[r].status = "ABSENT",
       {[d EXCEPT !.issue[i] = ProgressedToWaiting(@),
                  !.request[r] =
                    [issue |-> i, status |-> "AWAITING_REVIEW", explained |-> FALSE,
                     exitShown |-> d.record[Related[i]].exitStatus = "VERIFIED"]]})

TARGET_BY_DECISION ==
  [START_REVIEW |-> "IN_REVIEW",
   APPROVE |-> "APPROVED",
   REQUEST_INFORMATION |-> "INFORMATION_REQUESTED",
   REJECT |-> "REJECTED"]

Decisions == DOMAIN TARGET_BY_DECISION

\* What each final decision does to the issue the request is about.
ISSUE_BY_DECISION ==
  [APPROVE |-> "RESOLVED",
   REQUEST_INFORMATION |-> "ACTION_REQUIRED",
   REJECT |-> "ESCALATED"]

\* transitionEmployerRequest: the reason of the decision replaces the last one.
CanTransitionRequest(q, next, explained) ==
  /\ q.status # "ABSENT"
  /\ next \in REQUEST_TRANSITIONS[q.status]
  /\ next \in {"INFORMATION_REQUESTED", "REJECTED"} => explained

RequestMoved_Bug(d, r, next, explained) ==   \* the last reason is kept
  [d EXCEPT !.request[r].status = next, !.request[r].explained = @ \/ explained]

RequestMoved(d, r, next, explained) ==
  [d EXCEPT !.request[r].status = next, !.request[r].explained = explained]

\* The decision route takes a reason (at least five characters) with exactly
\* these two decisions and drops it from the others.
ReasonGiven(decision) == decision \in {"REQUEST_INFORMATION", "REJECT"}

CanDecide(d, r, decision) ==
  CanTransitionRequest(d.request[r], TARGET_BY_DECISION[decision], ReasonGiven(decision))

RequestDecided(d, r, decision) ==
  RequestMoved(d, r, TARGET_BY_DECISION[decision], ReasonGiven(decision))

\* A decision that touches no issue returns early.
DecideRequestOnly(d, r, decision) ==
  When(/\ CanDecide(d, r, decision)
       /\ d.request[r].issue = NoIssue \/ decision = "START_REVIEW",
       {RequestDecided(d, r, decision)})

DecideWithIssue(d, r, decision) ==
  LET i == d.request[r].issue
      moved == RequestDecided(d, r, decision)
  IN  When(/\ CanDecide(d, r, decision)
           /\ i # NoIssue
           /\ decision # "START_REVIEW"
           /\ ISSUE_BY_DECISION[decision] \in ISSUE_TRANSITIONS[d.issue[i]],
           {IF decision = "APPROVE"
              THEN [moved EXCEPT !.issue[i] = "RESOLVED",
                                 !.record[Related[i]].legacyRecordStatus = "ALIGNED"]
              ELSE [moved EXCEPT !.issue[i] = ISSUE_BY_DECISION[decision]]})

\* actOnEmployerRequest: every approval, also of a request about another member,
\* re-evaluates the preflight and synchronises the claim.
ActOnRequest(d, r, decision) ==
  {IF decision = "APPROVE" THEN SynchronizeClaimReadiness(e) ELSE e :
     e \in DecideRequestOnly(d, r, decision) \cup DecideWithIssue(d, r, decision)}

Resubmit(d, i) ==
  UNION {When(/\ d.request[r].issue = i
              /\ d.request[r].status = "INFORMATION_REQUESTED"
              /\ CanTransitionRequest(d.request[r], "AWAITING_REVIEW", FALSE)
              /\ "WAITING_EXTERNAL" \in ISSUE_TRANSITIONS[d.issue[i]],
              {[RequestMoved(d, r, "AWAITING_REVIEW", FALSE)
                  EXCEPT !.issue[i] = "WAITING_EXTERNAL"]}) : r \in RequestIds}

-----------------------------------------------------------------------------
(* The settlement claim, the preflight record and the reset. *)

SubmitClaim(d) == TransitionClaim(d, "SUBMITTED", TRUE, "CITIZEN")

\* The targets the demo route can name, each with its simulated actor.
claimActionTargets ==
  {"ELIGIBILITY_VERIFIED", "RECORDS_VERIFIED", "APPROVED",
   "PAYMENT_INSTRUCTION_CREATED", "BANK_PROCESSING", "CREDITED"}

ActorByState(s) == IF s \in {"BANK_PROCESSING", "CREDITED"} THEN "BANK" ELSE "PROCESSOR"

AdvanceClaim(d, next) == TransitionClaim(d, next, FALSE, ActorByState(next))

\* Appends an audit event only; the document is saved all the same.
CompletePreflight(d) == {d}

Reset(d) == {SeedDocument}

\* Every document a command, other than the reset, can leave.
CommandOutcomes(d) ==
  (UNION {StartMarkExit(d, i) \cup CompleteMarkExit(d, i) \cup Resubmit(d, i) : i \in Issues})
    \cup (UNION {CreateRequest(d, i, r) : i \in Issues, r \in NewRequestIds})
    \cup (UNION {ActOnRequest(d, r, decision) : r \in RequestIds, decision \in Decisions})
    \cup (UNION {AdvanceClaim(d, next) : next \in claimActionTargets})
    \cup SubmitClaim(d) \cup SaveNomination(d) \cup CompletePreflight(d)

Outcomes(d) == CommandOutcomes(d) \cup Reset(d)

-----------------------------------------------------------------------------
(* What makes a stored document legal. *)

ReadinessPart(d) == d.claim = "DRAFT" <=> HasBlockingChecks(d)

RecordPart(d) ==
  /\ \A i \in ExitIssues :
       d.issue[i] = "RESOLVED" <=> d.record[Related[i]].exitStatus = "VERIFIED"
  /\ \A i \in LegacyIssues :
       d.issue[i] = "RESOLVED" <=> d.record[Related[i]].legacyRecordStatus = "ALIGNED"
  /\ \A e \in Employments :
       /\ d.record[e].exitStatus = "MISSING" => \E i \in ExitIssues : Related[i] = e
       /\ d.record[e].legacyRecordStatus = "REVIEW_REQUIRED" =>
            \E i \in LegacyIssues : Related[i] = e

IssueStatusFor(s) ==
  CASE s \in {"AWAITING_REVIEW", "IN_REVIEW"} -> "WAITING_EXTERNAL"
    [] s = "INFORMATION_REQUESTED" -> "ACTION_REQUIRED"
    [] s = "APPROVED" -> "RESOLVED"
    [] OTHER -> "ESCALATED"

RequestPart(d) ==
  /\ \A r \in RequestIds :
       d.request[r].issue # NoIssue =>
         /\ d.request[r].issue \in LegacyIssues
         /\ d.request[r].status # "ABSENT"
         /\ d.issue[d.request[r].issue] = IssueStatusFor(d.request[r].status)
  /\ \A i \in LegacyIssues :
       (\A r \in RequestIds : d.request[r].issue # i) => d.issue[i] = "OPEN"
  /\ \A i \in ExitIssues : d.issue[i] \in {"OPEN", "ACTION_REQUIRED", "RESOLVED"}
  /\ \A r, q \in RequestIds :
       d.request[r].issue = d.request[q].issue /\ d.request[r].issue # NoIssue => r = q

ExplanationPart(d) ==
  \A r \in RequestIds :
    d.request[r].explained <=> d.request[r].status \in {"INFORMATION_REQUESTED", "REJECTED"}

TrailPart(d) ==
  /\ Len(d.trail) \in 1..9
  /\ d.claim = CLAIM_SEQUENCE[Len(d.trail)]
  /\ \A k \in 1..Len(d.trail) : d.trail[k].state = CLAIM_SEQUENCE[k]
  /\ Len(d.trail) >= 3 => d.trail[3].actor = "CITIZEN"

LegalDocument(d) ==
  /\ d \in Document
  /\ RecordPart(d)
  /\ RequestPart(d)
  /\ ExplanationPart(d)
  /\ ReadinessPart(d)
  /\ TrailPart(d)

\* What has to be behind a claim that pays: the member closed every missing exit, the
\* employer approved one request for every legacy exception, and the member confirmed
\* the submission.
PaymentAuthorised(d) ==
  d.claim \in {"APPROVED", "PAYMENT_INSTRUCTION_CREATED", "BANK_PROCESSING", "CREDITED"} =>
    /\ \A e \in Employments : d.record[e].exitStatus = "VERIFIED"
    /\ \A i \in LegacyIssues : \E r \in RequestIds :
         d.request[r].issue = i /\ d.request[r].status = "APPROVED"
    /\ \E k \in 1..Len(d.trail) : d.trail[k] = [state |-> "SUBMITTED", actor |-> "CITIZEN"]

\* From d to e no decision was taken back, no closed issue reopened and no entry of the
\* claim's history lost.
UndoesNothing(d, e) ==
  /\ \A r \in RequestIds :
       d.request[r].status \in {"APPROVED", "REJECTED"} => e.request[r] = d.request[r]
  /\ \A i \in Issues : d.issue[i] \in {"RESOLVED", "ESCALATED"} => e.issue[i] = d.issue[i]
  /\ Len(e.trail) >= Len(d.trail)
  /\ \A k \in 1..Len(d.trail) : e.trail[k] = d.trail[k]

\* The defects of a document: which employment record lacks what.
OpenDefects(d) ==
  {<< "EXIT", e >> : e \in {x \in Employments : d.record[x].exitStatus = "MISSING"}}
    \cup {<< "LEGACY", e >> :
            e \in {x \in Employments : d.record[x].legacyRecordStatus = "REVIEW_REQUIRED"}}
=============================================================================
