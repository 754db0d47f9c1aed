---------------------------- MODULE WorkflowPages ----------------------------
(***************************************************************************)
(* What the pages of the resolution workflow let each party send.  A page  *)
(* is rendered from a snapshot with conditions of its own, written apart   *)
(* from the guards of the services: this module has the pages, and asks    *)
(* whether they agree with the services and with one another.  A tab shows *)
(* what was offered when it was rendered; the services decide on a click.  *)
(***************************************************************************)
EXTENDS ResolutionWorkflow

\* mark-exit/page.tsx shows the first issue of its type and preflight.ts names one
\* issue for each check that the employment records can fail.
ASSUME OneIssueOfEachKind ==
  \E i \in ExitIssues, j \in LegacyIssues : ExitIssues = {i} /\ LegacyIssues = {j}

\* A button: the action its request names, and the issue, request or claim it is about.
Offer(do, on) == [do |-> do, on |-> on]

Claim == "claim"

-----------------------------------------------------------------------------
(* The member's pages. *)

\* Manage, Mark Date of Exit.
MarkExitPage(d) ==
  {Offer("START_MARK_EXIT", i) : i \in {x \in ExitIssues : d.issue[x] = "OPEN"}}
    \cup {Offer("COMPLETE_MARK_EXIT", i) :
            i \in {x \in ExitIssues : d.issue[x] \notin {"OPEN", "RESOLVED"}}}

RequestsAbout(d, i) == {r \in RequestIds : d.request[r].issue = i}

IssuePanel_Bug(d, i) ==   \* a request that was decided is not looked for
  IF d.issue[i] = "RESOLVED" \/ i \in ExitIssues THEN {}
  ELSE IF \A r \in RequestsAbout(d, i) : d.request[r].status = "REJECTED"
    THEN {Offer("CREATE_EMPLOYER_REQUEST", i)}
  ELSE IF \E r \in RequestsAbout(d, i) : d.request[r].status = "INFORMATION_REQUESTED"
    THEN {Offer("RESUBMIT_EMPLOYER_REQUEST", i)}
  ELSE {}

\* The issue's page; for a missing exit it only links to the page above.
IssuePanel(d, i) ==
  IF d.issue[i] = "RESOLVED" \/ i \in ExitIssues THEN {}
  ELSE IF RequestsAbout(d, i) = {} THEN {Offer("CREATE_EMPLOYER_REQUEST", i)}
  ELSE IF \E r \in RequestsAbout(d, i) : d.request[r].status = "INFORMATION_REQUESTED"
    THEN {Offer("RESUBMIT_EMPLOYER_REQUEST", i)}
  ELSE {}

\* Who the resolution router answers for: a member with a verified identity records the
\* exit, and a legacy record is for the employer.
ResponsibleParty(i) == IF i \in ExitIssues THEN "MEMBER" ELSE "EMPLOYER"

\* "Who is acting now" on the issue's page.
WhoIsActing(d, i) ==
  IF \E r \in RequestsAbout(d, i) : d.request[r].status \in {"AWAITING_REVIEW", "IN_REVIEW"}
    THEN "EMPLOYER" ELSE ResponsibleParty(i)

\* "Member action now" reads "Nothing required" instead of the issue's instruction.
NothingRequired(d, i) == d.issue[i] = "WAITING_EXTERNAL"

\* The review page redirects elsewhere unless the claim can be submitted.
ReviewPage(d) ==
  IF ~ HasBlockingChecks(d) /\ d.claim = "READY" THEN {Offer("SUBMIT", Claim)} ELSE {}

\* Home and Manage list the issues that are not resolved.
ActiveIssues(d) == {i \in Issues : d.issue[i] # "RESOLVED"}

\* The preflight page links each failed check to the issue the check names.
Blockers(d) ==
  (IF ExitRecorded(d) THEN {} ELSE ExitIssues)
    \cup (IF LegacyAligned(d) THEN {} ELSE LegacyIssues)

-----------------------------------------------------------------------------
(* The employer's pages and the demo panel. *)

RequestPage_Bug(d, r) ==   \* the decision form does not wait for the review to start
  IF d.request[r].status = "AWAITING_REVIEW"
    THEN {Offer(decision, r) : decision \in Decisions}
  ELSE IF d.request[r].status = "IN_REVIEW"
    THEN {Offer(decision, r) : decision \in Decisions \ {"START_REVIEW"}}
  ELSE {}

\* The decision form is shown in review only, and sends a reason with the two
\* decisions that need one.
RequestPage(d, r) ==
  IF d.request[r].status = "AWAITING_REVIEW" THEN {Offer("START_REVIEW", r)}
  ELSE IF d.request[r].status = "IN_REVIEW"
    THEN {Offer(decision, r) : decision \in Decisions \ {"START_REVIEW"}}
  ELSE {}

CurrentOwner(d, r) ==
  IF d.request[r].status = "INFORMATION_REQUESTED" THEN "MEMBER" ELSE "EMPLOYER"

\* The queues of the employer's overview; the requests page filters by the same states.
NeedAction(d) == {r \in RequestIds : d.request[r].status \in {"AWAITING_REVIEW", "IN_REVIEW"}}

WaitingOnMember(d) == {r \in RequestIds : d.request[r].status = "INFORMATION_REQUESTED"}

Processed(d) == {r \in RequestIds : d.request[r].status \in {"APPROVED", "REJECTED"}}

\* requiredState of each control, by the claim state its action asks for.
claimControls ==
  [ELIGIBILITY_VERIFIED |-> "SUBMITTED",
   RECORDS_VERIFIED |-> "ELIGIBILITY_VERIFIED",
   APPROVED |-> "RECORDS_VERIFIED",
   PAYMENT_INSTRUCTION_CREATED |-> "APPROVED",
   BANK_PROCESSING |-> "PAYMENT_INSTRUCTION_CREATED",
   CREDITED |-> "BANK_PROCESSING"]

DemoPanel(d) ==
  {Offer(next, Claim) : next \in {s \in DOMAIN claimControls : claimControls[s] = d.claim}}

-----------------------------------------------------------------------------
(* What all pages offer, and what the services accept. *)

MemberOffers(d, i) == {o \in MarkExitPage(d) : o.on = i} \cup IssuePanel(d, i)

EmployerOffers(d, i) == UNION {RequestPage(d, r) : r \in RequestsAbout(d, i)}

ClaimOffers(d) == ReviewPage(d) \cup DemoPanel(d)

Offered(d) ==
  MarkExitPage(d) \cup (UNION {IssuePanel(d, i) : i \in Issues})
    \cup (UNION {RequestPage(d, r) : r \in RequestIds}) \cup ClaimOffers(d)

IssueCommand(d, do, i) ==
  CASE do = "START_MARK_EXIT" -> StartMarkExit(d, i)
    [] do = "COMPLETE_MARK_EXIT" -> CompleteMarkExit(d, i)
    [] do = "CREATE_EMPLOYER_REQUEST" -> UNION {CreateRequest(d, i, r) : r \in NewRequestIds}
    [] do = "RESUBMIT_EMPLOYER_REQUEST" -> Resubmit(d, i)

IssueActions ==
  {"START_MARK_EXIT", "COMPLETE_MARK_EXIT", "CREATE_EMPLOYER_REQUEST",
   "RESUBMIT_EMPLOYER_REQUEST"}

\* The requests that would not be refused, whatever page they come from.
Accepted(d) ==
  (UNION {{Offer(do, i) : do \in {a \in IssueActions : IssueCommand(d, a, i) # {}}} : i \in Issues})
    \cup (UNION {{Offer(decision, r) :
                    decision \in {a \in Decisions : ActOnRequest(d, r, a) # {}}} : r \in RequestIds})
    \cup (IF SubmitClaim(d) = {} THEN {} ELSE {Offer("SUBMIT", Claim)})
    \cup {Offer(next, Claim) : next \in {s \in claimActionTargets : AdvanceClaim(d, s) # {}}}

\* bound: an id is left for a new request (createId never runs out of them).
SpareId(d) == \E r \in NewRequestIds : d.request[r].status = "ABSENT"

-----------------------------------------------------------------------------
(* Properties. *)

\* Whatever the three parties did before, the pages together offer exactly what the
\* services accept.  So no page has a button that can only fail, no step the services
\* allow is without its page, and a tab that was rendered long ago can do nothing that
\* a fresh page would not offer (the pages' conditions against the services' guards).
OffersAreExact == SpareId(doc) => Offered(doc) = Accepted(doc)

\* The issues the home page lists are those the failed checks name.  For each of them
\* either a page of the member or a page of the employer offers a step, never both, and
\* after a rejection neither does; the request's "Current owner" and the employer's queues
\* name the side that has it.  The issue's page says "Nothing required" exactly on the
\* employer's turns, but its "Who is acting now" is only right about those and about a
\* missing exit: on a legacy record it names the employer on the member's turns too, and
\* after a rejection.  The claim has exactly one step, and only once no issue is left,
\* until it is credited.
OneSideHasTheTurn ==
  /\ Blockers(doc) = ActiveIssues(doc)
  /\ \A i \in ActiveIssues(doc) :
       LET rejected == \E r \in RequestsAbout(doc, i) : doc.request[r].status = "REJECTED"
           member == MemberOffers(doc, i) # {}
           employer == EmployerOffers(doc, i) # {}
       IN  /\ rejected => ~ member /\ ~ employer
           /\ ~ rejected => (member <=> ~ employer)
           /\ \A r \in RequestsAbout(doc, i) :
                /\ CurrentOwner(doc, r) = "MEMBER" <=> member
                /\ r \in WaitingOnMember(doc) <=> member
                /\ r \in NeedAction(doc) <=> employer
                /\ r \in Processed(doc) <=> rejected
           /\ NothingRequired(doc, i) <=> employer
           /\ WhoIsActing(doc, i) = "MEMBER" <=> member /\ i \in ExitIssues
  /\ ClaimOffers(doc) = {} <=> ActiveIssues(doc) # {} \/ doc.claim = "CREDITED"
  /\ \A o, p \in ClaimOffers(doc) : o = p
=============================================================================
