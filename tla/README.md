# EPFO One in TLA+

A verification project kept beside EPFO One, the prototype that joins a synthetic
member portal and employer portal around shared provident-fund records. The modules
here are translated from the TypeScript under `src/src/` (paths below are relative to
that directory). TLC checks them on small instances; TLAPS proves the main results for
every instance.

## 1. The system

Every visitor owns one scenario, an `AppState` document. It holds the member with their
employment records, the issues that block a settlement, the employer's requests, one
settlement claim, a ledger of contributions, an advance, a transfer, one ECR (payroll)
file and a log of audit events. Pages render a read-only copy. Each command is a POST:
it loads the document, runs one synchronous function of a service on it, and writes the
document back.

| Component | State it keeps | Operations | Interacts with | What is hard | What makes it correct |
|---|---|---|---|---|---|
| Resolution workflow (`application/epfo-service.ts`, `adapters/*`, `domain/*-machine.ts`, `domain/preflight.ts`) | issue status, employment record, employer requests, claim and its history, nomination | start/complete Mark Exit, create/decide/resubmit request, submit and advance the claim, save nomination, reset | member, employer and demo panel act on one document; a correction by either catches the claim up | the order of corrections, four records that must agree, loops between two state machines, dead ends | readiness = claim state; issue = request status; history = path; payment only after both parties acted |
| Session boundary (`application/session.ts`, `repositories/*`, `app/api/http.ts`) | one row per visitor; a working copy per request | hydrate, run the command, write, answer; render | every command and page | no lock and no version: requests overlap at two awaits; failures, lost replies, impatient clients, rows of older deployments | stored documents are legal; acknowledged commands are durable |
| Session identity and proxy (`proxy.ts`, `lib/session.ts`, `lib/auth.ts`, `api/auth/*`) | session, role and walkthrough cookie, all in the browser | mint the id, gate by role, log in and out, keep the role in step with the walkthrough | every request; the walkthrough's commands set two of the cookies | parallel first requests each mint an id; several tabs share one jar while their answers are under way | a visitor keeps one scenario; the role is that of the page shown; no redirect goes round for ever |
| Store selection (`repositories/session-store-instance.ts`) | one memoised store per process | choose the durable or the in-memory store | session boundary | a deployment without a database must refuse, not forget | production never runs on process memory |
| Employer ECR filing (`domain/ecr-*.ts`, `application/experience-v2-service.ts`, `api/employer/ecr`) | payroll rows with their defect, file status, challan | validate, correct a row, challan, start and complete payment, post to the passbook | pays into the member's ledger | a correction can create a new defect; a file can be payable and not postable | every payable file gets paid; nobody is paid twice |
| PF ledger (`application/experience-v2-service.ts`, `domain/advance-*.ts`, `domain/transfer-machine.ts`) | balances, contributions, advance, transfer, past claims | goal, submit and advance the advance; unblock and advance the transfer; contribution posting | settlement claim, ECR | three flows move the same balance; a goal can be changed while money is in flight | money is moved once and never below zero |
| Guided walkthrough (`domain/judge-tour.ts`, `lib/tour.ts`, `api/tour`) | position cookie; progress is derived from the document | go to a step, leave | switches role, reads the document | a position ahead of the document or behind it | what was done is shown as done, and stays so |
| Assistant (`components/ask-epfo-one.tsx`, `api/assistant`, `domain/assistant-intent.ts`, `lib/groq.ts`) | the panel: the question pending, the last answer | ask, read the record, classify by the model or by keywords, show, leave the page | reads the session's document; a remote model with a 6 s limit | the late or malformed answer of the model; the record read before the model is asked; the component left meanwhile | every question is answered, from a record of its time, and the answer shown is to the question asked last |
| Read models (`domain/contribution-health.ts`, `contribution-split.ts`, `pension.ts`, `readiness.ts`, `activity-feed.ts`, `system-trace.ts`, `claim-timeline.ts`) | none | pure functions of the document | passbook, home, filing, advance and pension pages | shares rounded one by one, a ceiling; a second opinion about a month that another module validated | a paid month shows as posted and hides no other; shares add up |
| Pages that offer commands (`app/(app)/*`, their forms in `components/`) | what a tab still shows of an earlier document | render the buttons, send what is clicked | every service | each page has conditions of its own, written apart from the guards of the services | what the workflow's pages offer is accepted, what is possible is offered, one side at a time has a button |
| Resolution router, nomination rules, service catalogue | none | pure functions | resolution workflow | | |
| Audit events, wording, layout, language | event log that no guard reads | rendering | | | not modelled |

## 2. The modules

| Module | What it is |
|---|---|
| `Resolution` | The resolution part of the document and every command on it, as operators from a document to the set of documents the command may leave: `{}` when the code throws. No variables, so that two specifications and the proofs share the commands. |
| `ResolutionWorkflow` | One visitor, commands one at a time: one action per command, named after who gives it. |
| `ClaimJourney` | What the workflow promises, abstractly: a set of defects blocks the claim, removing the last one makes it ready, after that it walks its sequence. `ResolutionWorkflow` implements it (`ImplementsJourney`). |
| `SessionStore` | The same commands behind the session boundary: requests that hydrate, run and write, answer, fail or lose their reply, interleaved around one row per visitor. |
| `AtomicSession` | The abstract session, for any fixtures and any effects of a command: it takes effect in one step. `SessionStore` implements it when commands do not overlap (`ImplementsAtomicSession`). |
| `WorkflowPages` | The issue, Mark Exit, review, home, preflight, employer and demo pages over `Resolution`: for each, the conditions its code shows a button under, and the request the button sends; and where a page says whose turn it is, what it says. |
| `AskEpfoOne` | The question box beside the commands of `SessionStore`: the panel, the route, the remote model and its timer. |
| `EcrFile` | One payroll file: the rows with their verdicts, the file's state, its total, and what it posted to the passbook; one action per employer command. |
| `PfLedger` | The member's money: the balance, the two employment records it is made of, and the four flows that touch it (advance, transfer, contribution, settlement). |
| `PfAccount` | What the ledger promises, abstractly: a sum, sources that pay in once, withdrawals it can cover. `PfLedger` implements it (`ImplementsAccount`). |
| `EcrPages` | The filing page's correction forms and buttons over `EcrFile`, and what the passbook, the home page and the filing page make of the months: health, highlights, focus, filters. |
| `ContributionShares` | The arithmetic of a month: the shares due on a wage, their rounding and the EPS ceiling, and the split the passbook explains. |
| `LedgerPages` | The advance and transfer pages over `PfLedger`: purposes, amounts and buttons offered. |
| `JudgeTour` | The composition of the resolution workflow with the payroll payment and the guided walkthrough: the judge's cookie, and the rail derived from it and from the document. |
| `ProxyGate` | One visitor's browser in front of the proxy: a cookie jar, tabs that ask for pages and send commands, answers that come later, or never, and replace cookies. |
| `ResolutionLemmas`, `ResolutionWorkflowProofs`, `WorkflowPagesProofs`, `SessionStoreProofs`, `EcrFileProofs`, `PfLedgerProofs`, `ProxyGateProofs`, `JudgeTourProofs` | Theorems and proofs. |
| `MCResolutionWorkflow`, `MCSessionStore`, `MCAskEpfoOne`, `MCEcrFile`, `MCPfLedger`, `MCProxyGate`, `MCJudgeTour` | The instances TLC checks. |

How state and actions correspond to the code:

* `d.issue`, `d.record`, `d.request`, `d.claim`, `d.trail`, `d.nomination` are
  `issues[].status`, the two statuses of `member.employments[]`, `employerRequests[]`
  (status, whether a reason is set, and what the snapshot said of the exit), `claim.state`,
  `claim.stateHistory` (state and actor of each entry) and `member.nomination.status`.
  Ids, dates, names, notes and audit events are left out: no guard reads them.
* A command's guard is the conjunction of the code's early throws, in `When(...)`; what it
  leaves includes everything it calls. `CompleteMarkExit` and an approval contain
  `reevaluatePreflight` and `synchronizeClaimReadiness`, as the service calls them.
* The identity checks of the preflight (Aadhaar, PAN, mobile, bank) read fields that no
  command changes and that the fixtures pass, so only the two record checks remain.
* In `SessionStore` a request is `SENT`, then `HYDRATED` (`store.read` returned, the copy is
  private), then `WRITTEN` (the command ran and `store.write` returned; the command itself
  is synchronous), then `ENDED`. `row` is `Absent`, `Unreadable` (fails `AppStateSchema`) or
  a document. `lineage`, `seen` and `alone` are history: which calls' effects the row
  carries, what a copy carried, and whether another write of the visitor overlapped.
* A page of `WorkflowPages` is a function of a document to the requests its buttons send; a
  button that is drawn disabled sends nothing. `MemberOffers`, `EmployerOffers` and
  `ClaimOffers` collect the pages of one party. The pages' conditions are translated from the
  pages, the guards from the services; neither is defined through the other, which is what
  `OffersAreExact` is about. A tab that was rendered earlier sends what an earlier document
  offered; the services' guards, which every command has, answer it.
* In `AskEpfoOne` a question is `SENT` (the click), `CLASSIFYING` (`loadSession` and
  `getSnapshot` returned, the model is asked), `REPLIED` (the route answered) and `ENDED` (the
  component handled the answer or the failure). `mounted` is whether the component that asked
  is still on the page; `Leave` unmounts it. `read` is the readiness the route found; `held` is
  history: what the readiness was from the click to that read. Of the facts under an answer
  only the readiness line is about the resolution document. The model's reply is any intent of
  a set, and `TimeOut` may come instead of it at any time.
* The store behind `SessionStore` (Postgres through Supabase, or a map) is taken as what
  `session.ts` relies on: reads and upserts of one row are atomic and may fail.

* In `EcrFile` a row is its UAN, member id, wage and amount. The three shares of a row always
  move together (a correction recomputes all three), so they are one amount, and
  `Expected` stands for the sum of
  `expectedContributionFromWage`; `MCEcrFile` gives it the code's arithmetic (`ExpectedTotal`). `Revalidate` is the part `validateEcr`
  and `correctEcrRow` share: validation of *all* rows, the total, the transition. A command
  whose transition the table refuses throws before anything is saved, so it is not enabled.
  The member's name is left out: the fixtures name every row and a correction cannot blank it.
* In `PfLedger` `balance` is `member.currentPfBalancePaise`, `previous`/`current` are
  `pfBalancePaise` of the two records the transfer joins, `paidOut` adds up the advances pushed
  onto `pastClaims`. The identity, bank and employment checks of the policy read what no
  command changes and the fixtures pass; the balance and the service check remain.
  Each command's refusals have a name (`AdvanceMayMove`, `MaySubmit`, `TransferMayMove`,
  `RecordHoldsTheAmount`), so that the pages, the actions and the proofs speak of the same guard;
  `Asking` is the advance with the amount that is asked for. `PostContribution` takes any contribution of a set, whichever row of `EcrFile` it came from;
  `CreditSettlement` is the last step of the claim in `Resolution`, which may come at any time.
* In `EcrPages` a month of the passbook is its wage, its amount and what its source declared;
  `History` are the months before the one filed. `Health`, `Highlights`, `Attention`, `Focus` and
  `Selected` are pure functions of those and of what `EcrFile` posted. In `LedgerPages` money is
  counted in a unit of which `Rupee` make a rupee, so that rounding to rupees can happen.
* In `ProxyGate` `jar` holds the three cookies and `tab[t]` what the tab shows, where it is
  going (`next`) and the answer on its way. Pages are told apart as the gates do: the sign-in
  page, the shared `/demo`, the employer's pages, and all member pages (`HOME`). A request is
  answered with the cookies it was sent with, but its answer reaches the jar of a later moment.
  `proxy` and the handler behind it are one step, since neither reads anything a second time;
  `loadSession` is what `SessionStore` models. A command's answer says where the page's own code
  sends the tab next, so `Login` and `Logout` include the `router.push` of their components.
  The walkthrough is its cookie (set or not) and the role and page of a step; which step it is
  belongs to `JudgeTour`. `FirstAlone` is no code: it says whether the visitor waits
  for the first answer before a second request.
* `JudgeTour` extends `ResolutionWorkflow` with `acknowledged` (the walkthrough cookie; an edited
  value is clamped to a step before it is used) and `ecrPaid`, the one thing the rail reads of
  the payroll file: `EmployerPaysEcr` stands for the whole of `EcrFile`. `CurrentIndex` and
  `DoneSteps` are `deriveTourProgress`; nothing of them is stored. Every command of the workflow
  leaves the cookie alone, and so does a reset.

Variants named `..._Bug` (and a few named for their mistake) are wrong versions of a
definition. No specification uses them; each property has one that breaks it, which shows
the property can fail.

## 3. What the runs check

| Run | Question | Result |
|---|---|---|
| `walkthrough` | Do issue, request, record, readiness, reasons, history and claim stay in step in every order of commands, is money only on its way when both parties acted, does only a reset undo anything, is all this an implementation of the claim journey, and is the claim credited if nobody walks away and the employer does not reject? Do the pages offer exactly what the services accept, and has exactly one side a button on each open issue? And does the guided walkthrough over it, wherever the judge clicks, never show less than was done nor lose a tick without a reset, and tick beyond the data only what the judge clicked past or what a finished step follows? | holds |
| `rail_claims_more` | Is a step of the walkthrough that the data alone decides ticked only when the data says so? | violated: finding |
| `request_before_exit` | Does a request go out with the exit recorded, as its own context says? | violated: finding |
| `session_overlap` | Are stored documents legal under overlap, failure, lost replies and impatience, and are uncontended commands never lost? | holds |
| `session_serial` | With one command at a time and a patient client: is the boundary an atomic session, is every acknowledged command durable, is every request answered? And are the questions asked beside the commands all answered, each from a record that was current between the click and the answer? | holds |
| `lost_update` | Is every acknowledged command durable when two overlap? | violated: finding |
| `ecr_file` | Are the verdicts on the payroll file current after any corrections, can each row in issue be settled from the page, does a challan pay each UAN once and fix the file, does its payment reach the passbook once and at last, and show there as posted without hiding another month? | holds |
| `ecr_stuck` | Can every clear file be paid? | violated: finding |
| `ecr_paid_twice` | Is no member on two lines of a challan? | violated: finding |
| `pf_ledger` | With all four flows interleaved: is the advance under way covered, do balance, records and passbook agree, is a submitted transfer completed, do the two pages always show a way on, are the advance form's amounts accepted exactly up to the maximum, and is it all an implementation of a PF account? | holds |
| `proxy_gate` | Once the first request was alone: is all the visitor did in the scenario their cookie names, is the role cookie the persona of the page shown, does every request for a page end unless the visitor changes role or walkthrough for ever? | holds |
| `parallel_first` | Is it one scenario also when two requests go out before the first answer? | violated: finding |

Bounds. `MCResolutionWorkflow`, and with it `MCJudgeTour`, has the fixture's shape: two employment records of which one
has both defects, one issue of each kind, the requests of two other members (one already
approved), and two fresh request ids, one more than the workflow may use, so that a second
request for an issue would be seen. One reset (`MaxResets`) is enough to reset from every
reachable document. The session runs have one visitor (visitors share nothing: every
operation is keyed by the session id). `session_overlap` and `lost_update` have three requests of
any kind, at most two of them commands that wait (`MaxOutstanding`): enough for a lost update
plus a later reader. `session_serial` allows one waiting command; it has two requests and, with
`MCAskEpfoOne`, two questions: one a keyword rule knows and one none does, so that a command
can run inside each question, between two, and around both, and a left component can ask again
while its old answer is on the way. The theorems hold for any number of
requests and questions. `CHECK_DEADLOCK FALSE` in the session runs, because a run ends when its
requests are used up.

`MCEcrFile` has four lines that carry the fixture's defects between them: a wrong amount, the
shared member under an unlinked id, a repeat of the first line's UAN, and a line without UAN
and wage. Three UANs (the member's, the repeated one, a free one) and two wages (none, and the
fixture's ₹18,000, with the code's own arithmetic)
are enough to create every verdict by correction, to make a duplicate of any two lines and to
resolve it either way; a fifth line would only repeat the part of one of the four. `MCHistory` is
the fixture's seven months, of which March lacks a share and June is declared delayed. `MCPfLedger`
uses small amounts chosen around the two limits of the policy: the wage caps the medical
advance, the balance caps the housing one, a posted month may raise the wage, and the largest
amount asked for exceeds everything the member will ever have. A rupee is two units there, so that
the maximum may end in half a rupee. `CHECK_DEADLOCK FALSE` in the
ECR runs, because a paid file takes no more commands.

`MCProxyGate` has two tabs, because every race here is between one answer under way and one
tab that goes on, and two session ids, because with two tabs no more than two requests can be
sent without a cookie.
With two tabs the role cookie can name the persona of the *other* tab's page, which is what one
cookie for two tabs means, so `RoleMatchesPage`
is asked as long as only one tab was used (`opened` is history).

Fairness. The code schedules nobody; every command of the workflow is a click. `FairSpec` of
`ResolutionWorkflow` therefore only says that people stay engaged: weak fairness of each
member command, of the reviewer's opening and of the processor, and strong fairness of the
approval, because a request for information suspends it. A rejection is always allowed.
`FairSpec` of `SessionStore` is weak fairness of the server's work on a request it started,
which the platform provides; clients have none. `AskFairSpec` adds the same for the question route,
the timer of `groq.ts`, and the browser's handling of an answer; the model is owed nothing. `FairSpec` of `EcrFile` says the employer who
raised a challan goes on to pay it, and `FairSpec` of `PfLedger` that whoever submitted a
transfer goes on clicking through its states. `FairSpec` of `ProxyGate` says that a browser sends
what it was asked to send (strongly, only because `FirstAlone` may make it wait its turn) and that
the server answers or the connection fails; no visitor's act, loss or expiry is fair. Corrections, validations, the choice of a purpose
and everything else is free never to happen.

## 4. What is proved

All proofs hold for every value of the constants that satisfies the named assumptions of
their modules: `MoneyAssumption` (amounts are naturals), `FileAssumption` (the file's rows are
rows), `PayrollAssumption` (no two lines of the upload name one employee) and those of
`Resolution` (`IssuesAssumption`: no record has two issues of one kind; `RequestsAssumption`: seeded
requests are about other members and carry no reason; `DraftAssumption`: there is at least one issue),
`OneIssueOfEachKind` of `WorkflowPages`, `VisitorAssumption` of `ProxyGate`, `HistoryAssumption` and
`WagesAssumption` of `EcrPages` (months recorded before are other months; a real wage is among the
wages and earns something), `RupeeAssumption`, `QuestionsAssumption`, and of the module the
theorem is about. `RealWagesEarn` discharges the arithmetic ones for the code's rates.

* `OutcomesLegal` (`ResolutionLemmas`): every command leaves a legal document. This is the
  core: `LegalDocument` is the inductive invariant, the conjunction of `RecordPart` (issue
  resolved = record corrected), `RequestPart` (issue status = what the request's status
  stands for, one request per issue), `ExplanationPart`, `ReadinessPart` (draft = blocked)
  and `TrailPart`. None of them is inductive alone: a decision may only move the issue
  because the two machines agree before, and readiness needs the records and the issues to
  agree. There is one lemma per command.
* `AlwaysLegal`, `TypeCorrect`, `ClaimFollowsReadiness`, `IssueFollowsRequest`,
  `HistoryFaithful`, `PaymentIsAuthorised`, `RecordFollowsIssue`, `ReasonsFollowDecisions`
  (`ResolutionWorkflowProofs`) follow.
* `NothingIsUndone`: the action property `OnlyResetUndoes`, from the fact that every command
  is bookkeeping, or one correction, or one move of an unblocked claim (`JourneyStep`).
* `MachinesAreFollowed`: from one document to the next each issue, each request and the claim stays
  or takes one step of its own table; only `createRequest` takes an open issue two. A command runs several
  transitions, and an approval or a completed exit may make the claim ready as well: the theorem is about what
  is left at the end. The liveness proof rests on it.
* `WorkflowImplementsJourney`: from the same three cases, the refinement of `ClaimJourney`.
* `PagesOfferWhatIsAccepted` (`WorkflowPagesProofs`): in a legal document the pages' conditions and
  the services' guards admit the same requests. It needs the invariant: the issue page asks the
  issue's status, the service asks the record and the request, and only `RecordPart` and
  `RequestPart` make these the same question. `OneSideAlwaysHasTheTurn`: exactly one side has a button on
  each open issue (none after a rejection), and the texts about it agree, with the exception the property
  spells out: the issue page's "Who is acting now" (§5).
* `RowsStayLegal` (`SessionStoreProofs`): whatever interleaves, a row is one command away from
  a legal document that was read before, so it is legal. The invariant adds that working
  copies are legal. `StoredPaymentIsAuthorised` follows: a lost update can take away a command,
  and still no stored document pays without both parties behind it.
* `UncontendedIsNeverLost`: with the invariants that `alone` is exclusive and that the row and
  every copy taken of it carry each such command.
* `StoreTypeCorrect`, and `PatientClientsLoseNothing`: with a patient client and one command at a
  time, a command under way is the only one, because the number of waiting clients bounds the
  number of calls under way (`PatientClientsAreAlone`). So it is never overlapped, and what was
  acknowledged is in the row. `PatientSessionIsAtomic` is the refinement from the same lemma: the step that
  writes carries out one command of a document nobody else has touched since it was read; every
  other step leaves what the document is alone.
* `PatientJourneys` and `PatientRowsUndoNothing`: what a patient visitor finds in the row implements
  `ClaimJourney` too, and only the write of the visitor's own reset undoes anything. Both rest on the copy in hand
  being the row still (`PatientInv`), so that a write is one command of the row it replaces; overlapping clients have
  neither.
* `QuestionsOnlyRead`: every behaviour with questions is one of the session.
  `AnswersAreFromTheRecord`: at most one question has a mounted component, and it is the one asked last.
* `FileAlwaysInOrder` (`EcrFileProofs`): the invariant of the payroll file. `VerdictStaysCurrent`
  is part of it, and needs that validation is idempotent (`ValidationSettles`): the verdict on a
  row depends on which rows before it are excluded, and validation excludes none. From it
  `NoUanIsPaidTwice` (a challan needs clear rows, and clear rows of one UAN would make the
  later one a duplicate), `PassbookIsFaithful`, and the action property `ChallanIsFinal`
  (every revalidation asks for a state that a challan's state does not allow).
* `FilingPageGoesOn`: for each row in issue a correction that settles it and changes no row before
  it. `PaymentIsVisible`: the month a file pays is healthy in every view and takes no other
  month's attention away. `RealWagesEarn`, `CeilingBitesOnce`, `SplitAddsUp`: the arithmetic of the
  shares for every wage, the rounding and the ceiling included.
* `LedgerAlwaysInOrder` (`PfLedgerProofs`): `TypeOK`, `AdvanceIsCovered` and `BooksAgree` are
  inductive only together: the balance stays a natural because the advance is covered, the
  advance stays covered because only its own credit takes from the balance, and the transfer
  finds its money because of the books. `LedgerImplementsAccount`: every step is a payment of a
  source that had not paid, a withdrawal the sum covers, or invisible.
* `PagesAlwaysGoOn` (`PfLedgerProofs`): `LedgerPagesGoOn` for all amounts, rounding included: what the
  form sends is accepted exactly up to the maximum, so the amount it opens with is refused where rounding
  lifted it above. It states acceptance by the services' guards themselves and not by `ENABLED`.
* `VisitorInOrder` (`ProxyGateProofs`), for any number of tabs and under `FirstAlone`: before there
  is a session nothing was shown and at most one request is out, after that every answer under
  way is about it. `VisitorHasOneScenario` follows. `RoleFollowsPage`: while one tab is used, what is under way
  and what is shown agree with the role cookie. The premise is necessary: `parallel_first`.
* `TourIsTheWorkflow` (`JudgeTourProofs`): every step of the composition is one of the workflow or
  leaves it alone, so all of `ResolutionWorkflowProofs` holds under the walkthrough.
  `TourTypeCorrect`; `RailNeverBehind` needs only that the cookie holds a step. It says where a tick comes from,
  and not that the data supports it: `rail_claims_more`. `TicksStay` needs the workflow: a
  command that is neither a reset nor the judge's click leaves the records alone, or removes a
  defect while the claim is a draft, or moves the claim on from a state that is not the last
  (`JourneyStep`), so no signal goes out and the latest step reached only grows.

The books agree about every rupee they record; the settlement is what they do not record (§5).

Liveness. The prover cannot see through `ENABLED`, so it cannot use `WF_vars(A)`. The theorems below write
the same fairness with A's guard G spelled out: `[]<>~G \/ []<><<A>>_vars`, or the same as `[]([]G => <><<A>>_vars)`, for weak
fairness, `[]([]<>G => <><<A>>_vars)` for strong (`[]` and a quantifier over actions commute). They are about the
behaviours of the runs' `FairSpec` if G holds exactly when `<<A>>_vars` is `ENABLED`: evaluated by TLC
as an invariant, the two agree in every reachable state of the runs' instances. Each proof is the
chain of stages the code goes through, with one lemma for what a step may do to a stage and one for what leaves it.

* `TransfersComplete` (`PfLedgerProofs`): the five steps follow one another, whatever advances,
  contributions and settlements come between; the books make sure the last one finds its money.
* `ChallansReachThePassbook` (`EcrFileProofs`): nothing takes a challan back or the member's line away, and
  the payment is posted once. A nonempty set of lines has a first one (`SomeRowIsFirst`), which the payment needs.
* `CallsAreAnswered` and `QuestionsAreAnswered` (`SessionStoreProofs`): for any number of calls, visitors and
  questions, with nothing assumed of clients or of the model.
* `EveryTabSettles` (`ProxyGateProofs`), for any number of tabs, with `FirstAlone` and at least one session id to
  mint. While nobody changes role or walkthrough, one redirect at most leads to a page the role admits; before
  there is a session the one answer under way either comes or fails, and then the next tab may ask.
* `JourneySettles` (`ResolutionWorkflowProofs`), for one missing exit and one legacy exception, as the fixtures
  create them, and any employment records, other requests and request ids (at least one is free). The exit goes
  through its two commands; the legacy issue may go between reviewer and member any number of times, and
  strong fairness of the approval ends that; with both closed the invariant says the claim is no draft, and
  it walks its sequence. It ends credited, or a request is rejected, or the scenario is reset again and again: the
  code bounds no resets, the run does (`MaxResets`).

Only model-checked, or open: that the guards above are the actions' `ENABLED`; `SettlesUnlessRejected` with several issues
of a kind, because "each is closed, so all are" is an induction over a finite set of temporal facts, which the prover
cannot do; and the step from a bound on resets to their end, for the same reason.

## 5. Findings

1. `lost_update`: two overlapping commands of one visitor are both answered with success and
   one is lost (`application/session.ts:107`). Nothing is corrupted: `StoredLegal` holds.
2. `request_before_exit`: the employer request can precede Mark Exit and then claims a
   member-completed exit record (`adapters/employer-workflow-adapter.ts:101`).
3. `ecr_stuck`: the payment of a clear file without a line for the shared member can be started
   but never confirmed, and nothing leads back (`application/experience-v2-service.ts:447`).
4. `ecr_paid_twice`: a row keeps the member id of a UAN it no longer carries, so one member can
   be on two payable lines (`domain/ecr-engine.ts:162`). The UANs differ: `EachUanPaidOnce` holds.
5. `parallel_first`: two requests sent without a session cookie each mint an id; the later cookie
   wins, and what was done under the other id can no longer be reached (`proxy.ts:27`).
6. `rail_claims_more`: the walkthrough ticks every step before the rail's, and a click moves the rail
   anywhere, so a judge who clicks ahead sees "RESOLVE" steps ticked that the data does not support
   (`domain/judge-tour.ts:162`). The README of the repository (lines 220-221) says that nothing a judge
   does can make the rail claim more progress than the data supports. A reset, which keeps the
   cookie, and steps done out of order do the same. What holds is `RailShowsWhatIsDone`: never less than the data, and
   beyond it only what was clicked past or what a finished step follows.

Not findings, but worth knowing. A rejection ends the journey: `ISSUE_TRANSITIONS` would let an
escalated issue go back, but no command does it (`OnlyResetUndoes` states that). Choosing a
purpose again replaces an advance that is already with EPFO (`setAdvanceGoal`, which looks at no
state; the page hides the picker then, a tab opened before does not): `SetAdvanceGoal` of
`PfLedger` has the step, and its properties show that no money goes wrong by it. The credit of the
settlement debits no balance, while an advance does (`adapters/mock-claim-processor-adapter.ts:44`): whoever
takes an advance and then settles is paid more than the account held. `CreditSettlement` of `PfLedger` is that
step; no document says which amount should be paid. A sign-out
leaves the walkthrough's cookie, so a page under way may sign its visitor in again.

What writing the pages down showed (none of it breaks a property, a stated promise or a test, so
none is a finding):

* The issue page's "Who is acting now" falls back to the route's responsible party
  (`issues/[issueId]/page.tsx:35`), so on a legacy record it names the employer before a request is sent,
  while more information is asked of the member, and after a rejection; the
  employer's own page names the member while information is asked (`employer/requests/[requestId]/page.tsx:27`). No document or test says
  what the line should read, so `OneSideHasTheTurn` states it as it is. After a
  rejection "Member action now" and "What happens next" name an action although nothing can be sent any more.
* The Mark Exit page says readiness moved to "6 of 7" whatever was approved before
  (`manage/mark-exit/page.tsx:30`), and the preflight page speaks of "both actions" with one left
  (`withdraw/preflight/page.tsx:117`).
* The filing page offers "Re-run validation" after a challan, where it is refused, and the
  confirmation of a payment that `ecr_stuck` shows cannot be confirmed.
* The advance form opens with the maximum rounded to rupees, which may exceed it by up to
  50 paise and is then refused; `LedgerPagesGoOn` allows exactly this. The seeded advance shows its requested
  ₹40,000 under "Maximum eligible amount".
* A wage of less than five paise earns nothing and its month would show as missing
  (`WagesAssumption` excludes it).
* The passbook's explanation of a month has no EPS ceiling, and on a wage that ends in ₹50 its two
  employer shares exceed 12 % by a paisa (`SplitAddsUp`); `docs/POLICY_SOURCES.md:44` keeps the two apart on purpose.
* The facts under an assistant's answer are those of the record read *before* the model was
  asked, although `api/assistant/route.ts:13` speaks of a lookup after classification; a command of
  another tab in these six seconds is not in the answer (`AnswerIsFromTheRecord` says what does
  hold). "Every recorded month matches" goes by the declared status, the passbook by the computed
  one. The previous answer stays on the screen while the next question is pending.

## 6. What is not modelled

* The choice of the store (`repositories/session-store-instance.ts`): made once per process from
  environment variables, with no state and no later step. The stores it chooses between are one
  row per visitor in `SessionStore`.
* One state for `EcrFile` and `PfLedger` together. Their link is one call,
  `postContributionFromEcr`; `PfLedger` takes any posting a file can make, at any moment, so a
  composition would have fewer behaviours, not more.
* The pension projection (`domain/pension.ts`): a closed formula in floating point.
* The activity feed, the system trace and the claim timeline: they put events and wording in
  order, and nothing reads them back.
* The resolution router, the nomination rules and the service catalogue: look-ups without state.
  What the router answers is built into `Resolution` as its issues' kinds.
* The audit events: appended by each command, read by no guard.
* Layout, wording, language and amounts as text, and pages that offer no command.
* Ids, with the exception of the employer requests': two credited advances get one id among the
  past claims, since each advance has the same one, and no command looks a past claim up by it.
