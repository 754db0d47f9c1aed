------------------------------- MODULE AskEpfoOne -------------------------------
(***************************************************************************)
(* The question box beside the commands of the session.  A question reads  *)
(* the visitor's document, leaves the classification to a remote model for *)
(* at most TIMEOUT_MS, and answers from what it read before it asked the   *)
(* model; whatever the model does, the keyword rules stand in for it.      *)
(* Commands of the same visitor go on meanwhile, in this tab or another.   *)
(*                                                                         *)
(* Of the facts under an answer, the readiness line is the one about this  *)
(* module's document.  Amounts, wording, the missing information and the   *)
(* length of a question are left out.                                      *)
(***************************************************************************)
EXTENDS SessionStore

CONSTANTS
  Asker,         \* the visitor who asks
  Questions,     \* each is asked once (bounds the run)
  Matches,       \* [Questions -> intents]: those whose pattern the question matches
  ModelIntents,  \* what the model can make of a question (bounds the run)
  NoQuestion

INTENT_SERVICE ==   \* the page an answer links to
  [UNDERSTAND_CONTRIBUTION |-> "/passbook", FINAL_SETTLEMENT |-> "/withdraw",
   PF_ADVANCE |-> "/advance", TRANSFER_AFTER_JOB_CHANGE |-> "/transfer",
   PENSION_ESTIMATE |-> "/pension", CLAIM_STATUS |-> "/claims",
   UPDATE_ACCOUNT_DETAILS |-> "/manage", ACCOUNT_GUIDANCE |-> "/online-services"]

ASSISTANT_INTENTS == DOMAIN INTENT_SERVICE

KEYWORD_RULES ==
  << "TRANSFER_AFTER_JOB_CHANGE", "PF_ADVANCE", "PENSION_ESTIMATE", "UNDERSTAND_CONTRIBUTION",
     "FINAL_SETTLEMENT", "UPDATE_ACCOUNT_DETAILS", "CLAIM_STATUS" >>

ASSUME QuestionsAssumption ==
  /\ Asker \in Visitors /\ NoQuestion \notin Questions
  /\ ModelIntents \subseteq ASSISTANT_INTENTS
  /\ Matches \in [Questions -> SUBSET {KEYWORD_RULES[n] : n \in 1..7}]

VARIABLES
  ask,      \* [Questions -> question record]
  panel     \* what the component shows: [pending, asked, answer]

askVars == << ask, panel >>

Response ==
  [href : {INTENT_SERVICE[intent] : intent \in ASSISTANT_INTENTS},
   facts : SUBSET SUBSET {"exit", "legacy"}, source : {"MODEL", "DETERMINISTIC"}]

NoAnswer == [error |-> FALSE]
Failed == [error |-> TRUE]

\* to and held: history, the question and what its record was.
AnswerRecord ==
  [response : Response, to : Questions, held : SUBSET SUBSET {"exit", "legacy"}]

\* mounted: the component that asked still waits.  read: the readiness the request found.
\* held: history, what the readiness was from the click to that read.
Unasked == [stage |-> "NONE", mounted |-> FALSE, read |-> {}, held |-> {}, reply |-> NoAnswer]

Ended == [Unasked EXCEPT !.stage = "ENDED"]

QuestionRecord ==
  [stage : {"NONE", "SENT", "CLASSIFYING", "REPLIED", "ENDED"}, mounted : BOOLEAN,
   read : SUBSET {"exit", "legacy"}, held : SUBSET SUBSET {"exit", "legacy"},
   reply : AnswerRecord \cup {NoAnswer}]

Empty == [pending |-> FALSE, asked |-> NoQuestion, answer |-> NoAnswer]

\* Variants with the suffix _Bug are the mistakes the properties are tried on.

-----------------------------------------------------------------------------
(* Classification and facts. *)

\* The first rule that matches.
ClassifyByKeyword(q) ==
  LET hits == {n \in 1..Len(KEYWORD_RULES) : KEYWORD_RULES[n] \in Matches[q]}
  IN  IF hits = {} THEN "ACCOUNT_GUIDANCE"
      ELSE KEYWORD_RULES[CHOOSE n \in hits : \A m \in hits : n <= m]

\* The readiness checks that pass and that a command can change.
Readiness(d) ==
  {c \in {"exit", "legacy"} : IF c = "exit" THEN ExitRecorded(d) ELSE LegacyAligned(d)}

FactsFor(intent, readiness) == IF intent = "FINAL_SETTLEMENT" THEN {readiness} ELSE {}

ResolveAssistantResponse(intent, source, readiness) ==
  [href |-> INTENT_SERVICE[intent], facts |-> FactsFor(intent, readiness), source |-> source]

-----------------------------------------------------------------------------
(* The component. *)

ReadinessNow == Readiness(Usable(row[Asker]))

Sent == [stage |-> "SENT", mounted |-> TRUE, read |-> {}, held |-> {ReadinessNow},
         reply |-> NoAnswer]

Ask_Bug(q) ==   \* the form stays enabled while a question is pending
  /\ ask[q].stage = "NONE"
  /\ ask' = [ask EXCEPT ![q] = Sent]
  /\ panel' = [panel EXCEPT !.pending = TRUE, !.asked = q,
                            !.answer = IF @ = Failed THEN NoAnswer ELSE @]

\* The form and the examples are disabled while a question is pending; the previous
\* answer stays in sight, a previous error does not.
Ask(q) ==
  /\ ask[q].stage = "NONE" /\ ~ panel.pending
  /\ ask' = [ask EXCEPT ![q] = Sent]
  /\ panel' = [panel EXCEPT !.pending = TRUE, !.asked = q,
                            !.answer = IF @ = Failed THEN NoAnswer ELSE @]

\* Navigating away unmounts the component: the server goes on, its answer goes nowhere.
Leave ==
  /\ panel # Empty
  /\ panel' = Empty
  /\ ask' = [q \in Questions |-> [ask[q] EXCEPT !.mounted = FALSE]]

\* What the end of a request does to the component that still waits for it.
Settle(q, outcome) ==
  /\ ask' = [ask EXCEPT ![q] = Ended]
  /\ panel' = IF ask[q].mounted
                THEN [panel EXCEPT !.pending = FALSE, !.answer = outcome]
                ELSE panel

AnswerArrives(q) == ask[q].stage = "REPLIED" /\ Settle(q, ask[q].reply)

\* The record cannot be read, or the connection breaks before the answer is through.
QuestionFails(q) == ask[q].stage \in {"SENT", "REPLIED"} /\ Settle(q, Failed)

-----------------------------------------------------------------------------
(* The route. *)

LoadRecord_Bug(q) ==   \* the services of the first request are kept
  /\ ask[q].stage = "SENT"
  /\ ask' = [ask EXCEPT ![q].stage = "CLASSIFYING", ![q].read = Readiness(SeedDocument)]
  /\ UNCHANGED panel

\* loadSession and getSnapshot; then the question goes to the model.
LoadRecord(q) ==
  /\ ask[q].stage = "SENT"
  /\ ask' = [ask EXCEPT ![q].stage = "CLASSIFYING", ![q].read = ReadinessNow]
  /\ UNCHANGED panel

Reply(q, intent, source) ==
  /\ ask[q].stage = "CLASSIFYING"
  /\ ask' = [ask EXCEPT
       ![q].stage = "REPLIED",
       ![q].reply = [response |-> ResolveAssistantResponse(intent, source, ask[q].read),
                     to |-> q, held |-> ask[q].held],
       ![q].read = {}, ![q].held = {}]
  /\ UNCHANGED panel

ModelReplies(q) == \E intent \in ModelIntents : Reply(q, intent, "MODEL")

TimeOut_Bug(q) ==   \* the aborted call rejects the request
  /\ ask[q].stage = "CLASSIFYING"
  /\ Settle(q, Failed)

\* There is no key, the reply is refused, malformed or lost, or the timer aborts the
\* call: in each case the keyword rules answer.
TimeOut(q) == Reply(q, ClassifyByKeyword(q), "DETERMINISTIC")

-----------------------------------------------------------------------------

AskStep(q) == Ask(q) \/ LoadRecord(q) \/ ModelReplies(q) \/ TimeOut(q)
                \/ AnswerArrives(q) \/ QuestionFails(q)

\* The session's own steps, seen by the questions that have not been read for yet.
SessionStep ==
  /\ Next
  /\ ask' = [q \in Questions |->
       IF ask[q].stage = "SENT"
         THEN [ask[q] EXCEPT !.held = @ \cup {ReadinessNow'}]
         ELSE ask[q]]
  /\ UNCHANGED panel

AskInit == Init /\ ask = [q \in Questions |-> Unasked] /\ panel = Empty

AskNext ==
  \/ SessionStep
  \/ ((Leave \/ \E q \in Questions : AskStep(q)) /\ UNCHANGED vars)

AskSpec == AskInit /\ [][AskNext]_<< vars, askVars >>

\* The platform keeps running a request it started, and the timer fires; the model is
\* owed nothing.
AskFairSpec ==
  /\ AskSpec
  /\ \A c \in Calls : WF_vars(ServerStep(c))
  /\ \A q \in Questions :
       /\ WF_askVars(LoadRecord(q) \/ AnswerArrives(q) \/ QuestionFails(q))
       /\ WF_askVars(TimeOut(q))

-----------------------------------------------------------------------------
(* Properties. *)

\* An answer on the screen is to the question asked last, and its readiness line is one the
\* record really had between the click and the answer, whatever commands and resets ran
\* meanwhile: a late answer never replaces a newer one, and no answer is made of an older
\* record.  While a question is pending, the previous answer is still there (the component's
\* disabled form, loadSession per request).
AnswerIsFromTheRecord ==
  panel.answer \notin {NoAnswer, Failed} =>
    /\ panel.answer.response.facts \subseteq panel.answer.held
    /\ panel.answer.to = panel.asked <=> ~ panel.pending

\* Every question is answered: the component stops waiting, and once the record was read
\* the server has an answer, even if the model never replies (groq.ts, "Everything below
\* fails toward that fallback rather than toward an error").
EveryQuestionIsAnswered ==
  \A q \in Questions :
    /\ panel.pending /\ panel.asked = q ~> ~ panel.pending
    /\ ask[q].stage = "CLASSIFYING" ~> ask[q].stage = "REPLIED"
=============================================================================
