---------------------------- MODULE ProxyGateProofs ----------------------------
(* For any number of tabs and session ids: a visitor has one scenario, if the  *)
(* first request is answered before the second is sent.                        *)
EXTENDS ProxyGate, TLAPS

\* While there is a session, every answer under way is about it.
AnswersAgree ==
  jar.session # NoId => \A t \in UnderWay : tab[t].answer.session = jar.session

\* Before there is one, nothing was shown and nothing done.
BeforeTheSession ==
  jar.session = NoId =>
    /\ worked = {}
    /\ \A t \in Tabs : tab[t].page = Blank
    /\ \A t, u \in UnderWay : t = u

Inv == TypeOK /\ OneScenario /\ AnswersAgree /\ BeforeTheSession

AnswerOf(kind, page, rail, session, role, tour) ==
  [kind |-> kind, page |-> page, rail |-> rail, session |-> session, role |-> role, tour |-> tour]

\* The id of a request is one of the ids, and the one in the jar if there is one.
LEMMA SessionForIsFit ==
  ASSUME TypeOK, NEW id \in SessionFor
  PROVE  id \in SessionIds /\ (jar.session # NoId => id = jar.session)
  BY DEF SessionFor, TypeOK

\* No two kinds of answer are confused.
LEMMA AnswerIsAnswer == NoAnswer \notin Answer
  BY DEF NoAnswer, Answer

\* A page the proxy lets a request end at is a page, whoever asks for it.
LEMMA GatedIsPage ==
  ASSUME TypeOK, NEW page \in Pages
  PROVE  Gated(page) \in Pages
  BY DEF Gated, TypeOK, Pages, Roles, ROLE_HOME, NoRole

LEMMA RoleInStepIsChange ==
  ASSUME NEW page \in Pages
  PROVE  RoleInStep(page) \in Roles \cup {"KEPT", "CLEARED"}
  <1>1. CASE page \in {"HOME", "EMPLOYER"}
    BY <1>1 DEF RoleInStep, Persona, Roles
  <1>2. CASE page \notin {"HOME", "EMPLOYER"}
    BY <1>2 DEF RoleInStep, Persona
  <1> QED
    BY <1>1, <1>2

\* A step that puts one answer under way, in the session of the request, keeps the
\* visitor in one scenario.
LEMMA SendingKeepsInv ==
  ASSUME Inv, NEW t \in Tabs, NEW id \in SessionFor, NEW answer \in Answer,
         NEW next \in Pages \cup {Blank},
         answer.session = id,
         tab' = [tab EXCEPT ![t].next = next, ![t].answer = answer],
         jar' = jar,
         jar.session = NoId => UnderWay = {} /\ worked' = {},
         worked' \subseteq worked \cup {id}, opened' = opened
  PROVE  Inv'
  <1>1. id \in SessionIds /\ (jar.session # NoId => id = jar.session)
    BY SessionForIsFit DEF Inv
  <1>2. /\ tab \in [Tabs -> [page : Pages \cup {Blank}, rail : BOOLEAN,
                              next : Pages \cup {Blank}, answer : Answer \cup {NoAnswer}]]
        /\ jar \in [session : SessionIds \cup {NoId}, role : Roles \cup {NoRole}, tour : BOOLEAN]
        /\ worked \subseteq SessionIds /\ opened \subseteq Tabs
    BY DEF Inv, TypeOK
  <1>3. tab' = [tab EXCEPT ![t] = [tab[t] EXCEPT !.next = next, !.answer = answer]]
    BY <1>2
  <1>4. \A u \in Tabs : /\ tab'[u].page = tab[u].page
                        /\ tab'[u].answer = IF u = t THEN answer ELSE tab[u].answer
    BY <1>2, <1>3
  <1>5. TypeOK'
    BY <1>1, <1>2, <1>3 DEF TypeOK
  <1>6. UnderWay' \subseteq UnderWay \cup {t}
    BY <1>4 DEF UnderWay
  <1>7. OneScenario'
    BY <1>1 DEF Inv, OneScenario
  <1>8. AnswersAgree'
    BY <1>1, <1>4, <1>6 DEF Inv, AnswersAgree, UnderWay
  <1>9. BeforeTheSession'
    BY <1>4, <1>6 DEF Inv, BeforeTheSession
  <1> QED
    BY <1>5, <1>7, <1>8, <1>9 DEF Inv

\* A command comes from a page, so there is a session already.
LEMMA CommandKeepsInv ==
  ASSUME Inv, NEW t \in Tabs, NEW pages \in SUBSET Pages,
         NEW role \in Roles \cup {"KEPT", "CLEARED"}, NEW tour \in {"KEPT", "CLEARED", "SET"},
         NEW page \in Pages, Command(t, pages, role, tour, page),
         worked' = worked \/ worked' = worked \cup {tab'[t].answer.session}
  PROVE  Inv'
  <1>1. PICK id \in SessionFor :
          tab' = [tab EXCEPT ![t].answer = AnswerOf("COMMAND", page, FALSE, id, role, tour)]
    BY DEF Command, AnswerOf
  <1>2. id \in SessionIds
    BY SessionForIsFit DEF Inv
  <1>3. AnswerOf("COMMAND", page, FALSE, id, role, tour) \in Answer
    BY <1>2 DEF AnswerOf, Answer
  <1>4. tab \in [Tabs -> [page : Pages \cup {Blank}, rail : BOOLEAN,
                          next : Pages \cup {Blank}, answer : Answer \cup {NoAnswer}]]
    BY DEF Inv, TypeOK
  <1>5. tab' = [tab EXCEPT ![t].next = tab[t].next,
                           ![t].answer = AnswerOf("COMMAND", page, FALSE, id, role, tour)]
    BY <1>1, <1>4
  <1>6. tab'[t].answer.session = id
    BY <1>1, <1>4 DEF AnswerOf
  <1>7. Blank \notin Pages
    BY DEF Blank, Pages
  <1>8. jar.session # NoId
    BY <1>7 DEF Command, Inv, BeforeTheSession
  <1>9. tab[t].next \in Pages \cup {Blank} /\ jar' = jar /\ opened' = opened
    BY <1>4 DEF Command
  <1> QED
    BY <1>3, <1>5, <1>6, <1>8, <1>9, SendingKeepsInv DEF AnswerOf

\* A step that clears one answer and shows nothing new keeps the invariant.
LEMMA ClearingKeepsInv ==
  ASSUME Inv, NEW t \in Tabs,
         NEW shown \in [page : Pages \cup {Blank}, rail : BOOLEAN,
                        next : Pages \cup {Blank}, answer : {NoAnswer}],
         tab' = [tab EXCEPT ![t] = shown],
         jar.session = NoId => shown.page = Blank,
         jar' = jar, worked' = worked, opened' \subseteq Tabs
  PROVE  Inv'
  <1>1. tab \in [Tabs -> [page : Pages \cup {Blank}, rail : BOOLEAN,
                          next : Pages \cup {Blank}, answer : Answer \cup {NoAnswer}]]
    BY DEF Inv, TypeOK
  <1>2. TypeOK'
    BY <1>1 DEF Inv, TypeOK
  <1>3. UnderWay' \subseteq UnderWay /\ t \notin UnderWay'
    BY <1>1 DEF UnderWay
  <1>4. \A u \in UnderWay' : tab'[u] = tab[u]
    BY <1>1, <1>3 DEF UnderWay
  <1>5. \A u \in Tabs : u # t => tab'[u] = tab[u]
    BY <1>1
  <1>6. OneScenario'
    BY DEF Inv, OneScenario
  <1>7. AnswersAgree'
    BY <1>3, <1>4 DEF Inv, AnswersAgree
  <1>8. BeforeTheSession'
    BY <1>1, <1>3, <1>5 DEF Inv, BeforeTheSession
  <1> QED
    BY <1>2, <1>6, <1>7, <1>8 DEF Inv

LEMMA DeliverKeepsInv ==
  ASSUME Inv, NEW t \in Tabs, Deliver(t)
  PROVE  Inv'
  <1> DEFINE answer == tab[t].answer
  <1>1. /\ tab \in [Tabs -> [page : Pages \cup {Blank}, rail : BOOLEAN,
                             next : Pages \cup {Blank}, answer : Answer \cup {NoAnswer}]]
        /\ jar \in [session : SessionIds \cup {NoId}, role : Roles \cup {NoRole}, tour : BOOLEAN]
    BY DEF Inv, TypeOK
  <1>2. t \in UnderWay
    BY DEF Deliver
  <1>3. answer \in Answer
    BY <1>1, <1>2 DEF UnderWay
  <1>4. /\ answer.page \in Pages /\ answer.rail \in BOOLEAN /\ answer.session \in SessionIds
        /\ answer.role \in Roles \cup {"KEPT", "CLEARED"}
    BY <1>3 DEF Answer
  <1>5. PICK shown \in [page : Pages \cup {Blank}, rail : BOOLEAN,
                        next : Pages \cup {Blank}, answer : {NoAnswer}] :
          tab' = [tab EXCEPT ![t] = shown]
    <2>1. CASE answer.kind = "PAGE"
      <3>1. [page |-> answer.page, rail |-> answer.rail, next |-> Blank, answer |-> NoAnswer]
              \in [page : Pages \cup {Blank}, rail : BOOLEAN,
                   next : Pages \cup {Blank}, answer : {NoAnswer}]
        BY <1>4
      <3> QED
        BY <2>1, <3>1 DEF Deliver
    <2>2. CASE answer.kind # "PAGE"
      <3>1. [tab[t] EXCEPT !.next = answer.page, !.answer = NoAnswer]
              \in [page : Pages \cup {Blank}, rail : BOOLEAN,
                   next : Pages \cup {Blank}, answer : {NoAnswer}]
        BY <1>1, <1>4
      <3> QED
        BY <2>2, <3>1, <1>1 DEF Deliver
    <2> QED
      BY <2>1, <2>2
  <1>6. Applied(jar.role, answer.role) \in Roles \cup {NoRole}
    BY <1>1, <1>4 DEF Applied, Roles, NoRole
  <1>7. jar' \in [session : SessionIds \cup {NoId}, role : Roles \cup {NoRole}, tour : BOOLEAN]
        /\ jar'.session = answer.session
    BY <1>1, <1>4, <1>6 DEF Deliver
  <1>8. TypeOK'
    BY <1>1, <1>5, <1>7 DEF Inv, TypeOK, Deliver
  <1>9. UnderWay' \subseteq UnderWay /\ t \notin UnderWay'
    BY <1>1, <1>5 DEF UnderWay
  <1>10. \A u \in UnderWay' : tab'[u].answer = tab[u].answer
    BY <1>1, <1>5, <1>9 DEF UnderWay
  <1>11. jar'.session # NoId
    BY <1>4, <1>7, VisitorAssumption
  <1>12. jar.session # NoId => answer.session = jar.session
    BY <1>2 DEF Inv, AnswersAgree
  <1>13. OneScenario'
    BY <1>7, <1>12 DEF Inv, OneScenario, BeforeTheSession, Deliver
  <1>14. AnswersAgree'
    BY <1>2, <1>7, <1>9, <1>10, <1>12 DEF Inv, AnswersAgree, BeforeTheSession
  <1>15. BeforeTheSession'
    BY <1>11 DEF BeforeTheSession
  <1> QED
    BY <1>8, <1>13, <1>14, <1>15 DEF Inv

LEMMA FetchKeepsInv ==
  ASSUME FirstAlone = TRUE, Inv, NEW t \in Tabs, Fetch(t)
  PROVE  Inv'
  <1> DEFINE page == tab[t].next
             AnswerIn(id) ==
               AnswerOf(IF Passes(page) THEN "PAGE" ELSE "REDIRECT", Gated(page),
                        jar.tour /\ page # "LOGIN", id, RoleInStep(page), "KEPT")
  <1>1. PICK id \in SessionFor :
          tab' = [tab EXCEPT ![t].next = Blank, ![t].answer = AnswerIn(id)]
    BY DEF Fetch, AnswerOf
  <1>2. page \in Pages
    BY DEF Fetch, Inv, TypeOK
  <1>3. id \in SessionIds
    BY SessionForIsFit DEF Inv
  <1>4. jar.tour \in BOOLEAN
    BY DEF Inv, TypeOK
  <1>5. AnswerIn(id) \in Answer
    BY <1>2, <1>3, <1>4, GatedIsPage, RoleInStepIsChange DEF AnswerOf, Answer, Inv
  <1>6. AnswerIn(id).session = id
    BY DEF AnswerOf
  <1>7. jar.session = NoId => UnderWay = {} /\ worked' = {}
    BY DEF Fetch, Inv, BeforeTheSession
  <1>8. jar' = jar /\ worked' = worked /\ opened' = opened
    BY DEF Fetch
  <1> QED
    BY <1>1, <1>5, <1>6, <1>7, <1>8, SendingKeepsInv

-----------------------------------------------------------------------------

LEMMA InitInv == ASSUME Init PROVE Inv
  <1>1. TypeOK
    BY DEF Init, TypeOK
  <1>2. OneScenario /\ AnswersAgree
    BY DEF Init, OneScenario, AnswersAgree
  <1>3. UnderWay = {}
    BY DEF Init, UnderWay
  <1>4. BeforeTheSession
    BY <1>3 DEF Init, BeforeTheSession
  <1> QED
    BY <1>1, <1>2, <1>4 DEF Inv

LEMMA NextInv ==
  ASSUME FirstAlone = TRUE, Inv, [Next]_vars
  PROVE  Inv'
  <1> USE DEF Pages, Roles
  <1>1. ASSUME NEW t \in Tabs, NEW page \in Pages, Open(t, page) PROVE Inv'
    <2>1. tab \in [Tabs -> [page : Pages \cup {Blank}, rail : BOOLEAN,
                            next : Pages \cup {Blank}, answer : Answer \cup {NoAnswer}]]
      BY DEF Inv, TypeOK
    <2>2. [tab[t] EXCEPT !.next = page]
            \in [page : Pages \cup {Blank}, rail : BOOLEAN,
                 next : Pages \cup {Blank}, answer : {NoAnswer}]
          /\ tab' = [tab EXCEPT ![t] = [tab[t] EXCEPT !.next = page]]
      BY <1>1, <2>1 DEF Open, Quiet
    <2>3. [tab[t] EXCEPT !.next = page].page = tab[t].page
      BY <2>1
    <2>4. jar' = jar /\ worked' = worked /\ opened' \subseteq Tabs
      BY <1>1 DEF Open, Inv, TypeOK
    <2>5. jar.session = NoId => tab[t].page = Blank
      BY DEF Inv, BeforeTheSession
    <2> QED
      BY <2>2, <2>3, <2>4, <2>5, ClearingKeepsInv
  <1>2. ASSUME NEW t \in Tabs, Login(t) PROVE Inv'
    <2>1. PICK role \in Roles, page \in Pages : Command(t, {"LOGIN"}, role, "KEPT", page)
      BY <1>2 DEF Login, Destinations, ROLE_HOME
    <2> QED
      BY <1>2, <2>1, CommandKeepsInv DEF Login
  <1>3. ASSUME NEW t \in Tabs, Logout(t) PROVE Inv'
    BY <1>3, CommandKeepsInv DEF Logout
  <1>4. ASSUME NEW t \in Tabs, StartTour(t) PROVE Inv'
    BY <1>4, CommandKeepsInv DEF StartTour
  <1>5. ASSUME NEW t \in Tabs, GoToStep(t) PROVE Inv'
    <2>1. PICK role \in Roles :
            Command(t, {"HOME", "EMPLOYER", "DEMO"}, role, "SET", ROLE_HOME[role])
      BY <1>5 DEF GoToStep
    <2>2. ROLE_HOME[role] \in Pages
      BY DEF ROLE_HOME
    <2> QED
      BY <1>5, <2>1, <2>2, CommandKeepsInv DEF GoToStep
  <1>6. ASSUME NEW t \in Tabs, ExitTour(t) PROVE Inv'
    BY <1>6, CommandKeepsInv DEF ExitTour
  <1>7. ASSUME NEW t \in Tabs, Work(t) PROVE Inv'
    <2>1. tab[t].page \in Pages
      BY <1>7 DEF Work, Command
    <2>2. Command(t, {"HOME", "EMPLOYER", "DEMO"}, "KEPT", "KEPT", tab[t].page)
          /\ worked' = worked \cup {tab'[t].answer.session}
      BY <1>7 DEF Work
    <2> QED
      BY <2>1, <2>2, CommandKeepsInv
  <1>8. ASSUME NEW t \in Tabs, Fetch(t) PROVE Inv'
    BY <1>8, FetchKeepsInv
  <1>9. ASSUME NEW t \in Tabs, Deliver(t) PROVE Inv'
    BY <1>9, DeliverKeepsInv
  <1>10. ASSUME NEW t \in Tabs, Lose(t) PROVE Inv'
    <2>1. tab \in [Tabs -> [page : Pages \cup {Blank}, rail : BOOLEAN,
                            next : Pages \cup {Blank}, answer : Answer \cup {NoAnswer}]]
      BY DEF Inv, TypeOK
    <2>2. jar' = jar /\ worked' = worked /\ opened' \subseteq Tabs
      BY <1>10 DEF Lose, Inv, TypeOK
    <2>3. CASE tab[t].answer.kind = "COMMAND"
      <3>1. /\ [tab[t] EXCEPT !.answer = NoAnswer]
                 \in [page : Pages \cup {Blank}, rail : BOOLEAN,
                      next : Pages \cup {Blank}, answer : {NoAnswer}]
            /\ tab' = [tab EXCEPT ![t] = [tab[t] EXCEPT !.answer = NoAnswer]]
        BY <1>10, <2>1, <2>3 DEF Lose
      <3>2. [tab[t] EXCEPT !.answer = NoAnswer].page = tab[t].page
        BY <2>1
      <3>3. jar.session = NoId => tab[t].page = Blank
        BY DEF Inv, BeforeTheSession
      <3> QED
        BY <2>2, <3>1, <3>2, <3>3, ClearingKeepsInv
    <2>4. CASE tab[t].answer.kind # "COMMAND"
      <3> DEFINE shown == [page |-> Blank, rail |-> FALSE, next |-> Blank, answer |-> NoAnswer]
      <3>1. tab' = [tab EXCEPT ![t] = shown]
        BY <1>10, <2>1, <2>4 DEF Lose
      <3>2. shown.page = Blank
        OBVIOUS
      <3>3. shown \in [page : Pages \cup {Blank}, rail : BOOLEAN,
                       next : Pages \cup {Blank}, answer : {NoAnswer}]
        OBVIOUS
      <3> QED
        BY <2>2, <3>1, <3>2, <3>3, ClearingKeepsInv
    <2> QED
      BY <2>3, <2>4
  <1>11. CASE Expire
    <2>1. jar'.session = jar.session /\ tab' = tab /\ worked' = worked
      BY <1>11 DEF Expire, Inv, TypeOK
    <2>2. TypeOK'
      BY <1>11 DEF Expire, Inv, TypeOK
    <2>3. UnderWay' = UnderWay
      BY <2>1 DEF UnderWay
    <2> QED
      BY <2>1, <2>2, <2>3 DEF Inv, OneScenario, AnswersAgree, BeforeTheSession
  <1>12. CASE UNCHANGED vars
    <2>1. UnderWay' = UnderWay
      BY <1>12 DEF vars, UnderWay
    <2> QED
      BY <1>12, <2>1 DEF vars, Inv, TypeOK, OneScenario, AnswersAgree, BeforeTheSession
  <1> QED
    BY <1>1, <1>2, <1>3, <1>4, <1>5, <1>6, <1>7, <1>8, <1>9, <1>10, <1>11, <1>12 DEF Next

\* The inductive invariant of one visitor's browser, whatever the number of tabs.
THEOREM VisitorInOrder == FirstAlone = TRUE => (Spec => []Inv)
  <1> SUFFICES ASSUME FirstAlone = TRUE PROVE Spec => []Inv
    OBVIOUS
  <1>1. Init => Inv
    BY InitInv
  <1>2. Inv /\ [Next]_vars => Inv'
    BY NextInv
  <1> QED
    BY <1>1, <1>2, PTL DEF Spec

\* Cookies, tabs and answers under way keep their shape (proxy.ts, lib/auth.ts).
THEOREM VisitorTypeCorrect == FirstAlone = TRUE => (Spec => []TypeOK)
  <1> SUFFICES ASSUME FirstAlone = TRUE PROVE Spec => []TypeOK
    OBVIOUS
  <1>1. Inv => TypeOK
    BY DEF Inv
  <1> QED
    BY <1>1, VisitorInOrder, PTL

\* Whatever is signed in, walked through, redirected, lost or expired in any number
\* of tabs: everything the visitor did is in the scenario their cookie names.
THEOREM VisitorHasOneScenario == FirstAlone = TRUE => (Spec => []OneScenario)
  <1> SUFFICES ASSUME FirstAlone = TRUE PROVE Spec => []OneScenario
    OBVIOUS
  <1>1. Inv => OneScenario
    BY DEF Inv
  <1> QED
    BY <1>1, VisitorInOrder, PTL

-----------------------------------------------------------------------------
(* One tab: the role cookie is that of the page shown. *)

Matches(page, role) == page \in DOMAIN Persona /\ role # NoRole => Persona[page] = role

\* A tab at rest, or one whose command can still get lost, shows a page of the role in the
\* jar; a page under way is one of the role its own answer will leave there.
TabInStep(t) ==
  /\ Quiet(t) \/ tab[t].answer.kind = "COMMAND" => Matches(tab[t].page, jar.role)
  /\ tab[t].answer.kind = "PAGE" =>
       Matches(tab[t].answer.page, Applied(jar.role, tab[t].answer.role))

Unopened == \A t \in Tabs : t \notin opened => tab[t].page = Blank /\ Quiet(t)

OneTabInStep == \A t \in Tabs : opened \subseteq {t} => TabInStep(t)

RoleInv == Inv /\ Unopened /\ OneTabInStep

TabRecord ==
  [page : Pages \cup {Blank}, rail : BOOLEAN, next : Pages \cup {Blank},
   answer : Answer \cup {NoAnswer}]

\* A step of one tab that was opened before has that tab's promise to keep, and no other's.
LEMMA ActingTabOnly ==
  ASSUME RoleInv, NEW t \in Tabs, t \in opened, NEW shown,
         tab' = [tab EXCEPT ![t] = shown], opened' = opened,
         TabInStep(t) => TabInStep(t)'
  PROVE  Unopened' /\ OneTabInStep'
  <1>1. \A u \in Tabs : u # t => tab'[u] = tab[u]
    BY DEF RoleInv, Inv, TypeOK
  <1>2. Unopened'
    BY <1>1 DEF RoleInv, Unopened, Quiet
  <1>3. ASSUME NEW u \in Tabs, opened' \subseteq {u} PROVE TabInStep(u)'
    BY <1>3 DEF RoleInv, OneTabInStep
  <1> QED BY <1>2, <1>3 DEF OneTabInStep

\* A command leaves the page and the cookies as they are until it is answered.
LEMMA CommandKeepsRole ==
  ASSUME RoleInv, NEW t \in Tabs, NEW pages \in SUBSET Pages, NEW role, NEW tour, NEW page,
         Command(t, pages, role, tour, page)
  PROVE  Unopened' /\ OneTabInStep'
  <1>1. tab \in [Tabs -> TabRecord]
    BY DEF RoleInv, Inv, TypeOK, TabRecord
  <1>2. PICK id \in SessionFor :
          tab' = [tab EXCEPT ![t].answer = AnswerOf("COMMAND", page, FALSE, id, role, tour)]
    BY DEF Command, AnswerOf
  <1> DEFINE shown == [tab[t] EXCEPT !.answer = AnswerOf("COMMAND", page, FALSE, id, role, tour)]
  <1>3. tab' = [tab EXCEPT ![t] = shown] /\ opened' = opened /\ jar' = jar /\ Quiet(t)
    BY <1>1, <1>2 DEF Command
  <1>4. t \in opened
    BY DEF RoleInv, Unopened, Command, Pages, Blank
  <1>5. tab'[t] = shown /\ shown.page = tab[t].page /\ shown.answer.kind = "COMMAND"
    BY <1>1, <1>3 DEF AnswerOf, TabRecord
  <1>6. TabInStep(t) => TabInStep(t)'
    BY <1>3, <1>5 DEF TabInStep
  <1> QED BY <1>3, <1>4, <1>6, ActingTabOnly

\* A page passes the gates only if it is for the role its answer leaves in the jar.
LEMMA PassedPageMatches ==
  ASSUME TypeOK, NEW page \in Pages, Passes(page)
  PROVE  Gated(page) = page /\ Matches(page, Applied(jar.role, RoleInStep(page)))
  <1>1. jar.role \in Roles \cup {NoRole}
    BY DEF TypeOK
  <1>2. DOMAIN Persona = {"HOME", "EMPLOYER"} /\ Persona["HOME"] = "member"
          /\ Persona["EMPLOYER"] = "employer"
    BY DEF Persona
  <1>3. CASE page \notin {"HOME", "EMPLOYER"}
    BY <1>2, <1>3 DEF Matches, Gated
  <1>4. CASE page \in {"HOME", "EMPLOYER"} /\ jar.tour
    BY <1>1, <1>2, <1>4 DEF Matches, Gated, RoleInStep, Applied, NoRole, Roles, Passes
  <1>5. CASE page \in {"HOME", "EMPLOYER"} /\ ~ jar.tour
    BY <1>1, <1>2, <1>5 DEF Matches, Gated, RoleInStep, Applied, NoRole, Roles, Passes
  <1> QED BY <1>3, <1>4, <1>5

LEMMA FetchKeepsRole ==
  ASSUME RoleInv, NEW t \in Tabs, Fetch(t)
  PROVE  Unopened' /\ OneTabInStep'
  <1>1. tab \in [Tabs -> TabRecord]
    BY DEF RoleInv, Inv, TypeOK, TabRecord
  <1> DEFINE page == tab[t].next
             AnswerIn(id) ==
               AnswerOf(IF Passes(page) THEN "PAGE" ELSE "REDIRECT", Gated(page),
                        jar.tour /\ page # "LOGIN", id, RoleInStep(page), "KEPT")
  <1>2. PICK id \in SessionFor :
          tab' = [tab EXCEPT ![t].next = Blank, ![t].answer = AnswerIn(id)]
    BY DEF Fetch, AnswerOf
  <1> DEFINE shown == [tab[t] EXCEPT !.next = Blank, !.answer = AnswerIn(id)]
  <1>3. tab' = [tab EXCEPT ![t] = shown] /\ opened' = opened /\ jar' = jar
    BY <1>1, <1>2 DEF Fetch
  <1>4. t \in opened /\ page \in Pages
    BY <1>1 DEF RoleInv, Unopened, Fetch, Quiet, TabRecord
  <1>5. /\ tab'[t].answer = AnswerIn(id)
        /\ AnswerIn(id).kind = IF Passes(page) THEN "PAGE" ELSE "REDIRECT"
        /\ AnswerIn(id).page = Gated(page) /\ AnswerIn(id).role = RoleInStep(page)
    BY <1>1, <1>3 DEF AnswerOf, TabRecord
  <1>6. ~ Quiet(t)' /\ tab'[t].answer.kind # "COMMAND"
    BY <1>5 DEF Quiet, NoAnswer
  <1>7. Passes(page) => Gated(page) = page /\ Matches(page, Applied(jar.role, RoleInStep(page)))
    BY <1>4, PassedPageMatches DEF RoleInv, Inv
  <1> HIDE DEF page, AnswerIn
  <1>8. TabInStep(t)'
    BY <1>3, <1>5, <1>6, <1>7 DEF TabInStep
  <1> QED BY <1>3, <1>4, <1>8, ActingTabOnly

LEMMA DeliverKeepsRole ==
  ASSUME RoleInv, NEW t \in Tabs, Deliver(t)
  PROVE  Unopened' /\ OneTabInStep'
  <1>1. tab \in [Tabs -> TabRecord]
    BY DEF RoleInv, Inv, TypeOK, TabRecord
  <1> DEFINE answer == tab[t].answer
             shown == IF answer.kind = "PAGE"
                        THEN [page |-> answer.page, rail |-> answer.rail, next |-> Blank,
                              answer |-> NoAnswer]
                        ELSE [tab[t] EXCEPT !.next = answer.page, !.answer = NoAnswer]
  <1>2. /\ tab' = [tab EXCEPT ![t] = shown] /\ opened' = opened
        /\ jar'.role = Applied(jar.role, answer.role)
    BY DEF Deliver
  <1>3. t \in opened /\ answer.page \in Pages
    BY <1>1 DEF RoleInv, Unopened, Deliver, UnderWay, Quiet, TabRecord, Answer
  <1>4. tab'[t] = shown
    BY <1>1, <1>2
  <1>5. NoAnswer.kind = "NONE"
    BY DEF NoAnswer
  <1>6. CASE answer.kind = "PAGE"
    <2>1. tab'[t].page = answer.page /\ tab'[t].answer = NoAnswer
      BY <1>4, <1>6
    <2>2. Matches(answer.page, Applied(jar.role, answer.role))
            \/ ~ TabInStep(t)
      BY <1>6 DEF TabInStep
    <2>3. TabInStep(t) => TabInStep(t)'
      <3> HIDE DEF answer, shown
      <3> QED BY <1>2, <1>5, <2>1, <2>2 DEF TabInStep
    <2> QED BY <1>2, <1>3, <2>3, ActingTabOnly
  <1>7. CASE answer.kind # "PAGE"
    <2>1. tab'[t].next = answer.page /\ tab'[t].answer = NoAnswer
      <3>1. tab[t] \in TabRecord
        BY <1>1
      <3>2. tab'[t] = [tab[t] EXCEPT !.next = answer.page, !.answer = NoAnswer]
        BY <1>4, <1>7
      <3> HIDE DEF answer, shown
      <3> QED BY <3>1, <3>2 DEF TabRecord
    <2>2. ~ Quiet(t)'
      BY <1>3, <2>1 DEF Quiet, Pages, Blank
    <2>3. TabInStep(t)'
      BY <1>5, <2>1, <2>2 DEF TabInStep
    <2> QED BY <1>2, <1>3, <2>3, ActingTabOnly
  <1> HIDE DEF shown
  <1> QED BY <1>2, <1>3, <1>6, <1>7, ActingTabOnly

LEMMA LoseKeepsRole ==
  ASSUME RoleInv, NEW t \in Tabs, Lose(t)
  PROVE  Unopened' /\ OneTabInStep'
  <1>1. tab[t] \in TabRecord /\ tab \in [Tabs -> TabRecord]
    BY DEF RoleInv, Inv, TypeOK, TabRecord
  <1>2. t \in opened /\ opened' = opened /\ jar' = jar
    BY DEF RoleInv, Unopened, Lose, UnderWay, Quiet
  <1>3. CASE tab[t].answer.kind = "COMMAND"
    <2> DEFINE shown == [tab[t] EXCEPT !.answer = NoAnswer]
    <2>1. tab' = [tab EXCEPT ![t] = shown] /\ tab'[t] = shown
      BY <1>1, <1>3 DEF Lose
    <2>2. shown.page = tab[t].page /\ shown.answer.kind = "NONE"
      BY <1>1 DEF TabRecord, NoAnswer
    <2>3. TabInStep(t) => TabInStep(t)'
      BY <1>2, <1>3, <2>1, <2>2 DEF TabInStep
    <2> QED BY <1>2, <2>1, <2>3, ActingTabOnly
  <1>4. CASE tab[t].answer.kind # "COMMAND"
    <2> DEFINE shown == [page |-> Blank, rail |-> FALSE, next |-> Blank, answer |-> NoAnswer]
    <2>1. tab' = [tab EXCEPT ![t] = shown] /\ tab'[t] = shown
      BY <1>1, <1>4 DEF Lose
    <2>2. tab'[t].page = Blank /\ tab'[t].answer.kind = "NONE"
      BY <2>1 DEF NoAnswer
    <2>3. TabInStep(t)'
      BY <2>2 DEF TabInStep, Matches, Persona, Blank
    <2> QED BY <1>2, <2>1, <2>3, ActingTabOnly
  <1> QED BY <1>3, <1>4

LEMMA NextKeepsRole ==
  ASSUME FirstAlone = TRUE, RoleInv, [Next]_vars
  PROVE  RoleInv'
  <1>1. Inv'
    BY NextInv DEF RoleInv
  <1>2. ASSUME NEW t \in Tabs, NEW page \in Pages, Open(t, page)
        PROVE  Unopened' /\ OneTabInStep'
    <2>1. tab[t] \in TabRecord /\ tab \in [Tabs -> TabRecord]
      BY DEF RoleInv, Inv, TypeOK, TabRecord
    <2>2. /\ \A u \in Tabs : u # t => tab'[u] = tab[u]
          /\ opened' = opened \cup {t}
      BY <1>2, <2>1 DEF Open
    <2>3. Unopened'
      BY <2>2 DEF RoleInv, Unopened, Quiet
    <2>4. tab'[t].next = page /\ tab'[t].answer = NoAnswer
      BY <1>2, <2>1 DEF Open, Quiet, TabRecord
    <2>5. TabInStep(t)'
      BY <2>4 DEF TabInStep, Quiet, NoAnswer, Pages, Blank
    <2> QED BY <2>2, <2>3, <2>5 DEF OneTabInStep
  <1>3. ASSUME NEW t \in Tabs,
               Login(t) \/ Logout(t) \/ StartTour(t) \/ GoToStep(t) \/ ExitTour(t) \/ Work(t)
        PROVE  Unopened' /\ OneTabInStep'
    <2>1. PICK pages \in SUBSET Pages, role \in Roles \cup {"KEPT", "CLEARED"},
               tour \in {"KEPT", "CLEARED", "SET"}, page \in Pages \cup {tab[t].page} :
            Command(t, pages, role, tour, page)
      <3>1. CASE Login(t)
        BY <3>1 DEF Login, Destinations, ROLE_HOME, Pages, Roles
      <3>2. CASE Logout(t)
        BY <3>2 DEF Logout, Pages
      <3>3. CASE StartTour(t)
        BY <3>3 DEF StartTour, Pages, Roles
      <3>4. CASE GoToStep(t)
        BY <3>4 DEF GoToStep, Pages, Roles, ROLE_HOME
      <3>5. CASE ExitTour(t)
        BY <3>5 DEF ExitTour, Pages
      <3>6. CASE Work(t)
        BY <3>6 DEF Work, Pages
      <3> QED BY <1>3, <3>1, <3>2, <3>3, <3>4, <3>5, <3>6
    <2> QED BY <2>1, CommandKeepsRole
  <1>4. ASSUME Expire PROVE Unopened' /\ OneTabInStep'
    <2>1. tab' = tab /\ opened' = opened /\ jar'.role \in {jar.role, NoRole}
      BY <1>4 DEF Expire, RoleInv, Inv, TypeOK
    <2>2. \A page, change :
            /\ Matches(page, jar.role) => Matches(page, jar'.role)
            /\ Matches(page, Applied(jar.role, change)) => Matches(page, Applied(jar'.role, change))
      BY <2>1 DEF Matches, Applied
    <2>3. \A t \in Tabs : TabInStep(t) => TabInStep(t)'
      BY <2>1, <2>2 DEF TabInStep, Quiet
    <2>4. Unopened'
      BY <2>1 DEF RoleInv, Unopened, Quiet
    <2>5. OneTabInStep'
      BY <2>1, <2>3 DEF RoleInv, OneTabInStep
    <2> QED BY <2>4, <2>5
  <1>5. ASSUME UNCHANGED vars PROVE Unopened' /\ OneTabInStep'
    <2>1. tab' = tab /\ opened' = opened /\ jar' = jar
      BY <1>5 DEF vars
    <2>2. Unopened'
      BY <2>1 DEF RoleInv, Unopened, Quiet
    <2>3. \A t \in Tabs : TabInStep(t) => TabInStep(t)'
      BY <2>1 DEF TabInStep, Quiet
    <2>4. OneTabInStep'
      BY <2>1, <2>3 DEF RoleInv, OneTabInStep
    <2> QED BY <2>2, <2>4
  <1>6. Unopened' /\ OneTabInStep'
    <2>1. ASSUME NEW t \in Tabs, Fetch(t) \/ Deliver(t) \/ Lose(t)
          PROVE  Unopened' /\ OneTabInStep'
      BY <2>1, FetchKeepsRole, DeliverKeepsRole, LoseKeepsRole
    <2> QED BY <2>1, <1>2, <1>3, <1>4, <1>5 DEF Next
  <1> QED BY <1>1, <1>6 DEF RoleInv

\* While one tab is used, the role cookie is that of the page shown, across every sign-in,
\* crossing of the walkthrough, redirect, loss and expiry (proxy.ts, the cookie it sets).
THEOREM RoleFollowsPage == FirstAlone = TRUE => (Spec => []RoleMatchesPage)
  <1> SUFFICES ASSUME FirstAlone = TRUE PROVE Spec => []RoleMatchesPage
    OBVIOUS
  <1>1. ASSUME Init PROVE RoleInv
    <2>1. Unopened
      BY <1>1 DEF Init, Unopened, Quiet
    <2>2. ASSUME NEW t \in Tabs PROVE TabInStep(t)
      BY <1>1 DEF Init, TabInStep, Matches, Persona, Blank, NoAnswer
    <2> QED BY <1>1, <2>1, <2>2, InitInv DEF RoleInv, OneTabInStep
  <1>2. RoleInv /\ [Next]_vars => RoleInv'
    BY NextKeepsRole
  <1>3. RoleInv => RoleMatchesPage
    BY DEF RoleInv, OneTabInStep, TabInStep, Matches, RoleMatchesPage
  <1> QED BY <1>1, <1>2, <1>3, PTL DEF Spec
-----------------------------------------------------------------------------
(* Every request for a page ends. *)

\* A request for a page is sent before another can be made, so a tab waits for one thing.
OneThingAtATime == \A t \in Tabs : tab[t].next # Blank => tab[t].answer = NoAnswer

NavInv == Inv /\ OneThingAtATime

\* What a tab waits for: to ask for a page, for an answer that sends it on, for a page.
Asking(t) == tab[t].next # Blank

SentOn(t) == t \in UnderWay /\ tab[t].answer.kind # "PAGE"

Loading(t) == t \in UnderWay /\ tab[t].answer.kind = "PAGE"

\* The same, where the next gate lets it through.
AskingWell(t) == Asking(t) /\ Passes(tab[t].next)

SentWell(t) == SentOn(t) /\ Passes(tab[t].answer.page)

Changing == jar'.role # jar.role \/ jar'.tour # jar.tour

\* When Fetch(t) can happen; Deliver(t) can whenever t is in UnderWay.
FetchMay(t) ==
  /\ tab[t].next # Blank
  /\ FirstAlone /\ jar.session = NoId => UnderWay = {}
  /\ SessionFor # {}

\* The fairness of FairSpec with the guards of the actions written out.
AsksFairly(t) == []<>FetchMay(t) => <><<Fetch(t)>>_vars

AnsweredFairly(t) == [](t \in UnderWay) => <><<Deliver(t)>>_vars

EachServed == \A t \in Tabs : AsksFairly(t) /\ AnsweredFairly(t)

ServedFairly == []EachServed

\* What one step does to one tab.
LEMMA TabMoves ==
  ASSUME Inv, NEW t \in Tabs, [Next]_vars
  PROVE  \/ Fetch(t) \/ Deliver(t) \/ Lose(t) \/ tab'[t] = tab[t]
         \/ Quiet(t) /\ \/ tab'[t].answer = NoAnswer
                        \/ tab'[t].next = Blank /\ tab'[t].answer.kind = "COMMAND"
  <1> DEFINE Goal == \/ Fetch(t) \/ Deliver(t) \/ Lose(t) \/ tab'[t] = tab[t]
                     \/ Quiet(t) /\ \/ tab'[t].answer = NoAnswer
                                    \/ tab'[t].next = Blank /\ tab'[t].answer.kind = "COMMAND"
  <1>1. tab \in [Tabs -> TabRecord]
    BY DEF Inv, TypeOK, TabRecord
  <1>2. ASSUME NEW u \in Tabs, Fetch(u) \/ Deliver(u) \/ Lose(u) PROVE Goal
    <2>1. CASE u # t
      BY <1>1, <1>2, <2>1 DEF Fetch, Deliver, Lose
    <2> QED BY <1>2, <2>1
  <1>3. ASSUME NEW u \in Tabs, NEW page \in Pages, Open(u, page) PROVE Goal
    BY <1>1, <1>3 DEF Open, Quiet, TabRecord
  <1>4. ASSUME NEW u \in Tabs, NEW pages, NEW role, NEW tour, NEW page,
               Command(u, pages, role, tour, page)
        PROVE  Goal
    <2>1. PICK id \in SessionFor :
            tab' = [tab EXCEPT ![u].answer = AnswerOf("COMMAND", page, FALSE, id, role, tour)]
      BY <1>4 DEF Command, AnswerOf
    <2>2. CASE u # t
      BY <1>1, <2>1, <2>2
    <2>3. CASE u = t
      BY <1>1, <1>4, <2>1, <2>3 DEF Command, Quiet, AnswerOf, TabRecord
    <2> QED BY <2>2, <2>3
  <1>5. ASSUME NEW u \in Tabs,
               Login(u) \/ Logout(u) \/ StartTour(u) \/ GoToStep(u) \/ ExitTour(u) \/ Work(u)
        PROVE  Goal
    <2> HIDE DEF Goal
    <2> QED BY <1>4, <1>5 DEF Login, Logout, StartTour, GoToStep, ExitTour, Work
  <1>6. Expire \/ UNCHANGED vars => Goal
    BY DEF Expire, vars
  <1> HIDE DEF Goal
  <1>7. Goal
    BY <1>2, <1>3, <1>5, <1>6 DEF Next
  <1> QED BY <1>7 DEF Goal

\* The answer to a request for a page, wherever the proxy sends it.
LEMMA FetchAnswers ==
  ASSUME Inv, NEW t \in Tabs, Fetch(t)
  PROVE  /\ tab[t].next \in Pages /\ jar' = jar
         /\ tab'[t].next = Blank /\ tab'[t].answer # NoAnswer
         /\ tab'[t].answer.kind = IF Passes(tab[t].next) THEN "PAGE" ELSE "REDIRECT"
         /\ tab'[t].answer.page = Gated(tab[t].next)
  <1>1. tab \in [Tabs -> TabRecord]
    BY DEF Inv, TypeOK, TabRecord
  <1> DEFINE page == tab[t].next
             AnswerIn(id) ==
               AnswerOf(IF Passes(page) THEN "PAGE" ELSE "REDIRECT", Gated(page),
                        jar.tour /\ page # "LOGIN", id, RoleInStep(page), "KEPT")
  <1>2. PICK id \in SessionFor :
          tab' = [tab EXCEPT ![t].next = Blank, ![t].answer = AnswerIn(id)]
    BY DEF Fetch, AnswerOf
  <1>3. page \in Pages /\ jar' = jar
    BY <1>1 DEF Fetch, TabRecord
  <1>4. /\ AnswerIn(id).kind = IF Passes(page) THEN "PAGE" ELSE "REDIRECT"
        /\ AnswerIn(id).page = Gated(page)
    BY DEF AnswerOf
  <1>5. AnswerIn(id).kind # NoAnswer.kind
    BY <1>4 DEF NoAnswer
  <1>6. tab'[t].next = Blank /\ tab'[t].answer = AnswerIn(id)
    <2> HIDE DEF AnswerIn
    <2> QED BY <1>1, <1>2 DEF TabRecord
  <1> HIDE DEF AnswerIn
  <1> QED BY <1>3, <1>4, <1>5, <1>6

\* An answer that arrives, and one that is lost.
LEMMA DeliverAnswers ==
  ASSUME Inv, NEW t \in Tabs, Deliver(t)
  PROVE  /\ t \in UnderWay /\ jar'.session # NoId
         /\ tab'[t].answer = NoAnswer
         /\ tab'[t].next = IF tab[t].answer.kind = "PAGE" THEN Blank ELSE tab[t].answer.page
         /\ tab[t].answer.page \in Pages
  <1>1. tab \in [Tabs -> TabRecord] /\ tab[t] \in TabRecord
    BY DEF Inv, TypeOK, TabRecord
  <1>2. t \in UnderWay /\ tab[t].answer \in Answer
    BY <1>1 DEF Deliver, UnderWay, TabRecord
  <1>3. jar'.session \in SessionIds
    BY <1>2 DEF Deliver, Answer
  <1>4. CASE tab[t].answer.kind = "PAGE"
    <2>1. tab'[t] = [page |-> tab[t].answer.page, rail |-> tab[t].answer.rail, next |-> Blank,
                     answer |-> NoAnswer]
      BY <1>1, <1>4 DEF Deliver
    <2> QED BY <1>2, <1>3, <1>4, <2>1, VisitorAssumption DEF Answer
  <1>5. CASE tab[t].answer.kind # "PAGE"
    <2>1. tab'[t] = [tab[t] EXCEPT !.next = tab[t].answer.page, !.answer = NoAnswer]
      BY <1>1, <1>5 DEF Deliver
    <2> QED BY <1>1, <1>2, <1>3, <1>5, <2>1, VisitorAssumption DEF Answer, TabRecord
  <1> QED BY <1>4, <1>5

LEMMA LoseAnswers ==
  ASSUME NavInv, NEW t \in Tabs, Lose(t)
  PROVE  t \in UnderWay /\ Quiet(t)'
  <1>1. tab \in [Tabs -> TabRecord] /\ tab[t] \in TabRecord
    BY DEF NavInv, Inv, TypeOK, TabRecord
  <1>2. t \in UnderWay /\ tab[t].next = Blank
    BY DEF Lose, UnderWay, NavInv, OneThingAtATime
  <1>3. \/ tab'[t] = [tab[t] EXCEPT !.answer = NoAnswer]
        \/ tab'[t] = [page |-> Blank, rail |-> FALSE, next |-> Blank, answer |-> NoAnswer]
    BY <1>1 DEF Lose
  <1> QED BY <1>1, <1>2, <1>3 DEF Quiet, TabRecord

LEMMA NextNavInv ==
  ASSUME FirstAlone = TRUE, NavInv, [Next]_vars
  PROVE  NavInv'
  <1>1. Inv'
    BY NextInv DEF NavInv
  <1>2. ASSUME NEW t \in Tabs, tab'[t].next # Blank PROVE tab'[t].answer = NoAnswer
    BY <1>2, TabMoves, FetchAnswers, DeliverAnswers, LoseAnswers
       DEF NavInv, OneThingAtATime, Quiet
  <1> QED BY <1>1, <1>2 DEF NavInv, OneThingAtATime

\* The stages of a tab while neither role nor walkthrough changes: no gate sends a request on to
\* a page whose gate it does not pass, so a tab is sent on at most twice.
LEMMA TabStages ==
  ASSUME FirstAlone = TRUE, NavInv, NEW t \in Tabs, [Next]_vars, [~ Changing]_vars
  PROVE  /\ SentOn(t) => SentOn(t)' \/ Asking(t)' \/ Quiet(t)'
         /\ Asking(t) => Asking(t)' \/ Loading(t)' \/ SentWell(t)'
         /\ SentWell(t) => SentWell(t)' \/ AskingWell(t)' \/ Quiet(t)'
         /\ AskingWell(t) => AskingWell(t)' \/ Loading(t)'
         /\ Loading(t) => Loading(t)' \/ Quiet(t)'
         /\ Deliver(t) => ~ SentOn(t)' /\ ~ Loading(t)'
         /\ Fetch(t) => ~ Asking(t)'
         /\ SentOn(t) \/ Asking(t) \/ Loading(t) \/ Quiet(t)
  <1>1. tab \in [Tabs -> TabRecord] /\ tab' \in [Tabs -> TabRecord] /\ NavInv'
    BY NextNavInv DEF NavInv, Inv, TypeOK, TabRecord
  <1>2. jar'.role = jar.role /\ jar'.tour = jar.tour
    BY DEF Changing, vars
  <1>3. ASSUME NEW page PROVE Passes(page)' = Passes(page)
    BY <1>2 DEF Passes
  <1>4. ASSUME NEW page \in Pages PROVE Passes(Gated(page))
    BY DEF NavInv, Inv, TypeOK, Gated, Passes, ROLE_HOME, Persona, Pages, Roles, NoRole
  <1>5. Blank \notin Pages
    BY DEF Blank, Pages
  <1> DEFINE Stages ==
        /\ SentOn(t) => SentOn(t)' \/ Asking(t)' \/ Quiet(t)'
        /\ Asking(t) => Asking(t)' \/ Loading(t)' \/ SentWell(t)'
        /\ SentWell(t) => SentWell(t)' \/ AskingWell(t)' \/ Quiet(t)'
        /\ AskingWell(t) => AskingWell(t)' \/ Loading(t)'
        /\ Loading(t) => Loading(t)' \/ Quiet(t)'
        /\ Deliver(t) => ~ SentOn(t)' /\ ~ Loading(t)'
        /\ Fetch(t) => ~ Asking(t)'
  <1>6. t \in UnderWay <=> tab[t].answer # NoAnswer
    BY DEF UnderWay
  <1>7. t \in UnderWay' <=> tab'[t].answer # NoAnswer
    BY DEF UnderWay
  <1>8. Asking(t) => t \notin UnderWay
    BY <1>6 DEF NavInv, OneThingAtATime, Asking
  <1>9. ASSUME Fetch(t) PROVE Stages
    <2>1. Asking(t) /\ t \notin UnderWay /\ ~ Deliver(t)
      BY <1>8, <1>9 DEF Fetch, Asking, Deliver
    <2>2. ~ Asking(t)'
      BY <1>9, FetchAnswers DEF NavInv, Asking
    <2>3. Passes(tab[t].next) => Loading(t)'
      BY <1>7, <1>9, FetchAnswers DEF NavInv, Loading
    <2>4. ~ Passes(tab[t].next) => SentWell(t)'
      <3>1. ASSUME ~ Passes(tab[t].next)
            PROVE  SentOn(t)' /\ Passes(tab'[t].answer.page)
        BY <1>4, <1>7, <1>9, <3>1, FetchAnswers DEF NavInv, SentOn
      <3> QED BY <1>2, <3>1 DEF SentWell, Passes
    <2> QED BY <2>1, <2>2, <2>3, <2>4 DEF AskingWell, SentOn, SentWell, Loading
  <1>10. ASSUME Deliver(t) PROVE Stages
    <2>1. t \in UnderWay /\ t \notin UnderWay' /\ ~ Fetch(t) /\ ~ Asking(t)
      BY <1>7, <1>8, <1>10, DeliverAnswers DEF NavInv, Fetch, Asking
    <2>2. Loading(t) => Quiet(t)'
      BY <1>10, DeliverAnswers DEF NavInv, Loading, Quiet
    <2>3. SentOn(t) => Asking(t)' /\ tab'[t].next = tab[t].answer.page
      BY <1>5, <1>10, DeliverAnswers DEF NavInv, SentOn, Asking
    <2>4. SentWell(t) => AskingWell(t)'
      BY <1>2, <2>3 DEF SentWell, AskingWell, Passes
    <2> QED BY <2>1, <2>2, <2>3, <2>4 DEF SentOn, SentWell, AskingWell, Loading
  <1>11. ASSUME Lose(t) PROVE Stages
    <2>1. t \in UnderWay /\ Quiet(t)'
      BY <1>11, LoseAnswers
    <2>2. ~ Asking(t) /\ ~ SentOn(t)' /\ ~ Loading(t)' /\ ~ Asking(t)'
      BY <1>7, <1>8, <2>1 DEF Quiet, SentOn, Loading, Asking
    <2> QED BY <2>1, <2>2 DEF AskingWell, SentWell
  <1>12. ASSUME tab'[t] = tab[t], ~ Fetch(t), ~ Deliver(t) PROVE Stages
    <2>1. (SentOn(t) => SentOn(t)') /\ (Loading(t) => Loading(t)') /\ (Asking(t) => Asking(t)')
      BY <1>6, <1>7, <1>12 DEF SentOn, Loading, Asking
    <2>2. (SentWell(t) => SentWell(t)') /\ (AskingWell(t) => AskingWell(t)')
      BY <1>2, <1>12, <2>1 DEF SentWell, AskingWell, Passes
    <2> QED BY <1>12, <2>1, <2>2
  <1>13. ASSUME Quiet(t), ~ Fetch(t), ~ Deliver(t) PROVE Stages
    BY <1>6, <1>13 DEF Quiet, SentOn, SentWell, Asking, AskingWell, Loading
  <1>14. SentOn(t) \/ Asking(t) \/ Loading(t) \/ Quiet(t)
    BY <1>6 DEF SentOn, Asking, Loading, Quiet
  <1>15. Stages
    <2> HIDE DEF Stages
    <2> QED BY <1>9, <1>10, <1>11, <1>12, <1>13, TabMoves DEF NavInv
  <1> QED BY <1>14, <1>15

\* Before there is a session the one answer under way comes or is lost, and after that there
\* is a session for good.
Cleared == <>(UnderWay = {} \/ jar.session # NoId)

AnswersCome(u) == UnderWay = {u} => Cleared

LEMMA SessionStays ==
  ASSUME Inv, [Next]_vars
  PROVE  jar.session # NoId => jar'.session # NoId
  BY DeliverAnswers
     DEF Next, vars, Open, Login, Logout, StartTour, GoToStep, ExitTour, Work, Command, Fetch,
         Lose, Expire, Inv, TypeOK

LEMMA LoneAnswerComes ==
  ASSUME NEW u \in Tabs, FirstAlone = TRUE
  PROVE  []NavInv /\ [][Next]_vars /\ ServedFairly => []AnswersCome(u)
  <1> DEFINE Lone == UnderWay = {u}
             Clear == UnderWay = {} \/ jar.session # NoId
  <1>1. NavInv /\ [Next]_vars /\ Lone => Lone' \/ Clear'
    <2> SUFFICES ASSUME NavInv, [Next]_vars, Lone, jar'.session = NoId
                 PROVE  UnderWay' = {u} \/ UnderWay' = {}
      OBVIOUS
    <2>1. u \in Tabs /\ tab[u].answer # NoAnswer
      BY DEF UnderWay
    <2>2. ~ Deliver(u) /\ ~ Fetch(u) /\ ~ Quiet(u)
      BY <2>1, DeliverAnswers DEF NavInv, OneThingAtATime, Fetch, Quiet
    <2>3. CASE Lose(u)
      <3>1. tab \in [Tabs -> TabRecord]
        BY DEF NavInv, Inv, TypeOK, TabRecord
      <3>2. \A t \in Tabs : t # u => tab'[t] = tab[t]
        BY <2>3, <3>1 DEF Lose
      <3>3. tab'[u].answer = NoAnswer
        BY <2>1, <2>3, LoseAnswers DEF Quiet
      <3> QED BY <3>2, <3>3 DEF UnderWay
    <2>4. CASE tab'[u] = tab[u]
      <3>1. u \in UnderWay'
        BY <2>1, <2>4 DEF UnderWay
      <3>2. \A a, b \in UnderWay' : a = b
        BY NextNavInv DEF NavInv, Inv, BeforeTheSession
      <3> QED BY <3>1, <3>2
    <2> QED BY <2>1, <2>2, <2>3, <2>4, TabMoves DEF NavInv
  <1>2. NavInv /\ <<Deliver(u)>>_vars /\ u \in UnderWay => Clear'
    BY DeliverAnswers DEF NavInv, UnderWay
  <1>3. Lone => u \in UnderWay
    OBVIOUS
  <1>4. EachServed /\ Lone => AnsweredFairly(u)
    BY DEF EachServed, UnderWay
  <1> HIDE DEF Lone, Clear
  <1>5. []NavInv /\ [][Next]_vars /\ []EachServed => [](Lone => <>Clear)
    BY <1>1, <1>2, <1>3, <1>4, PTL DEF AnsweredFairly
  <1> QED BY <1>5, PTL DEF AnswersCome, Cleared, Lone, Clear, ServedFairly

LEMMA AnswersComeBack ==
  ASSUME FirstAlone = TRUE
  PROVE  []NavInv /\ [][Next]_vars /\ ServedFairly
           => []<>(UnderWay = {}) \/ <>[](jar.session # NoId)
  <1> DEFINE Settled == UnderWay = {}
             Named == jar.session # NoId
  <1>1. ASSUME []NavInv, [][Next]_vars, ServedFairly
        PROVE  \A u \in Tabs : AnswersCome(u)
    <2> TAKE u \in Tabs
    <2>1. []NavInv /\ [][Next]_vars /\ ServedFairly => []AnswersCome(u)
      BY LoneAnswerComes
    <2> QED BY <1>1, <2>1, PTL
  <1>2. []NavInv /\ [][Next]_vars /\ ServedFairly => [](\A u \in Tabs : AnswersCome(u))
    BY <1>1, PTL DEF ServedFairly
  <1>3. NavInv /\ (\A u \in Tabs : AnswersCome(u)) => Settled \/ Named \/ Cleared
    BY DEF AnswersCome, NavInv, Inv, BeforeTheSession, UnderWay
  <1>4. NavInv /\ [Next]_vars => (Named => Named')
    BY SessionStays DEF NavInv
  <1>5. Cleared <=> <>(Settled \/ Named)
    BY DEF Cleared
  <1> HIDE DEF Settled, Named
  <1>6. []NavInv /\ [][Next]_vars /\ ServedFairly => []<>Settled \/ <>[]Named
    BY <1>2, <1>3, <1>4, <1>5, PTL
  <1> QED BY <1>6 DEF Settled, Named

\* One tab's requests end, or its visitor changes role or walkthrough again and again.
Settles(t) == Asking(t) ~> Quiet(t)

KeepsChanging == []<><<Changing>>_vars

LEMMA TabSettles ==
  ASSUME NEW t \in Tabs, FirstAlone = TRUE, SessionIds # {}
  PROVE  []NavInv /\ [][Next]_vars /\ ServedFairly => Settles(t) \/ KeepsChanging
  <1> DEFINE Named == jar.session # NoId
             Settled == UnderWay = {}
  <1>1. NavInv /\ [Next]_vars /\ [~ Changing]_vars =>
          /\ SentOn(t) => SentOn(t)' \/ Asking(t)' \/ Quiet(t)'
          /\ Asking(t) => Asking(t)' \/ Loading(t)' \/ SentWell(t)'
          /\ SentWell(t) => SentWell(t)' \/ AskingWell(t)' \/ Quiet(t)'
          /\ AskingWell(t) => AskingWell(t)' \/ Loading(t)'
          /\ Loading(t) => Loading(t)' \/ Quiet(t)'
          /\ <<Deliver(t)>>_vars => ~ SentOn(t)' /\ ~ Loading(t)'
          /\ <<Fetch(t)>>_vars => ~ Asking(t)'
    BY TabStages
  <1>2. NavInv /\ (Named \/ Settled) /\ Asking(t) => FetchMay(t)
    <2> SUFFICES ASSUME NavInv, Named \/ Settled, Asking(t) PROVE SessionFor # {}
      BY DEF Asking, FetchMay
    <2> QED BY VisitorAssumption DEF SessionFor, InUse, NavInv, Inv, BeforeTheSession
  <1>3. /\ SentOn(t) => t \in UnderWay
        /\ Loading(t) => t \in UnderWay
        /\ NavInv => SentOn(t) \/ Asking(t) \/ Loading(t) \/ Quiet(t)
        /\ SentWell(t) => SentOn(t)
        /\ AskingWell(t) => Asking(t)
    BY DEF SentOn, Loading, SentWell, AskingWell, Asking, Quiet, UnderWay
  <1>4. EachServed => AsksFairly(t) /\ AnsweredFairly(t)
    BY DEF EachServed
  <1>5. []NavInv /\ [][Next]_vars /\ ServedFairly => []<>Settled \/ <>[]Named
    BY AnswersComeBack
  <1> HIDE DEF Named, Settled
  <1>6. []NavInv /\ [][Next]_vars /\ []EachServed /\ <>[][~ Changing]_vars
          /\ ([]<>Settled \/ <>[]Named)
          => Settles(t)
    BY <1>1, <1>2, <1>3, <1>4, PTL DEF Settles, AsksFairly, AnsweredFairly
  <1> QED BY <1>5, <1>6, PTL DEF KeepsChanging, ServedFairly

\* Every request for a page ends, in any number of tabs: two gates of proxy.ts do not send a
\* tab back and forth, unless its visitor keeps changing role or walkthrough.
THEOREM EveryTabSettles ==
  FirstAlone = TRUE /\ SessionIds # {} => (Spec /\ ServedFairly => NavigationSettles)
  <1> SUFFICES ASSUME FirstAlone = TRUE, SessionIds # {}
               PROVE  Spec /\ ServedFairly => NavigationSettles
    OBVIOUS
  <1>1. Init => NavInv
    BY InitInv DEF Init, NavInv, OneThingAtATime
  <1>2. NavInv /\ [Next]_vars => NavInv'
    BY NextNavInv
  <1>3. ASSUME NEW t \in Tabs PROVE Spec /\ ServedFairly => Settles(t) \/ KeepsChanging
    <2>1. []NavInv /\ [][Next]_vars /\ ServedFairly => Settles(t) \/ KeepsChanging
      BY TabSettles
    <2> QED BY <1>1, <1>2, <2>1, PTL DEF Spec
  <1>4. Spec /\ ServedFairly => (\A t \in Tabs : Settles(t)) \/ KeepsChanging
    BY <1>3
  <1> QED BY <1>4 DEF NavigationSettles, Settles, Asking, KeepsChanging, Changing
=============================================================================
