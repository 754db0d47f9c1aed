------------------------------ MODULE ProxyGate ------------------------------
(***************************************************************************)
(* One visitor's browser and the proxy in front of every route.  The       *)
(* browser has one cookie jar and several tabs; each tab asks for a page   *)
(* or sends a command with the cookies of that moment, and the answer,     *)
(* whose cookies replace those in the jar, comes back later or never.      *)
(***************************************************************************)
EXTENDS Naturals

CONSTANTS
  Tabs,         \* tabs (or prefetches) that can have a request under way
  SessionIds,   \* ids createSessionId can give
  NoId,         \* no session cookie
  FirstAlone    \* TRUE: while there is no session, one request at a time

ASSUME VisitorAssumption == NoId \notin SessionIds /\ FirstAlone \in BOOLEAN

VARIABLES
  jar,      \* the cookies: [session, role, tour]
  tab,      \* per tab: the page shown, the page to ask for next, the answer under way
  worked,   \* sessions in which a command took effect
  opened    \* tabs used so far

vars == << jar, tab, worked, opened >>

\* Variants with the suffix _Bug are the mistakes the properties are tried on:
\* no specification uses them.

Roles == {"member", "employer"}

NoRole == "NONE"

\* Pages that are gated alike: HOME is every member page.
Pages == {"LOGIN", "HOME", "EMPLOYER", "DEMO"}

Blank == "BLANK"

ROLE_HOME_Bug == [member |-> "EMPLOYER", employer |-> "HOME"]   \* swapped

ROLE_HOME == [member |-> "HOME", employer |-> "EMPLOYER"]

Persona == [HOME |-> "member", EMPLOYER |-> "employer"]

-----------------------------------------------------------------------------
(* Answers.  A cookie an answer does not mention is KEPT. *)

Answer ==
  [kind : {"PAGE", "REDIRECT", "COMMAND"}, page : Pages, rail : BOOLEAN, session : SessionIds,
   role : Roles \cup {"KEPT", "CLEARED"}, tour : {"KEPT", "CLEARED", "SET"}]

NoAnswer == [kind |-> "NONE"]

Quiet(t) == tab[t].next = Blank /\ tab[t].answer = NoAnswer

UnderWay == {t \in Tabs : tab[t].answer # NoAnswer}

InUse == {jar.session} \cup {tab[t].answer.session : t \in UnderWay} \cup worked

SessionFor_Bug == SessionIds \ InUse   \* the id that came along is not looked at

\* The id of a request: the one it carries, or one nobody else has.
SessionFor == IF jar.session = NoId THEN SessionIds \ InUse ELSE {jar.session}

\* A signed-in visitor passes everywhere during the walkthrough and to the shared page.
Passes(page) ==
  IF page = "LOGIN" \/ jar.role = NoRole
    THEN page = "LOGIN" /\ jar.role = NoRole
    ELSE page = "DEMO" \/ jar.tour \/ Persona[page] = jar.role

\* Where the proxy sends a request for a page.
Gated(page) ==
  IF Passes(page) THEN page
  ELSE IF jar.role = NoRole THEN "LOGIN"
  ELSE ROLE_HOME[jar.role]

RoleInStep_Bug(page) == "KEPT"   \* the walkthrough crosses over and the cookie stays behind

\* During the walkthrough the role follows the page.
RoleInStep(page) ==
  IF jar.role # NoRole /\ jar.tour /\ page \in DOMAIN Persona THEN Persona[page] ELSE "KEPT"

Fetch(t) ==
  /\ tab[t].next # Blank
  /\ FirstAlone /\ jar.session = NoId => UnderWay = {}
  /\ \E id \in SessionFor :
       tab' = [tab EXCEPT
         ![t].next = Blank,
         ![t].answer = [kind |-> IF Passes(tab[t].next) THEN "PAGE" ELSE "REDIRECT",
                        page |-> Gated(tab[t].next),
                        rail |-> jar.tour /\ tab[t].next # "LOGIN",
                        session |-> id, role |-> RoleInStep(tab[t].next), tour |-> "KEPT"]]
  /\ UNCHANGED << jar, worked, opened >>

\* A command is not gated; its answer says where the page sends the tab next.
Command(t, pages, role, tour, page) ==
  /\ Quiet(t) /\ tab[t].page \in pages
  /\ \E id \in SessionFor :
       tab' = [tab EXCEPT
         ![t].answer = [kind |-> "COMMAND", page |-> page, rail |-> FALSE,
                        session |-> id, role |-> role, tour |-> tour]]
  /\ UNCHANGED << jar, opened >>

\* Where the sign-in card goes: the address may name any page to come back to.
Destinations(role) == {ROLE_HOME[role]} \cup (Pages \ {"LOGIN"})

Login(t) ==
  /\ \E role \in Roles : \E page \in Destinations(role) : Command(t, {"LOGIN"}, role, "KEPT", page)
  /\ UNCHANGED worked

Logout(t) ==
  /\ Command(t, {"HOME", "EMPLOYER", "DEMO"}, "CLEARED", "KEPT", "LOGIN")
  /\ UNCHANGED worked

StartTour(t) ==
  /\ Command(t, {"LOGIN"}, "member", "SET", "HOME")
  /\ UNCHANGED worked

GoToStep(t) ==
  /\ tab[t].rail
  /\ \E role \in Roles : Command(t, {"HOME", "EMPLOYER", "DEMO"}, role, "SET", ROLE_HOME[role])
  /\ UNCHANGED worked

ExitTour(t) ==
  /\ tab[t].rail
  /\ Command(t, {"HOME", "EMPLOYER", "DEMO"}, "KEPT", "CLEARED", "HOME")
  /\ UNCHANGED worked

\* Any scenario command; the page refreshes afterwards.
Work(t) ==
  /\ Command(t, {"HOME", "EMPLOYER", "DEMO"}, "KEPT", "KEPT", tab[t].page)
  /\ worked' = worked \cup {tab'[t].answer.session}

-----------------------------------------------------------------------------
(* The browser. *)

Open(t, page) ==
  /\ Quiet(t)
  /\ tab' = [tab EXCEPT ![t].next = page]
  /\ opened' = opened \cup {t}
  /\ UNCHANGED << jar, worked >>

Applied_Bug(old, change) == IF change = "KEPT" THEN old ELSE change

Applied(old, change) ==
  CASE change = "KEPT" -> old [] change = "CLEARED" -> NoRole [] OTHER -> change

Deliver(t) ==
  LET answer == tab[t].answer IN
    /\ t \in UnderWay
    /\ jar' = [session |-> answer.session,
               role |-> Applied(jar.role, answer.role),
               tour |-> answer.tour = "SET" \/ (answer.tour = "KEPT" /\ jar.tour)]
    /\ tab' = [tab EXCEPT
         ![t] = IF answer.kind = "PAGE"
                  THEN [page |-> answer.page, rail |-> answer.rail, next |-> Blank,
                        answer |-> NoAnswer]
                  ELSE [@ EXCEPT !.next = answer.page, !.answer = NoAnswer]]
    /\ UNCHANGED << worked, opened >>

\* The connection fails: a page that does not arrive leaves the tab blank, a
\* command that is not answered leaves its page as it was.
Lose(t) ==
  /\ t \in UnderWay
  /\ tab' = [tab EXCEPT
       ![t] = IF @.answer.kind = "COMMAND"
                THEN [@ EXCEPT !.answer = NoAnswer]
                ELSE [page |-> Blank, rail |-> FALSE, next |-> Blank, answer |-> NoAnswer]]
  /\ UNCHANGED << jar, worked, opened >>

\* The role and the walkthrough cookie have lifetimes of their own.  The session
\* cookie is renewed by every answer; that it ends after twelve idle hours is not
\* modelled.
Expire ==
  /\ \/ jar' = [jar EXCEPT !.role = NoRole]
     \/ jar' = [jar EXCEPT !.tour = FALSE]
  /\ UNCHANGED << tab, worked, opened >>

Init ==
  /\ jar = [session |-> NoId, role |-> NoRole, tour |-> FALSE]
  /\ tab = [t \in Tabs |-> [page |-> Blank, rail |-> FALSE, next |-> Blank, answer |-> NoAnswer]]
  /\ worked = {}
  /\ opened = {}

Next ==
  \/ \E t \in Tabs :
       \/ \E page \in Pages : Open(t, page)
       \/ Login(t) \/ Logout(t) \/ StartTour(t) \/ GoToStep(t) \/ ExitTour(t) \/ Work(t)
       \/ Fetch(t) \/ Deliver(t) \/ Lose(t)
  \/ Expire

Spec == Init /\ [][Next]_vars

\* A browser sends what it was asked to send and the server answers; people, losses
\* and lifetimes owe nothing.  Only FirstAlone can take a Fetch back once it is
\* possible: the strong form says that the others' turns do not starve a tab then.
FairSpec == Spec /\ \A t \in Tabs : SF_vars(Fetch(t)) /\ WF_vars(Deliver(t))

-----------------------------------------------------------------------------
(* Properties. *)

TypeOK ==
  /\ jar \in [session : SessionIds \cup {NoId}, role : Roles \cup {NoRole}, tour : BOOLEAN]
  /\ tab \in [Tabs -> [page : Pages \cup {Blank}, rail : BOOLEAN, next : Pages \cup {Blank},
                       answer : Answer \cup {NoAnswer}]]
  /\ worked \subseteq SessionIds
  /\ opened \subseteq Tabs

\* lib/session.ts says: "Every visitor gets their own scenario. The id is minted
\* once": everything the visitor did is in the scenario their cookie names, where
\* they can see it.
OneScenario == worked \subseteq {jar.session}

\* As long as one tab is used, the role cookie is the persona of the page shown,
\* across every sign-in, step of the walkthrough, redirect, loss and expiry (proxy.ts
\* keeps the cookie in step while the walkthrough crosses between personas).
RoleMatchesPage ==
  \A t \in Tabs :
    opened = {t} /\ Quiet(t) /\ tab[t].page \in DOMAIN Persona /\ jar.role # NoRole =>
      Persona[tab[t].page] = jar.role

\* Every request for a page ends: no two gates of proxy.ts send a tab back and forth.
\* Only a visitor who keeps changing role or walkthrough in one tab can keep another
\* going round.
NavigationSettles ==
  \/ \A t \in Tabs : tab[t].next # Blank ~> Quiet(t)
  \/ []<><<jar'.role # jar.role \/ jar'.tour # jar.tour>>_vars
=============================================================================
