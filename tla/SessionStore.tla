----------------------------- MODULE SessionStore -----------------------------
(***************************************************************************)
(* The session boundary: every visitor's document is one row of a durable  *)
(* store, and every request hydrates a private copy of it, runs one        *)
(* synchronous command on the copy, and writes the whole copy back before  *)
(* it answers.  The store has no lock and no version: two requests of one  *)
(* visitor interleave at the two awaits.  A page render reads and never    *)
(* writes.  Reads and writes can fail, a reply can get lost, and a client  *)
(* can stop waiting for a call the server is still working on.             *)
(***************************************************************************)
EXTENDS Resolution

CONSTANTS
  Visitors,         \* session ids
  Calls,            \* requests: each is sent once (bounds the run)
  MaxOutstanding,   \* commands one visitor waits for at a time
  Patient,          \* TRUE: the client waits for every answer
  Absent,           \* no row yet
  Unreadable,       \* a row that an older deployment wrote: fails the schema
  NoCopy            \* a call that holds no working copy

ASSUME SessionAssumption ==
  /\ MaxOutstanding \in Nat \ {0}
  /\ Patient \in BOOLEAN
  /\ Absent \notin Document /\ Unreadable \notin Document /\ NoCopy \notin Document

VARIABLES
  row,       \* [Visitors -> row]: what the store holds
  call,      \* [Calls -> call record]
  lineage    \* history: the calls whose effect the row of each visitor carries

vars == << row, call, lineage >>

Kind == {"COMMAND", "RESET", "RENDER"}

CallRecord ==
  [visitor : Visitors, kind : Kind,
   client : {"IDLE", "WAITING", "OK", "ERROR"},
   server : {"NONE", "SENT", "HYDRATED", "WRITTEN", "ENDED"},
   copy : Document \cup {NoCopy},
   seen : SUBSET Calls,      \* history: lineage of the row it read
   alone : BOOLEAN]          \* history: no other write of the visitor overlapped

Init ==
  /\ row \in [Visitors -> {Absent, Unreadable}]
  /\ lineage = [v \in Visitors |-> {}]
  /\ call \in [Calls -> [visitor : Visitors, kind : Kind, client : {"IDLE"},
                         server : {"NONE"}, copy : {NoCopy}, seen : {{}}, alone : {TRUE}]]

\* Variants with the suffix _Bug are the mistakes the properties are tried on.
Usable_Bug(r) == IF r = Absent THEN SeedDocument ELSE r   \* the schema is not checked

\* What hydrate makes of a row: an absent or unreadable one seeds from the fixtures.
Usable(r) == IF r \in {Absent, Unreadable} THEN SeedDocument ELSE r

Live(c) == call[c].server \in {"SENT", "HYDRATED", "WRITTEN"}

Writers(v) == {c \in Calls : call[c].visitor = v /\ call[c].kind # "RENDER" /\ Live(c)}

Waiting(v) ==
  {c \in Calls : /\ call[c].visitor = v
                 /\ call[c].kind # "RENDER"
                 /\ call[c].client = "WAITING"}

\* A click or a page load.  A button stays enabled while its own request is in
\* flight, and two tabs share the cookie, so commands of one visitor can overlap.
Send(c) ==
  LET v == call[c].visitor
      contended == call[c].kind # "RENDER" /\ Writers(v) # {}
  IN  /\ call[c].client = "IDLE"
      /\ call[c].kind # "RENDER" => Cardinality(Waiting(v)) < MaxOutstanding
      /\ call' = [d \in Calls |->
           IF d = c
             THEN [call[c] EXCEPT !.client = "WAITING", !.server = "SENT",
                                  !.alone = ~ contended]
             ELSE IF contended /\ d \in Writers(v)
                    THEN [call[d] EXCEPT !.alone = FALSE]
                    ELSE call[d]]
      /\ UNCHANGED << row, lineage >>

Hydrate(c) ==
  /\ call[c].server = "SENT"
  /\ call' = [call EXCEPT ![c].server = "HYDRATED",
                          ![c].copy = Usable(row[call[c].visitor]),
                          ![c].seen = lineage[call[c].visitor]]
  /\ UNCHANGED << row, lineage >>

\* The documents the call's command can leave behind.
Results(c) ==
  IF call[c].kind = "RESET" THEN Reset(call[c].copy) ELSE CommandOutcomes(call[c].copy)

RunAndWrite_Bug(c) ==   \* a retry of the store call runs the command once more
  /\ call[c].server = "HYDRATED"
  /\ call[c].kind # "RENDER"
  /\ \E e \in Results(c) : \E f \in CommandOutcomes(e) :
       row' = [row EXCEPT ![call[c].visitor] = f]
  /\ lineage' = [lineage EXCEPT ![call[c].visitor] = call[c].seen \cup {c}]
  /\ call' = [call EXCEPT ![c].server = "WRITTEN", ![c].copy = NoCopy]

\* The command runs on the copy and the whole document is written.
RunAndWrite(c) ==
  /\ call[c].server = "HYDRATED"
  /\ call[c].kind # "RENDER"
  /\ \E e \in Results(c) : row' = [row EXCEPT ![call[c].visitor] = e]
  /\ lineage' = [lineage EXCEPT ![call[c].visitor] = call[c].seen \cup {c}]
  /\ call' = [call EXCEPT ![c].server = "WRITTEN", ![c].copy = NoCopy]

Respond_Bug(c) ==   \* answers before the write
  /\ call[c].server \in {"HYDRATED", "WRITTEN"}
  /\ call' = [call EXCEPT ![c].server = "ENDED", ![c].copy = NoCopy,
                          ![c].client = IF @ = "WAITING" THEN "OK" ELSE @]
  /\ UNCHANGED << row, lineage >>

\* The route answers 200 once the write is durable; a render once it has read.
Respond(c) ==
  /\ \/ call[c].server = "WRITTEN"
     \/ call[c].server = "HYDRATED" /\ call[c].kind = "RENDER"
  /\ call' = [call EXCEPT ![c].server = "ENDED", ![c].copy = NoCopy,
                          ![c].client = IF @ = "WAITING" THEN "OK" ELSE @]
  /\ UNCHANGED << row, lineage >>

Fail_Bug(c) ==   \* the error is swallowed and nobody answers
  /\ call[c].server \in {"SENT", "HYDRATED"}
  /\ call' = [call EXCEPT ![c].server = "ENDED", ![c].copy = NoCopy]
  /\ UNCHANGED << row, lineage >>

\* The read threw, the command threw, or the write threw: an error answer, and
\* nothing was stored.
Fail(c) ==
  /\ call[c].server \in {"SENT", "HYDRATED"}
  /\ call' = [call EXCEPT ![c].server = "ENDED", ![c].copy = NoCopy,
                          ![c].client = IF @ = "WAITING" THEN "ERROR" ELSE @]
  /\ UNCHANGED << row, lineage >>

\* The row was written but the answer never arrives: the store's reply to the
\* server, or the server's to the client, is lost.
ReplyLost(c) ==
  /\ call[c].server = "WRITTEN"
  /\ call' = [call EXCEPT ![c].server = "ENDED",
                          ![c].client = IF @ = "WAITING" THEN "ERROR" ELSE @]
  /\ UNCHANGED << row, lineage >>

\* The client times out or navigates away; the server does not notice.
GiveUp(c) ==
  /\ ~ Patient
  /\ call[c].client = "WAITING"
  /\ call' = [call EXCEPT ![c].client = "ERROR"]
  /\ UNCHANGED << row, lineage >>

ServerStep(c) == Hydrate(c) \/ RunAndWrite(c) \/ Respond(c) \/ Fail(c) \/ ReplyLost(c)

Next == \E c \in Calls : Send(c) \/ ServerStep(c) \/ GiveUp(c)

Spec == Init /\ [][Next]_vars

\* The platform keeps running a request it started.
FairSpec == Spec /\ \A c \in Calls : WF_vars(ServerStep(c))

-----------------------------------------------------------------------------
TypeOK ==
  /\ row \in [Visitors -> Document \cup {Absent, Unreadable}]
  /\ call \in [Calls -> CallRecord]
  /\ lineage \in [Visitors -> SUBSET Calls]

Acknowledged(v) ==
  {c \in Calls : /\ call[c].visitor = v
                 /\ call[c].kind # "RENDER"
                 /\ call[c].client = "OK"}

\* However requests interleave, fail or get lost, a stored document satisfies
\* every invariant of the resolution workflow: the row is always one command
\* away from a document that was stored before it (session.ts, mutateSessionFor).
StoredLegal ==
  \A v \in Visitors : row[v] \in {Absent, Unreadable} \/ LegalDocument(row[v])

\* A command that no other write of its visitor overlapped is in every later
\* document once it was acknowledged, and every later request reads it.
UncontendedSurvives ==
  \A v \in Visitors : \A c \in Acknowledged(v) :
    call[c].alone =>
      /\ c \in lineage[v]
      /\ \A d \in Calls :
           d # c /\ call[d].visitor = v /\ call[d].kind # "RENDER"
             /\ call[d].server = "HYDRATED" => c \in call[d].seen

\* Stated by session.test.ts: "a mutation must be durable by the time the command
\* route responds — the render that follows a router.refresh() has to see it".
AcknowledgedIsDurable == \A v \in Visitors : Acknowledged(v) \subseteq lineage[v]

\* Every request is answered: the client of a sent call ends up with a result.
EveryCallIsAnswered ==
  \A c \in Calls : call[c].client = "WAITING" ~> call[c].client \in {"OK", "ERROR"}

-----------------------------------------------------------------------------
(* What a visitor is told: each command takes effect at once on the one     *)
(* document.                                                                *)
Atomic == INSTANCE AtomicSession
  WITH doc <- [v \in Visitors |-> Usable(row[v])], Fixtures <- SeedDocument, Effects <- Outcomes

\* With one command at a time and a client that waits, the boundary is atomic.
ImplementsAtomicSession == Atomic!AtomicSpec
=============================================================================
