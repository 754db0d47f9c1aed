-------------------------- MODULE SessionStoreProofs --------------------------
(***************************************************************************)
(* What TLAPS proves of the session boundary, for any number of visitors,  *)
(* requests and overlaps: a stored document is always legal, although the  *)
(* store has no lock, and a command that no other write overlapped is      *)
(* never lost.                                                             *)
(***************************************************************************)
EXTENDS AskEpfoOne, ResolutionLemmas, FiniteSetTheorems

-----------------------------------------------------------------------------
(* How each step changes the record of its request. *)

SentRecord(q, b) == [q EXCEPT !.client = "WAITING", !.server = "SENT", !.alone = b]

CrowdedRecord(q) == [q EXCEPT !.alone = FALSE]

ReadRecord(q, copy, seen) == [q EXCEPT !.server = "HYDRATED", !.copy = copy, !.seen = seen]

DoneRecord(q, server, copy, client) ==
  [q EXCEPT !.server = server, !.copy = copy, !.client = client]

\* A request that is sent.
LEMMA SentFields ==
  ASSUME NEW q \in CallRecord, NEW b \in BOOLEAN
  PROVE  LET p == SentRecord(q, b)
         IN  /\ p \in CallRecord /\ p.server = "SENT" /\ p.client = "WAITING" /\ p.alone = b
             /\ p.visitor = q.visitor /\ p.kind = q.kind
BY DEF CallRecord, SentRecord

\* A request that is no longer alone.
LEMMA CrowdedFields ==
  ASSUME NEW q \in CallRecord
  PROVE  LET p == CrowdedRecord(q)
         IN  /\ p \in CallRecord /\ p.alone = FALSE
             /\ p.server = q.server /\ p.client = q.client /\ p.copy = q.copy
             /\ p.seen = q.seen /\ p.visitor = q.visitor /\ p.kind = q.kind
BY DEF CallRecord, CrowdedRecord

\* A request that has read its row.
LEMMA ReadFields ==
  ASSUME NEW q \in CallRecord, NEW copy \in Document, NEW seen \in SUBSET Calls
  PROVE  LET p == ReadRecord(q, copy, seen)
         IN  /\ p \in CallRecord /\ p.server = "HYDRATED" /\ p.copy = copy /\ p.seen = seen
             /\ p.client = q.client /\ p.alone = q.alone
             /\ p.visitor = q.visitor /\ p.kind = q.kind
BY DEF CallRecord, ReadRecord

\* A request that has written its row, or has ended, or lost its client.
LEMMA DoneFields ==
  ASSUME NEW q \in CallRecord, NEW server \in {q.server, "WRITTEN", "ENDED"},
         NEW copy \in {q.copy, NoCopy}, NEW client \in {q.client, "OK", "ERROR"}
  PROVE  LET p == DoneRecord(q, server, copy, client)
         IN  /\ p \in CallRecord /\ p.server = server /\ p.copy = copy /\ p.client = client
             /\ p.seen = q.seen /\ p.alone = q.alone
             /\ p.visitor = q.visitor /\ p.kind = q.kind
BY DEF CallRecord, DoneRecord

\* Every other request stays as it was.
OthersKept(c) ==
  /\ call' \in [Calls -> CallRecord]
  /\ \A d \in Calls : call'[d].visitor = call[d].visitor /\ call'[d].kind = call[d].kind
  /\ \A d \in Calls \ {c} :
       /\ call'[d].client = call[d].client /\ call'[d].server = call[d].server
       /\ call'[d].copy = call[d].copy /\ call'[d].seen = call[d].seen

Overlaps(c) == call[c].kind # "RENDER" /\ Writers(call[c].visitor) # {}

\* Send: the request starts, and whoever it overlaps is no longer alone.
LEMMA SendStep ==
  ASSUME TypeOK, NEW c \in Calls, Send(c)
  PROVE  /\ OthersKept(c) /\ UNCHANGED << row, lineage >>
         /\ call'[c].server = "SENT" /\ call'[c].client = "WAITING"
         /\ call'[c].alone => ~ Overlaps(c)
         /\ \A d \in Calls \ {c} :
              call'[d].alone => call[d].alone /\ ~ (Overlaps(c) /\ d \in Writers(call[c].visitor))
<1> DEFINE b == ~ Overlaps(c)
           sent == SentRecord(call[c], b)
           crowded(d) == CrowdedRecord(call[d])
<1>1. /\ call' = [d \in Calls |->
           IF d = c THEN sent
           ELSE IF Overlaps(c) /\ d \in Writers(call[c].visitor) THEN crowded(d) ELSE call[d]]
      /\ UNCHANGED << row, lineage >>
  BY DEF Send, Overlaps, SentRecord, CrowdedRecord
<1>2. b \in BOOLEAN /\ call \in [Calls -> CallRecord]
  BY DEF TypeOK
<1> HIDE DEF b
<1>3. /\ sent \in CallRecord /\ sent.server = "SENT" /\ sent.client = "WAITING" /\ sent.alone = b
      /\ sent.visitor = call[c].visitor /\ sent.kind = call[c].kind
  BY <1>2, SentFields
<1>4. \A d \in Calls :
        /\ crowded(d) \in CallRecord /\ crowded(d).alone = FALSE
        /\ crowded(d).server = call[d].server /\ crowded(d).client = call[d].client
        /\ crowded(d).copy = call[d].copy /\ crowded(d).seen = call[d].seen
        /\ crowded(d).visitor = call[d].visitor /\ crowded(d).kind = call[d].kind
  BY <1>2, CrowdedFields
<1> HIDE DEF sent, crowded
<1>5. OthersKept(c)
  BY <1>1, <1>2, <1>3, <1>4 DEF OthersKept
<1> QED BY <1>1, <1>3, <1>4, <1>5 DEF b

\* Hydrate: the request takes a copy of the row.
LEMMA HydrateStep ==
  ASSUME TypeOK, NEW c \in Calls, Hydrate(c), Usable(row[call[c].visitor]) \in Document
  PROVE  /\ OthersKept(c) /\ UNCHANGED << row, lineage >>
         /\ call[c].server = "SENT" /\ call'[c].server = "HYDRATED"
         /\ call'[c].copy = Usable(row[call[c].visitor])
         /\ call'[c].seen = lineage[call[c].visitor]
         /\ call'[c].client = call[c].client
         /\ \A d \in Calls : call'[d].alone = call[d].alone
<1> DEFINE v == call[c].visitor
           copy == Usable(row[v])
           seen == lineage[v]
           q == ReadRecord(call[c], copy, seen)
<1>1. v \in Visitors /\ call[c] \in CallRecord /\ call \in [Calls -> CallRecord]
  BY DEF TypeOK, CallRecord
<1>2. copy \in Document /\ seen \in SUBSET Calls
  BY <1>1 DEF TypeOK
<1>3. call[c].server = "SENT" /\ call' = [call EXCEPT ![c] = q] /\ UNCHANGED << row, lineage >>
  BY DEF Hydrate, ReadRecord
<1> HIDE DEF copy, seen
<1>4. /\ q \in CallRecord /\ q.server = "HYDRATED" /\ q.copy = copy /\ q.seen = seen
      /\ q.client = call[c].client /\ q.alone = call[c].alone
      /\ q.visitor = v /\ q.kind = call[c].kind
  BY <1>1, <1>2, ReadFields
<1> HIDE DEF q
<1> QED BY <1>1, <1>3, <1>4 DEF OthersKept, copy, seen

\* The steps that end a request's work or its client's patience.
LEMMA DoneStep ==
  ASSUME TypeOK, NEW c \in Calls,
         NEW server \in {call[c].server, "WRITTEN", "ENDED"},
         NEW copy \in {call[c].copy, NoCopy}, NEW client \in {call[c].client, "OK", "ERROR"},
         call' = [call EXCEPT ![c] = DoneRecord(call[c], server, copy, client)]
  PROVE  /\ OthersKept(c)
         /\ call'[c].server = server /\ call'[c].copy = copy /\ call'[c].client = client
         /\ call'[c].seen = call[c].seen
         /\ \A d \in Calls : call'[d].alone = call[d].alone
<1> DEFINE q == DoneRecord(call[c], server, copy, client)
<1>1. call[c] \in CallRecord /\ call \in [Calls -> CallRecord]
  BY DEF TypeOK
<1>2. /\ q \in CallRecord /\ q.server = server /\ q.copy = copy /\ q.client = client
      /\ q.seen = call[c].seen /\ q.alone = call[c].alone
      /\ q.visitor = call[c].visitor /\ q.kind = call[c].kind
  BY <1>1, DoneFields
<1>3. call' = [call EXCEPT ![c] = q]
  OBVIOUS
<1> HIDE DEF q
<1> QED BY <1>1, <1>2, <1>3 DEF OthersKept

\* RunAndWrite: the result goes into the row and the copy is gone.
LEMMA WriteStep ==
  ASSUME TypeOK, NEW c \in Calls, RunAndWrite(c)
  PROVE  /\ OthersKept(c)
         /\ call[c].server = "HYDRATED" /\ call[c].kind # "RENDER"
         /\ call'[c].server = "WRITTEN" /\ call'[c].client = call[c].client
         /\ \A d \in Calls : call'[d].alone = call[d].alone
<1> DEFINE q == DoneRecord(call[c], "WRITTEN", NoCopy, call[c].client)
<1>1. call' = [call EXCEPT ![c] = q]
  BY DEF RunAndWrite, TypeOK, CallRecord, DoneRecord
<1> QED BY <1>1, DoneStep DEF RunAndWrite

\* Respond, Fail and ReplyLost: the request ends; only an answer to a written
\* command, or to a render, is a success.
LEMMA EndStep ==
  ASSUME TypeOK, NEW c \in Calls, Respond(c) \/ Fail(c) \/ ReplyLost(c)
  PROVE  /\ OthersKept(c) /\ UNCHANGED << row, lineage >>
         /\ call[c].server \in {"SENT", "HYDRATED", "WRITTEN"} /\ call'[c].server = "ENDED"
         /\ call[c].client # "IDLE" => call'[c].client \in {"OK", "ERROR"}
         /\ call'[c].client \in {call[c].client, "ERROR"}
              \/ call[c].server = "WRITTEN" \/ call[c].kind = "RENDER"
         /\ \A d \in Calls : call'[d].alone = call[d].alone
<1> DEFINE Q(copy, client) == DoneRecord(call[c], "ENDED", copy, client)
           old == call[c].client
<1>0. old \in {"IDLE", "WAITING", "OK", "ERROR"}
  BY DEF TypeOK, CallRecord
<1>1. CASE Respond(c)
  <2>1. \E client \in {old, "OK"} : /\ client = old => old # "WAITING"
                                    /\ call' = [call EXCEPT ![c] = Q(NoCopy, client)]
    BY <1>1 DEF Respond, TypeOK, CallRecord, DoneRecord
  <2> QED BY <1>0, <1>1, <2>1, DoneStep DEF Respond
<1>2. CASE Fail(c)
  <2>1. \E client \in {old, "ERROR"} : /\ client = old => old # "WAITING"
                                       /\ call' = [call EXCEPT ![c] = Q(NoCopy, client)]
    BY <1>2 DEF Fail, TypeOK, CallRecord, DoneRecord
  <2> QED BY <1>0, <1>2, <2>1, DoneStep DEF Fail
<1>3. CASE ReplyLost(c)
  <2>1. \E client \in {old, "ERROR"} : /\ client = old => old # "WAITING"
                                       /\ call' = [call EXCEPT ![c] = Q(call[c].copy, client)]
    BY <1>3 DEF ReplyLost, TypeOK, CallRecord, DoneRecord
  <2> QED BY <1>0, <1>3, <2>1, DoneStep DEF ReplyLost
<1> QED BY <1>1, <1>2, <1>3

\* GiveUp: only the client changes.
LEMMA GiveUpStep ==
  ASSUME TypeOK, NEW c \in Calls, GiveUp(c)
  PROVE  /\ OthersKept(c) /\ UNCHANGED << row, lineage >>
         /\ call'[c].server = call[c].server /\ call'[c].copy = call[c].copy
         /\ call[c].client = "WAITING" /\ call'[c].client = "ERROR"
         /\ call'[c].seen = call[c].seen
         /\ \A d \in Calls : call'[d].alone = call[d].alone
<1> DEFINE q == DoneRecord(call[c], call[c].server, call[c].copy, "ERROR")
<1>1. call' = [call EXCEPT ![c] = q]
  BY DEF GiveUp, TypeOK, CallRecord, DoneRecord
<1> QED BY <1>1, DoneStep DEF GiveUp

-----------------------------------------------------------------------------
(* A row is always legal. *)

\* The working copy of a request that has read its row.
CopiesLegal ==
  \A c \in Calls : call[c].server = "HYDRATED" => LegalDocument(call[c].copy)

\* A request's command leaves a legal document (OutcomesLegal, on the copy).
LEMMA ResultsLegal ==
  ASSUME NEW c \in Calls, LegalDocument(call[c].copy)
  PROVE  \A e \in Results(c) : LegalDocument(e) /\ e \in Document
<1>1. Results(c) \subseteq Outcomes(call[c].copy)
  BY DEF Results, Outcomes
<1> QED BY <1>1, OutcomesLegal DEF LegalDocument

\* What hydrate makes of a legal row is legal: it is the row, or the fixtures.
LEMMA UsableLegal ==
  ASSUME NEW v \in Visitors, StoredLegal
  PROVE  LegalDocument(Usable(row[v])) /\ Usable(row[v]) \in Document
BY SeedLegal DEF StoredLegal, Usable, LegalDocument

\* The rows and the copies of running requests are legal together.
LEMMA RowsAndCopiesStayLegal == Spec => [](TypeOK /\ StoredLegal /\ CopiesLegal)
<1> DEFINE IInv == TypeOK /\ StoredLegal /\ CopiesLegal
<1>1. Init => IInv
  BY DEF Init, TypeOK, StoredLegal, CopiesLegal, CallRecord, Kind
<1>2. ASSUME IInv, [Next]_vars PROVE IInv'
  <2>1. /\ TypeOK /\ StoredLegal /\ CopiesLegal
        /\ \A c \in Calls : call[c].visitor \in Visitors /\ call[c].seen \in SUBSET Calls
    BY <1>2 DEF TypeOK, CallRecord
  <2>2. ASSUME NEW c \in Calls, OthersKept(c), UNCHANGED << row, lineage >>,
               call'[c].server = "HYDRATED" =>
                 \/ LegalDocument(call'[c].copy)
                 \/ call[c].server = "HYDRATED" /\ call'[c].copy = call[c].copy
        PROVE  IInv'
    BY <2>1, <2>2 DEF OthersKept, TypeOK, StoredLegal, CopiesLegal
  <2>3. ASSUME NEW c \in Calls, Send(c) PROVE IInv'
    BY <2>1, <2>2, <2>3, SendStep
  <2>4. ASSUME NEW c \in Calls, Hydrate(c) PROVE IInv'
    BY <2>1, <2>2, <2>4, UsableLegal, HydrateStep
  <2>5. ASSUME NEW c \in Calls, Respond(c) \/ Fail(c) \/ ReplyLost(c) PROVE IInv'
    BY <2>1, <2>2, <2>5, EndStep
  <2>6. ASSUME NEW c \in Calls, GiveUp(c) PROVE IInv'
    BY <2>1, <2>2, <2>6, GiveUpStep
  <2>7. ASSUME NEW c \in Calls, RunAndWrite(c) PROVE IInv'
    <3> DEFINE v == call[c].visitor
    <3>1. PICK e \in Results(c) : row' = [row EXCEPT ![v] = e]
      BY <2>7 DEF RunAndWrite
    <3>2. LegalDocument(e) /\ e \in Document
      BY <2>1, <2>7, <3>1, ResultsLegal DEF RunAndWrite, CopiesLegal
    <3>3. lineage' = [lineage EXCEPT ![v] = call[c].seen \cup {c}]
      BY <2>7 DEF RunAndWrite
    <3>4. OthersKept(c) /\ call'[c].server = "WRITTEN"
      BY <2>1, <2>7, WriteStep
    <3>5. CopiesLegal'
      BY <2>1, <3>4 DEF OthersKept, CopiesLegal
    <3>6. v \in Visitors /\ call[c].seen \cup {c} \in SUBSET Calls
      BY <2>1
    <3> HIDE DEF v
    <3>7. row' \in [Visitors -> Document \cup {Absent, Unreadable}] /\ StoredLegal'
      BY <2>1, <3>1, <3>2, <3>6 DEF TypeOK, StoredLegal
    <3>8. lineage' \in [Visitors -> SUBSET Calls]
      BY <2>1, <3>3, <3>6 DEF TypeOK
    <3> QED BY <3>4, <3>5, <3>7, <3>8 DEF TypeOK, OthersKept
  <2>8. CASE UNCHANGED vars
    BY <2>1, <2>8 DEF vars, TypeOK, StoredLegal, CopiesLegal
  <2> HIDE DEF IInv
  <2> QED BY <1>2, <2>3, <2>4, <2>5, <2>6, <2>7, <2>8 DEF Next, ServerStep
<1>3. IInv => TypeOK /\ StoredLegal /\ CopiesLegal
  OBVIOUS
<1> HIDE DEF IInv
<1> QED BY <1>1, <1>2, <1>3, PTL DEF Spec

\* A stored document satisfies every invariant of the resolution workflow,
\* however the requests of its visitor interleave, fail or get lost
\* (session.ts, mutateSessionFor): no overlap can corrupt a row.
THEOREM RowsStayLegal == Spec => [](TypeOK /\ StoredLegal)
BY RowsAndCopiesStayLegal, PTL

\* The rows, copies and calls keep their shape, whatever overlaps, fails or is given up.
THEOREM StoreTypeCorrect == Spec => []TypeOK
BY RowsStayLegal, PTL

\* However a visitor's requests overlap, and whatever a lost update takes away, no stored
\* document pays without both parties behind it: a settlement that is on its way always
\* stands beside the corrected records, the approvals and the member's submission.
THEOREM StoredPaymentIsAuthorised ==
  Spec => [](\A v \in Visitors : row[v] \in {Absent, Unreadable} \/ PaymentAuthorised(row[v]))
<1>1. StoredLegal =>
        \A v \in Visitors : row[v] \in {Absent, Unreadable} \/ PaymentAuthorised(row[v])
  BY LegalIsAuthorised DEF StoredLegal
<1> QED BY <1>1, RowsStayLegal, PTL

-----------------------------------------------------------------------------
(* A command that nothing overlapped is never lost.                         *)

Writer(c) == call[c].kind # "RENDER"

\* Its effect is in the row, or was acknowledged.
Persisted(c) == call[c].server = "WRITTEN" \/ call[c].client = "OK"

\* An acknowledgement ends the request.
AnswersEnd == \A c \in Calls : call[c].client = "OK" => call[c].server = "ENDED"

\* alone is what it says: no other write of the visitor is in flight.
AloneIsAlone ==
  \A c, d \in Calls :
    /\ Writer(c) /\ Live(c) /\ call[c].alone
    /\ Writer(d) /\ Live(d) /\ call[d].visitor = call[c].visitor
    => c = d

\* The row carries every such command, and so does every copy taken of it.
AloneIsCarried ==
  \A c \in Calls :
    Writer(c) /\ call[c].alone /\ Persisted(c) =>
      /\ c \in lineage[call[c].visitor]
      /\ \A d \in Calls \ {c} :
           /\ call[d].visitor = call[c].visitor
           /\ Writer(d)
           /\ call[d].server = "HYDRATED"
           => c \in call[d].seen

\* The inductive step of the next theorem, for a step that leaves the rows alone
\* and can neither start a request nor persist a command.
LEMMA QuietStepCarries ==
  ASSUME TypeOK, AnswersEnd, AloneIsAlone, AloneIsCarried,
         NEW c \in Calls, OthersKept(c), lineage' = lineage,
         \A d \in Calls : call'[d].alone = call[d].alone,
         Live(c)' => Live(c),
         call'[c].client = "OK" => call'[c].server = "ENDED",
         Writer(c) /\ Persisted(c)' => Persisted(c),
         call'[c].server = "HYDRATED" =>
           \/ call'[c].seen = lineage[call[c].visitor]
           \/ call[c].server = "HYDRATED" /\ call'[c].seen = call[c].seen
  PROVE  AnswersEnd' /\ AloneIsAlone' /\ AloneIsCarried'
<1>1. \A d \in Calls \ {c} : (Live(d)' <=> Live(d)) /\ (Persisted(d)' <=> Persisted(d))
  BY DEF OthersKept, Live, Persisted
<1>2. \A d \in Calls : (Writer(d)' <=> Writer(d)) /\ call'[d].visitor = call[d].visitor
  BY DEF OthersKept, Writer
<1>3. AnswersEnd'
  BY DEF OthersKept, AnswersEnd
<1>4. AloneIsAlone'
  BY <1>1, <1>2 DEF AloneIsAlone
<1>5. AloneIsCarried'
  BY <1>1, <1>2 DEF AloneIsCarried, OthersKept
<1> QED BY <1>3, <1>4, <1>5

\* Who is alone is known, and what such a command did is carried on.
LEMMA AloneIsKept == Spec => [](AnswersEnd /\ AloneIsAlone /\ AloneIsCarried)
<1> DEFINE IInv == AnswersEnd /\ AloneIsAlone /\ AloneIsCarried
<1>1. Init => IInv
  <2> SUFFICES ASSUME Init PROVE IInv
    OBVIOUS
  <2>1. \A c \in Calls : call[c].server = "NONE" /\ call[c].client = "IDLE"
    BY DEF Init
  <2> QED BY <2>1 DEF AnswersEnd, AloneIsAlone, AloneIsCarried, Live, Persisted
<1>2. ASSUME TypeOK, StoredLegal, IInv, [Next]_vars PROVE IInv'
  <2>1. TypeOK /\ StoredLegal /\ AnswersEnd /\ AloneIsAlone /\ AloneIsCarried
    BY <1>2
  <2>2. \A c \in Calls : call[c].visitor \in Visitors /\ call[c].alone \in BOOLEAN
    BY <2>1 DEF TypeOK, CallRecord
  <2>3. ASSUME NEW c \in Calls, Hydrate(c) PROVE IInv'
    <3>1. Usable(row[call[c].visitor]) \in Document
      BY <2>1, <2>2, UsableLegal
    <3> QED BY <2>1, <2>3, <3>1, HydrateStep, QuietStepCarries DEF Live, Persisted, AnswersEnd
  <2>4. ASSUME NEW c \in Calls, Respond(c) \/ Fail(c) \/ ReplyLost(c) PROVE IInv'
    BY <2>1, <2>4, EndStep, QuietStepCarries DEF Live, Persisted, AnswersEnd, Writer
  <2>5. ASSUME NEW c \in Calls, GiveUp(c) PROVE IInv'
    BY <2>1, <2>5, GiveUpStep, QuietStepCarries DEF Live, Persisted, AnswersEnd, OthersKept
  <2>6. ASSUME NEW c \in Calls, Send(c) PROVE IInv'
    <3>1. /\ OthersKept(c) /\ UNCHANGED << row, lineage >>
          /\ call'[c].server = "SENT" /\ call'[c].client = "WAITING"
          /\ call'[c].alone => ~ Overlaps(c)
          /\ \A d \in Calls \ {c} :
               call'[d].alone =>
                 call[d].alone /\ ~ (Overlaps(c) /\ d \in Writers(call[c].visitor))
      BY <2>1, <2>6, SendStep
    <3>2. \A d \in Calls \ {c} : (Live(d)' <=> Live(d)) /\ (Persisted(d)' <=> Persisted(d))
      BY <3>1 DEF OthersKept, Live, Persisted
    <3>3. \A d \in Calls : (Writer(d)' <=> Writer(d)) /\ call'[d].visitor = call[d].visitor
      BY <3>1 DEF OthersKept, Writer
    <3>4. ~ Persisted(c)'
      BY <3>1 DEF Persisted
    <3>5. AnswersEnd'
      BY <2>1, <3>1 DEF OthersKept, AnswersEnd
    <3>6. AloneIsAlone'
      <4> SUFFICES ASSUME NEW x \in Calls, NEW y \in Calls, x # y,
                          Writer(x)', Live(x)', call'[x].alone, Writer(y)', Live(y)',
                          call'[y].visitor = call'[x].visitor
                   PROVE  FALSE
        BY DEF AloneIsAlone
      <4>1. CASE x = c
        BY <4>1, <3>1, <3>2, <3>3 DEF Overlaps, Writers, Writer
      <4>2. CASE y = c
        BY <4>2, <3>1, <3>2, <3>3 DEF Overlaps, Writers, Writer
      <4>3. CASE x # c /\ y # c
        BY <4>3, <2>1, <3>1, <3>2, <3>3 DEF AloneIsAlone
      <4> QED BY <4>1, <4>2, <4>3
    <3>7. AloneIsCarried'
      BY <2>1, <3>1, <3>2, <3>3, <3>4 DEF AloneIsCarried, OthersKept
    <3> QED BY <3>5, <3>6, <3>7
  <2>7. ASSUME NEW c \in Calls, RunAndWrite(c) PROVE IInv'
    <3> DEFINE v == call[c].visitor
    <3>1. /\ OthersKept(c)
          /\ call[c].server = "HYDRATED" /\ call[c].kind # "RENDER"
          /\ call'[c].server = "WRITTEN" /\ call'[c].client = call[c].client
          /\ \A d \in Calls : call'[d].alone = call[d].alone
      BY <2>1, <2>7, WriteStep
    <3>2. lineage' = [lineage EXCEPT ![v] = call[c].seen \cup {c}] /\ v \in Visitors
      BY <2>2, <2>7 DEF RunAndWrite
    <3>3. \A d \in Calls : (Live(d)' <=> Live(d)) /\ (d # c => (Persisted(d)' <=> Persisted(d)))
      BY <3>1 DEF OthersKept, Live, Persisted
    <3>4. \A d \in Calls : (Writer(d)' <=> Writer(d)) /\ call'[d].visitor = call[d].visitor
      BY <3>1 DEF OthersKept, Writer
    <3>5. AnswersEnd'
      BY <2>1, <3>1 DEF OthersKept, AnswersEnd
    <3>6. AloneIsAlone'
      BY <2>1, <3>1, <3>3, <3>4 DEF AloneIsAlone
    <3>7. AloneIsCarried'
      <4> SUFFICES ASSUME NEW x \in Calls, Writer(x), call[x].alone, Persisted(x)'
                   PROVE  /\ x \in lineage'[call[x].visitor]
                          /\ \A d \in Calls \ {x} :
                               call[d].visitor = call[x].visitor /\ Writer(d)
                                 /\ call'[d].server = "HYDRATED" => x \in call'[d].seen
        BY <3>1, <3>4 DEF AloneIsCarried
      <4>1. CASE x = c
        <5>1. x \in lineage'[call[x].visitor]
          BY <4>1, <2>1, <3>2 DEF TypeOK
        <5>2. Live(c) /\ Writer(c)
          BY <3>1 DEF Live, Writer
        <5>3. ASSUME NEW d \in Calls \ {x}, call[d].visitor = v, Writer(d),
                     call'[d].server = "HYDRATED"
              PROVE  FALSE
          <6>1. Live(d)
            BY <5>3, <4>1, <3>1 DEF OthersKept, Live
          <6> QED BY <6>1, <5>2, <5>3, <4>1, <2>1 DEF AloneIsAlone
        <5> QED BY <4>1, <5>1, <5>3
      <4>2. CASE x # c
        <5>1. Persisted(x)
          BY <4>2, <3>3
        <5>2. \A d \in Calls \ {x} :
                call[d].visitor = call[x].visitor /\ Writer(d) /\ call[d].server = "HYDRATED"
                  => x \in call[d].seen
          BY <5>1, <2>1 DEF AloneIsCarried
        <5>3. x \in lineage[call[x].visitor]
          BY <5>1, <2>1 DEF AloneIsCarried
        <5>4. call[x].visitor = v => x \in call[c].seen
          BY <5>2, <4>2, <3>1 DEF Writer
        <5>5. x \in lineage'[call[x].visitor]
          BY <5>3, <5>4, <2>1, <2>2, <3>2 DEF TypeOK
        <5> QED BY <5>2, <5>5, <3>1 DEF OthersKept
      <4> QED BY <4>1, <4>2
    <3> QED BY <3>5, <3>6, <3>7
  <2>8. CASE UNCHANGED vars
    BY <2>1, <2>8 DEF vars, AnswersEnd, AloneIsAlone, AloneIsCarried, Live, Persisted, Writer
  <2> HIDE DEF IInv
  <2> QED BY <1>2, <2>3, <2>4, <2>5, <2>6, <2>7, <2>8 DEF Next, ServerStep
<1>3. IInv => AnswersEnd /\ AloneIsAlone /\ AloneIsCarried
  OBVIOUS
<1> HIDE DEF IInv
<1> QED BY <1>1, <1>2, <1>3, RowsStayLegal, PTL DEF Spec

\* A command that no other write of its visitor overlapped is in every later
\* document, and every later command works on a copy that has it.
THEOREM UncontendedIsNeverLost == Spec => []UncontendedSurvives
<1>1. AloneIsCarried => UncontendedSurvives
  BY DEF UncontendedSurvives, Acknowledged, AloneIsCarried, Persisted, Writer
<1> QED BY <1>1, AloneIsKept, PTL

-----------------------------------------------------------------------------
(* Clients that wait.                                                       *)

\* Of a visitor who waits for every command, no two commands are ever under way.
OneAtATime ==
  \A c \in Calls :
    call[c].alone /\ (Live(c) /\ Writer(c) => call[c].client = "WAITING")

\* Clients that wait never overlap with themselves.
LEMMA PatientClientsAreAlone ==
  ASSUME Patient, MaxOutstanding = 1, IsFiniteSet(Calls)
  PROVE  Spec => []OneAtATime
<1>1. Init => OneAtATime
  BY DEF Init, OneAtATime, Live
<1>2. ASSUME TypeOK, StoredLegal, OneAtATime, [Next]_vars
      PROVE  OneAtATime'
  <2>1. \A c \in Calls : call[c].visitor \in Visitors /\ call[c].alone \in BOOLEAN
    BY <1>2 DEF TypeOK, CallRecord
  <2>2. ASSUME NEW c \in Calls, OthersKept(c), \A d \in Calls : call'[d].alone = call[d].alone,
               Live(c)' => Live(c) /\ call'[c].client = call[c].client
        PROVE  OneAtATime'
    BY <1>2, <2>2 DEF OneAtATime, OthersKept, Live, Writer
  <2>3. ASSUME NEW c \in Calls, Send(c)
        PROVE  OneAtATime'
    <3>1. Writers(call[c].visitor) = {} \/ call[c].kind = "RENDER"
      <4> SUFFICES ASSUME call[c].kind # "RENDER"
                   PROVE  Writers(call[c].visitor) = {}
        OBVIOUS
      <4>1. IsFiniteSet(Waiting(call[c].visitor))
        <5>1. Waiting(call[c].visitor) \subseteq Calls
          BY DEF Waiting
        <5> QED BY <5>1, FS_Subset
      <4>2. Cardinality(Waiting(call[c].visitor)) = 0
        <5>1. Cardinality(Waiting(call[c].visitor)) \in Nat
          BY <4>1, FS_CardinalityType
        <5>2. Cardinality(Waiting(call[c].visitor)) < MaxOutstanding
          BY <2>3, Zenon DEF Send
        <5> QED BY <5>1, <5>2
      <4>3. Waiting(call[c].visitor) = {}
        BY <4>1, <4>2, FS_EmptySet
      <4>4. Writers(call[c].visitor) \subseteq Waiting(call[c].visitor)
        BY <1>2 DEF OneAtATime, Writers, Waiting, Writer
      <4> QED BY <4>3, <4>4
    <3>2. ~ Overlaps(c)
      BY <3>1 DEF Overlaps
    <3>3. call' = [d \in Calls |-> IF d = c THEN SentRecord(call[c], TRUE) ELSE call[d]]
      BY <2>3, <3>2 DEF Send, Overlaps, SentRecord
    <3>4. /\ SentRecord(call[c], TRUE).alone = TRUE
          /\ SentRecord(call[c], TRUE).client = "WAITING"
          /\ SentRecord(call[c], TRUE).kind = call[c].kind
      BY <1>2, SentFields DEF TypeOK
    <3> QED BY <1>2, <3>3, <3>4 DEF OneAtATime, Live, Writer
  <2>4. ASSUME NEW c \in Calls, Hydrate(c)
        PROVE  OneAtATime'
    <3>1. Usable(row[call[c].visitor]) \in Document
      BY <1>2, <2>1, UsableLegal
    <3> QED BY <1>2, <2>2, <2>4, <3>1, HydrateStep DEF Live
  <2>5. ASSUME NEW c \in Calls, RunAndWrite(c)
        PROVE  OneAtATime'
    BY <1>2, <2>2, <2>5, WriteStep DEF Live
  <2>6. ASSUME NEW c \in Calls, Respond(c) \/ Fail(c) \/ ReplyLost(c)
        PROVE  OneAtATime'
    BY <1>2, <2>2, <2>6, EndStep DEF Live
  <2>7. ASSUME NEW c \in Calls, GiveUp(c)
        PROVE  OneAtATime'
    BY <2>7 DEF GiveUp
  <2>8. CASE UNCHANGED vars
    BY <1>2, <2>8 DEF vars, OneAtATime, Live, Writer
  <2> QED BY <1>2, <2>3, <2>4, <2>5, <2>6, <2>7, <2>8 DEF Next, ServerStep
<1> QED BY <1>1, <1>2, RowsStayLegal, PTL DEF Spec

\* A client that sends one command at a time and waits for its answer never loses an
\* acknowledged command, over any number of requests and visitors, and with failures,
\* lost replies and renders in between: this is what session.test.ts promises, and the
\* condition under which it is true.
THEOREM PatientClientsLoseNothing ==
  ASSUME Patient, MaxOutstanding = 1, IsFiniteSet(Calls)
  PROVE  Spec => []AcknowledgedIsDurable
<1>1. OneAtATime /\ UncontendedSurvives => AcknowledgedIsDurable
  BY DEF OneAtATime, UncontendedSurvives, AcknowledgedIsDurable, Acknowledged
<1> QED BY <1>1, PatientClientsAreAlone, UncontendedIsNeverLost, PTL

\* The copy a command works on is the row itself.
CopyIsCurrent ==
  \A c \in Calls :
    Writer(c) /\ call[c].server = "HYDRATED" => call[c].copy = Usable(row[call[c].visitor])

\* Between the read and the write of a command nothing else of its visitor is written.
PatientInv ==
  TypeOK /\ StoredLegal /\ CopiesLegal /\ OneAtATime /\ AloneIsAlone /\ CopyIsCurrent

Visible(v) == Usable(row[v])

\* No visitor's document changes.
NobodyActs == \A v \in Visitors : Visible(v)' = Visible(v)

\* The command of one request is carried out on its visitor's document, at once.
Acts(v, c) ==
  /\ call[c].visitor = v
  /\ call[c].server = "HYDRATED" /\ call'[c].server = "WRITTEN"
  /\ \A w \in Visitors \ {v} : Visible(w)' = Visible(w)
  /\ Visible(v)' \in IF call[c].kind = "RESET" THEN Reset(Visible(v))
                                              ELSE CommandOutcomes(Visible(v))

\* Every step of such a session is seen by its visitors as nothing or as one command.
LEMMA PatientSteps ==
  ASSUME Patient, PatientInv, [Next]_vars
  PROVE  CopyIsCurrent' /\ (NobodyActs \/ \E v \in Visitors, c \in Calls : Acts(v, c))
<1>1. /\ TypeOK /\ StoredLegal /\ CopiesLegal /\ OneAtATime /\ AloneIsAlone /\ CopyIsCurrent
      /\ \A c \in Calls : call[c].visitor \in Visitors
  BY DEF PatientInv, TypeOK, CallRecord
<1>2. ASSUME NEW c \in Calls, OthersKept(c), UNCHANGED << row, lineage >>,
             call'[c].server = "HYDRATED" =>
               \/ call'[c].copy = Usable(row[call[c].visitor])
               \/ call[c].server = "HYDRATED" /\ call'[c].copy = call[c].copy
      PROVE  CopyIsCurrent' /\ NobodyActs
  <2>1. CopyIsCurrent'
    BY <1>1, <1>2 DEF CopyIsCurrent, OthersKept, Writer, Usable
  <2>2. NobodyActs
    BY <1>2 DEF NobodyActs, Visible, Usable
  <2> QED BY <2>1, <2>2
<1>3. ASSUME NEW c \in Calls, Send(c) PROVE CopyIsCurrent' /\ NobodyActs
  BY <1>1, <1>2, <1>3, SendStep
<1>4. ASSUME NEW c \in Calls, Hydrate(c) PROVE CopyIsCurrent' /\ NobodyActs
  BY <1>1, <1>2, <1>4, UsableLegal, HydrateStep
<1>5. ASSUME NEW c \in Calls, Respond(c) \/ Fail(c) \/ ReplyLost(c)
      PROVE  CopyIsCurrent' /\ NobodyActs
  BY <1>1, <1>2, <1>5, EndStep
<1>6. ASSUME NEW c \in Calls, GiveUp(c) PROVE FALSE
  BY <1>6 DEF GiveUp
<1>7. ASSUME NEW c \in Calls, RunAndWrite(c) PROVE CopyIsCurrent' /\ \E v \in Visitors : Acts(v, c)
  <2>0. PICK v \in Visitors : v = call[c].visitor
    BY <1>1
  <2>1. PICK e \in Results(c) : row' = [row EXCEPT ![v] = e]
    BY <1>7, <2>0 DEF RunAndWrite
  <2>2. OthersKept(c) /\ call[c].server = "HYDRATED" /\ Writer(c) /\ call'[c].server = "WRITTEN"
    BY <1>1, <1>7, WriteStep DEF Writer
  <2>3. row \in [Visitors -> Document \cup {Absent, Unreadable}]
    BY <1>1 DEF TypeOK
  <2>4. e \in Document
    BY <1>1, <2>1, <2>2, ResultsLegal DEF CopiesLegal
  <2>5. e \in IF call[c].kind = "RESET" THEN Reset(Usable(row[v]))
                                        ELSE CommandOutcomes(Usable(row[v]))
    BY <1>1, <2>0, <2>1, <2>2 DEF CopyIsCurrent, Results
  <2>6. CopyIsCurrent'
    <3> SUFFICES ASSUME NEW d \in Calls, Writer(d)', call'[d].server = "HYDRATED"
                 PROVE  call'[d].copy = Usable(row'[call'[d].visitor])
      BY DEF CopyIsCurrent, Usable
    <3>1. /\ d # c /\ Writer(d) /\ call[d].server = "HYDRATED"
          /\ call'[d].copy = call[d].copy /\ call'[d].visitor = call[d].visitor
      BY <2>2 DEF OthersKept, Writer
    <3>2. call[d].visitor # v
      BY <1>1, <2>0, <2>2, <3>1 DEF OneAtATime, AloneIsAlone, Live
    <3>3. row'[call[d].visitor] = row[call[d].visitor]
      BY <1>1, <2>1, <2>3, <3>2
    <3>4. call[d].copy = Usable(row[call[d].visitor])
      BY <1>1, <3>1 DEF CopyIsCurrent
    <3> QED BY <3>1, <3>3, <3>4 DEF Usable
  <2>7. \A w \in Visitors : Usable(row'[w]) = IF w = v THEN e ELSE Usable(row[w])
    BY <2>1, <2>3, <2>4, SessionAssumption DEF Usable
  <2>8. Acts(v, c)
    BY <2>0, <2>2, <2>5, <2>7 DEF Acts, Visible, Usable
  <2> QED BY <2>6, <2>8
<1>8. CASE UNCHANGED vars
  <2>1. CopyIsCurrent'
    BY <1>1, <1>8 DEF vars, CopyIsCurrent, Writer, Usable
  <2>2. NobodyActs
    BY <1>8 DEF vars, NobodyActs, Visible, Usable
  <2> QED BY <2>1, <2>2
<1> QED BY <1>3, <1>4, <1>5, <1>6, <1>7, <1>8 DEF Next, ServerStep

LEMMA PatientInvariant ==
  ASSUME Patient, MaxOutstanding = 1, IsFiniteSet(Calls)
  PROVE  Spec => []PatientInv
<1> DEFINE Rest == TypeOK /\ StoredLegal /\ CopiesLegal /\ OneAtATime /\ AloneIsAlone
<1>1. Init => CopyIsCurrent
  BY DEF Init, CopyIsCurrent
<1>2. Rest /\ CopyIsCurrent /\ [Next]_vars => CopyIsCurrent'
  BY PatientSteps DEF PatientInv
<1>3. Rest /\ CopyIsCurrent => PatientInv
  BY DEF PatientInv
<1>4. Spec => []Rest
  BY RowsAndCopiesStayLegal, AloneIsKept, PatientClientsAreAlone, PTL
<1> HIDE DEF Rest
<1> QED BY <1>1, <1>2, <1>3, <1>4, PTL DEF Spec

\* For the same clients the boundary, with its two awaits, cannot be told from a session
\* that carries out each command in one step.
THEOREM PatientSessionIsAtomic ==
  ASSUME Patient, MaxOutstanding = 1, IsFiniteSet(Calls)
  PROVE  Spec => ImplementsAtomicSession
<1> DEFINE Doc == [v \in Visitors |-> Usable(row[v])]
<1>1. Init => Atomic!AtomicInit
  BY DEF Init, Usable, Atomic!AtomicInit
<1>2. ASSUME PatientInv, [Next]_vars
      PROVE  [\E v \in Visitors : Atomic!Execute(v)]_Doc
  <2>1. CASE NobodyActs
    BY <2>1 DEF NobodyActs, Visible, Usable
  <2>2. ASSUME NEW v \in Visitors, NEW c \in Calls, Acts(v, c)
        PROVE  Atomic!Execute(v)
    <3>1. PICK e \in Outcomes(Doc[v]) : e = Usable(row[v])'
      BY <2>2 DEF Acts, Visible, Outcomes, Usable
    <3>2. \A w \in Visitors \ {v} : Usable(row[w])' = Usable(row[w])
      BY <2>2 DEF Acts, Visible, Usable
    <3>3. Doc' = [Doc EXCEPT ![v] = e]
      BY <3>1, <3>2 DEF Usable
    <3> QED BY <3>1, <3>2, <3>3 DEF Atomic!Execute
  <2> QED BY <1>2, <2>1, <2>2, PatientSteps
<1> QED BY <1>1, <1>2, PatientInvariant, PTL
      DEF Spec, ImplementsAtomicSession, Atomic!AtomicSpec

\* What a visitor's settlement is, seen through the session boundary.
Journey(v) == INSTANCE ClaimJourney
  WITH Defects <- OpenDefects(SeedDocument), blocking <- OpenDefects(Visible(v)),
       claim <- Visible(v).claim

\* Through reads, writes, failures, lost replies and renders, a visitor who waits sees his
\* settlement walk the claim journey: the refinement of the workflow survives the store.
THEOREM PatientJourneys ==
  ASSUME Patient, MaxOutstanding = 1, IsFiniteSet(Calls), NEW v \in Visitors
  PROVE  Spec => Journey(v)!JourneySpec
<1>1. Init => Journey(v)!JourneyInit
  <2> SUFFICES ASSUME Init PROVE Journey(v)!JourneyInit
    OBVIOUS
  <2>1. Visible(v) = SeedDocument
    BY DEF Init, Visible, Usable
  <2> QED BY <2>1 DEF SeedDocument, Journey!JourneyInit
<1>2. ASSUME PatientInv, [Next]_vars
      PROVE  [Journey(v)!JourneyNext]_(Journey(v)!journeyVars)
  <2> DEFINE d == Visible(v)
  <2>1. LegalDocument(d) /\ OpenDefects(d) \subseteq OpenDefects(SeedDocument)
    BY <1>2, UsableLegal, DefectsAreSeeded DEF PatientInv, Visible
  <2>2. Journey(v)!JourneySequence = CLAIM_SEQUENCE
    BY DEF Journey!JourneySequence, CLAIM_SEQUENCE
  <2>3. CASE d' = d
    BY <2>3 DEF Journey!journeyVars, OpenDefects
  <2>4. CASE d' \in CommandOutcomes(d)
    <3>1. JourneyMove(d, d')
      BY <2>1, <2>4, CommandIsJourneyMove
    <3> QED BY <2>1, <2>2, <3>1
            DEF JourneyMove, Journey!JourneyNext, Journey!journeyVars, Journey!RemoveDefect,
                Journey!MoveOn, OpenDefects
  <2>5. CASE d' = SeedDocument
    <3>1. Journey(v)!StartOver
      BY <2>5 DEF Journey!StartOver, SeedDocument, OpenDefects
    <3> QED BY <3>1 DEF Journey!JourneyNext
  <2>6. d' = d \/ d' \in CommandOutcomes(d) \/ d' = SeedDocument
    BY <1>2, PatientSteps DEF NobodyActs, Acts, Reset
  <2> QED BY <2>3, <2>4, <2>5, <2>6
<1> QED BY <1>1, <1>2, PatientInvariant, PTL DEF Spec, Journey!JourneySpec

\* A reset of the visitor is written.
ResetWritten(v) ==
  \E c \in Calls : /\ call[c].visitor = v /\ call[c].kind = "RESET"
                   /\ call[c].server = "HYDRATED" /\ call'[c].server = "WRITTEN"

\* For such a visitor no decision is taken back, no closed issue reopens and no entry of the
\* claim's history is lost, unless it is the visitor's own reset that is written: what a lost
\* update does to clients that overlap cannot happen to him.
THEOREM PatientRowsUndoNothing ==
  ASSUME Patient, MaxOutstanding = 1, IsFiniteSet(Calls)
  PROVE  Spec => [][\A v \in Visitors :
                      UndoesNothing(Visible(v), Visible(v)') \/ ResetWritten(v)]_vars
<1>1. ASSUME PatientInv, [Next]_vars, NEW v \in Visitors
      PROVE  UndoesNothing(Visible(v), Visible(v)') \/ ResetWritten(v)
  <2> DEFINE d == Visible(v)
  <2>1. LegalDocument(d)
    BY <1>1, UsableLegal DEF PatientInv, Visible
  <2>2. CASE d' = d
    BY <2>1, <2>2 DEF UndoesNothing, LegalDocument, Document
  <2>3. CASE d' \in CommandOutcomes(d)
    BY <2>1, <2>3, CommandsUndoNothing
  <2>4. d' = d \/ d' \in CommandOutcomes(d) \/ ResetWritten(v)
    BY <1>1, PatientSteps DEF NobodyActs, Acts, ResetWritten
  <2> HIDE DEF d
  <2> QED BY <2>2, <2>3, <2>4 DEF d
<1>2. PatientInv /\ [Next]_vars =>
        [\A v \in Visitors :
           UndoesNothing(Visible(v), Visible(v)') \/ ResetWritten(v)]_vars
  BY <1>1
<1> QED BY <1>2, PatientInvariant, PTL DEF Spec

-----------------------------------------------------------------------------
(* Every request is answered.                                               *)

\* A client waits only for a request that is running, and has an outcome once it ended.
Answered ==
  \A c \in Calls :
    /\ call[c].client = "WAITING" => Live(c)
    /\ call[c].client = "IDLE" => call[c].server = "NONE"

LEMMA WaitingIsLive == Spec => [](TypeOK /\ StoredLegal /\ Answered)
<1>1. Init => Answered
  BY DEF Init, Answered
<1>2. ASSUME TypeOK, StoredLegal, Answered, [Next]_vars PROVE Answered'
  <2>1. \A c \in Calls : call[c].visitor \in Visitors
    BY <1>2 DEF TypeOK, CallRecord
  <2>2. ASSUME NEW c \in Calls, OthersKept(c),
               call'[c].client = "WAITING" => Live(c)',
               call'[c].client = "IDLE" => call'[c].server = "NONE"
        PROVE  Answered'
    BY <1>2, <2>2 DEF Answered, OthersKept, Live
  <2>3. ASSUME NEW c \in Calls, Send(c) PROVE Answered'
    BY <1>2, <2>2, <2>3, SendStep DEF Live
  <2>4. ASSUME NEW c \in Calls, Hydrate(c) PROVE Answered'
    BY <1>2, <2>1, <2>2, <2>4, UsableLegal, HydrateStep DEF Answered, Live
  <2>5. ASSUME NEW c \in Calls, RunAndWrite(c) PROVE Answered'
    BY <1>2, <2>2, <2>5, WriteStep DEF Answered, Live
  <2>6. ASSUME NEW c \in Calls, Respond(c) \/ Fail(c) \/ ReplyLost(c) PROVE Answered'
    BY <1>2, <2>2, <2>6, EndStep DEF Answered
  <2>7. ASSUME NEW c \in Calls, GiveUp(c) PROVE Answered'
    BY <1>2, <2>2, <2>7, GiveUpStep
  <2>8. CASE UNCHANGED vars
    BY <1>2, <2>8 DEF vars, Answered, Live
  <2> QED BY <1>2, <2>3, <2>4, <2>5, <2>6, <2>7, <2>8 DEF Next, ServerStep
<1> QED BY <1>1, <1>2, RowsStayLegal, PTL DEF Spec

\* What FairSpec says of one request: the platform keeps running a request that is under
\* way.  Live is the guard of ServerStep, in the place of ENABLED.
KeepsRunning(c) == []<>~ Live(c) \/ []<><< ServerStep(c) >>_vars

WaitEnds(c) == call[c].client = "WAITING" ~> call[c].client \in {"OK", "ERROR"}

\* Where the server's next step takes a request.
Onward == [SENT |-> {"HYDRATED", "ENDED"}, HYDRATED |-> {"WRITTEN", "ENDED"},
           WRITTEN |-> {"ENDED"}]

\* A running request stays where it is until the server moves it on, and no step of
\* another request or of its client moves it.
LEMMA ServerGoesOn ==
  ASSUME TypeOK, StoredLegal, Answered, NEW c \in Calls, Live(c)
  PROVE  /\ [Next]_vars => call'[c].server \in Onward[call[c].server] \cup {call[c].server}
         /\ << ServerStep(c) >>_vars => call'[c].server \in Onward[call[c].server]
<1>1. \A d \in Calls : call[d].visitor \in Visitors
  BY DEF TypeOK, CallRecord
<1>2. call[c].server \in {"SENT", "HYDRATED", "WRITTEN"}
  BY DEF Live
<1>3. ASSUME NEW d \in Calls, ServerStep(d)
      PROVE  OthersKept(d) /\ (d = c => call'[c].server \in Onward[call[c].server])
  <2>1. CASE Hydrate(d)
    BY <1>1, <2>1, UsableLegal, HydrateStep DEF Onward
  <2>2. CASE RunAndWrite(d)
    BY <2>2, WriteStep DEF Onward
  <2>3. CASE Respond(d) \/ Fail(d) \/ ReplyLost(d)
    BY <1>2, <2>3, EndStep DEF Onward
  <2> QED BY <1>3, <2>1, <2>2, <2>3 DEF ServerStep
<1>4. ASSUME [Next]_vars
      PROVE  call'[c].server \in Onward[call[c].server] \cup {call[c].server}
  <2>1. ASSUME NEW d \in Calls, Send(d) PROVE call'[c].server = call[c].server
    <3>1. d # c
      BY <2>1 DEF Send, Answered, Live
    <3> QED BY <2>1, <3>1, SendStep DEF OthersKept
  <2>2. ASSUME NEW d \in Calls, GiveUp(d) PROVE call'[c].server = call[c].server
    BY <2>2, GiveUpStep DEF OthersKept
  <2>3. ASSUME NEW d \in Calls, ServerStep(d)
        PROVE  call'[c].server \in Onward[call[c].server] \cup {call[c].server}
    BY <1>3, <2>3 DEF OthersKept
  <2>4. CASE UNCHANGED vars
    BY <2>4 DEF vars
  <2> QED BY <1>4, <2>1, <2>2, <2>3, <2>4 DEF Next
<1> QED BY <1>3, <1>4

\* One stage of a request.
EndsStage(c, stage) == call[c].server = stage ~> call[c].server \in Onward[stage]

LEMMA StageEnds ==
  ASSUME NEW CONSTANT c \in Calls, NEW CONSTANT stage \in {"SENT", "HYDRATED", "WRITTEN"}
  PROVE  Spec /\ KeepsRunning(c) => EndsStage(c, stage)
<1> DEFINE At == call[c].server = stage
           Past == call[c].server \in Onward[stage]
           Inv == TypeOK /\ StoredLegal /\ Answered
<1>1. At => Live(c)
  BY DEF Live
<1>2. Inv /\ At /\ [Next]_vars => At' \/ Past'
  BY <1>1, ServerGoesOn
<1>3. Inv /\ At /\ << ServerStep(c) >>_vars => Past'
  BY <1>1, ServerGoesOn
<1>4. Spec => []Inv
  BY WaitingIsLive
<1> HIDE DEF At, Past, Inv
<1>5. Spec /\ KeepsRunning(c) => (At ~> Past)
  BY <1>1, <1>2, <1>3, <1>4, PTL DEF Spec, KeepsRunning
<1> QED BY <1>5 DEF At, Past, EndsStage

\* Whoever waits for an answer gets one, an error at the worst, if the platform keeps
\* running requests: whatever the visitor's other requests and the other visitors do.
THEOREM CallsAreAnswered ==
  Spec /\ (\A c \in Calls : KeepsRunning(c)) => EveryCallIsAnswered
<1> SUFFICES ASSUME NEW CONSTANT c \in Calls
             PROVE  Spec /\ KeepsRunning(c) => WaitEnds(c)
  BY DEF EveryCallIsAnswered, WaitEnds
<1> DEFINE At(stage) == call[c].server = stage
           Waits == call[c].client = "WAITING"
           Done == call[c].client \in {"OK", "ERROR"}
           Inv == TypeOK /\ StoredLegal /\ Answered
<1>1. Inv /\ Waits => At("SENT") \/ At("HYDRATED") \/ At("WRITTEN")
  BY DEF Answered, Live
<1>2. Inv => call[c] \in CallRecord
  BY DEF TypeOK
<1>3. Inv /\ At("ENDED") => Done
  BY <1>2 DEF CallRecord, Answered, Live
<1>4. Spec => []Inv
  BY WaitingIsLive
<1>5. Spec /\ KeepsRunning(c) => EndsStage(c, "SENT")
  BY StageEnds
<1>6. Spec /\ KeepsRunning(c) => EndsStage(c, "HYDRATED")
  BY StageEnds
<1>7. Spec /\ KeepsRunning(c) => EndsStage(c, "WRITTEN")
  BY StageEnds
<1>8. /\ call[c].server \in Onward["SENT"] => At("HYDRATED") \/ At("ENDED")
      /\ call[c].server \in Onward["HYDRATED"] => At("WRITTEN") \/ At("ENDED")
      /\ call[c].server \in Onward["WRITTEN"] => At("ENDED")
  BY DEF Onward
<1> HIDE DEF Waits, Done, Inv
<1>9. Spec /\ KeepsRunning(c) => (Waits ~> Done)
  BY <1>1, <1>3, <1>4, <1>5, <1>6, <1>7, <1>8, PTL DEF EndsStage
<1> QED BY <1>9 DEF Waits, Done, WaitEnds

-----------------------------------------------------------------------------
(* Questions.                                                               *)

\* A question reads and never writes: beside any number of questions the session is the
\* session of this module's other theorems.
THEOREM QuestionsOnlyRead == AskSpec => Spec
<1>1. AskInit => Init
  BY DEF AskInit
<1>2. [AskNext]_<< vars, askVars >> => [Next]_vars
  BY DEF AskNext, SessionStep
<1> QED BY <1>1, <1>2, PTL DEF AskSpec, Spec

Real(answer) == answer \notin {NoAnswer, Failed}

\* What each request still owes its component.
QuestionInOrder(q) ==
  /\ ask[q].stage = "SENT" => ReadinessNow \in ask[q].held
  /\ ask[q].stage = "CLASSIFYING" => ask[q].read \in ask[q].held
  /\ ask[q].stage = "REPLIED" =>
       ask[q].reply.to = q /\ ask[q].reply.response.facts \subseteq ask[q].reply.held
  /\ ask[q].mounted =>
       ask[q].stage \in {"SENT", "CLASSIFYING", "REPLIED"} /\ panel.pending /\ panel.asked = q

\* What the component shows: one question at a time, and an answer of a request that ended.
PanelInOrder ==
  /\ panel.pending => panel.asked \in Questions /\ ask[panel.asked].mounted
  /\ Real(panel.answer) =>
       /\ panel.answer.response.facts \subseteq panel.answer.held
       /\ panel.answer.to \in Questions /\ ask[panel.answer.to].stage = "ENDED"
       /\ ~ panel.pending => panel.answer.to = panel.asked

QuestionShape ==
  /\ ask \in [Questions -> QuestionRecord]
  /\ \A q \in Questions : ask[q].stage = "REPLIED" => ask[q].reply \in AnswerRecord
  /\ panel \in [pending : BOOLEAN, asked : Questions \cup {NoQuestion},
                answer : AnswerRecord \cup {NoAnswer, Failed}]

AskInv == QuestionShape /\ (\A q \in Questions : QuestionInOrder(q)) /\ PanelInOrder

\* The records a question goes through.
LEMMA QuestionRecords ==
  /\ Unasked \in QuestionRecord /\ Ended \in QuestionRecord /\ Sent \in QuestionRecord
  /\ Unasked.stage = "NONE" /\ ~ Unasked.mounted /\ Ended.stage = "ENDED" /\ ~ Ended.mounted
  /\ Sent.stage = "SENT" /\ Sent.mounted /\ Sent.held = {ReadinessNow}
<1>1. ReadinessNow \in SUBSET {"exit", "legacy"}
  BY DEF ReadinessNow, Readiness
<1> QED BY <1>1 DEF Unasked, Ended, Sent, QuestionRecord

\* A request whose component is gone.
LEMMA LeftFields ==
  ASSUME NEW p \in QuestionRecord
  PROVE  LET h == [p EXCEPT !.mounted = FALSE]
         IN  /\ h \in QuestionRecord /\ h.held = p.held /\ h.stage = p.stage
             /\ ~ h.mounted /\ h.read = p.read /\ h.reply = p.reply
BY DEF QuestionRecord

\* A request that has its reply.
LEMMA RepliedFields ==
  ASSUME NEW p \in QuestionRecord, NEW reply \in AnswerRecord
  PROVE  LET h == [p EXCEPT !.stage = "REPLIED", !.reply = reply, !.read = {}, !.held = {}]
         IN  /\ h \in QuestionRecord /\ h.stage = "REPLIED" /\ h.reply = reply
             /\ h.mounted = p.mounted
BY DEF QuestionRecord

\* A step of one request that does not touch the component or whether it waits.
LEMMA RouteStep ==
  ASSUME AskInv, NEW q \in Questions, NEW p \in QuestionRecord,
         ask' = [ask EXCEPT ![q] = p], UNCHANGED << panel, row >>,
         p.mounted = ask[q].mounted, ask[q].stage \in {"SENT", "CLASSIFYING"},
         \/ p.stage = "CLASSIFYING" /\ p.read \in p.held
         \/ /\ p.stage = "REPLIED" /\ p.reply \in AnswerRecord
            /\ p.reply.to = q /\ p.reply.response.facts \subseteq p.reply.held
  PROVE  AskInv'
<1>1. QuestionShape'
  BY DEF AskInv, QuestionShape
<1>2. \A k \in Questions : ask'[k] = IF k = q THEN p ELSE ask[k]
  BY DEF AskInv, QuestionShape
<1>3. ReadinessNow' = ReadinessNow
  BY DEF ReadinessNow, Usable, Readiness, ExitRecorded, LegacyAligned
<1>4. ASSUME NEW k \in Questions
      PROVE  QuestionInOrder(k)'
  BY <1>2, <1>3 DEF AskInv, QuestionInOrder
<1>5. PanelInOrder'
  <2>1. panel' = panel
    OBVIOUS
  <2> QED BY <1>2, <2>1 DEF AskInv, PanelInOrder, Real
<1> QED BY <1>1, <1>4, <1>5 DEF AskInv

\* The end of a request: the component that waited shows its outcome.
LEMMA SettleStep ==
  ASSUME AskInv, NEW q \in Questions, NEW outcome \in AnswerRecord \cup {Failed},
         Settle(q, outcome), UNCHANGED row, ask[q].stage \in {"SENT", "CLASSIFYING", "REPLIED"},
         Real(outcome) => outcome.to = q /\ outcome.response.facts \subseteq outcome.held
  PROVE  AskInv'
<1>1. ask' = [ask EXCEPT ![q] = Ended] /\ ask \in [Questions -> QuestionRecord]
  BY DEF Settle, AskInv, QuestionShape
<1>2. \A k \in Questions : ask'[k] = IF k = q THEN Ended ELSE ask[k]
  BY <1>1
<1>3. \/ ~ ask[q].mounted /\ panel' = panel
      \/ /\ ask[q].mounted /\ panel' = [panel EXCEPT !.pending = FALSE, !.answer = outcome]
  BY DEF Settle
<1>4. QuestionShape'
  BY <1>1, <1>2, <1>3, QuestionRecords DEF AskInv, QuestionShape
<1>5. ReadinessNow' = ReadinessNow
  BY DEF ReadinessNow, Usable, Readiness, ExitRecorded, LegacyAligned
<1>6. ASSUME ~ ask[q].mounted, panel' = panel
      PROVE  (\A k \in Questions : QuestionInOrder(k)') /\ PanelInOrder'
  <2>1. ASSUME NEW k \in Questions
        PROVE  QuestionInOrder(k)'
    BY <1>2, <1>5, <1>6, QuestionRecords DEF AskInv, QuestionInOrder
  <2>2. PanelInOrder'
    BY <1>2, <1>6, QuestionRecords DEF AskInv, PanelInOrder, Real
  <2> QED BY <2>1, <2>2
<1>7. ASSUME ask[q].mounted, panel' = [panel EXCEPT !.pending = FALSE, !.answer = outcome]
      PROVE  (\A k \in Questions : QuestionInOrder(k)') /\ PanelInOrder'
  <2>1. ~ panel'.pending /\ panel'.answer = outcome /\ panel'.asked = panel.asked
    BY <1>7 DEF AskInv, QuestionShape
  <2>2. panel.asked = q /\ \A k \in Questions \ {q} : ~ ask[k].mounted
    BY <1>7 DEF AskInv, QuestionInOrder
  <2>3. ASSUME NEW k \in Questions
        PROVE  QuestionInOrder(k)'
    BY <1>2, <1>5, <2>2, QuestionRecords DEF AskInv, QuestionInOrder
  <2>4. PanelInOrder'
    BY <1>2, <2>1, <2>2, QuestionRecords DEF PanelInOrder, Real
  <2> QED BY <2>3, <2>4
<1> QED BY <1>3, <1>4, <1>6, <1>7 DEF AskInv

\* No step of a question, of the component or of the session breaks the invariant.
LEMMA QuestionsStayInOrder == AskSpec => []AskInv
<1>1. AskInit => AskInv
  <2> SUFFICES ASSUME AskInit
               PROVE  AskInv
    OBVIOUS
  <2>1. \A q \in Questions : ask[q] = Unasked
    BY DEF AskInit
  <2>2. panel = Empty /\ ~ panel.pending /\ ~ Real(panel.answer) /\ panel.answer = NoAnswer
    BY DEF AskInit, Empty, Real
  <2>3. QuestionShape
    BY <2>1, <2>2, QuestionRecords DEF QuestionShape, AskInit, Empty
  <2> QED BY <2>1, <2>2, <2>3, QuestionRecords DEF AskInv, QuestionInOrder, PanelInOrder
<1>2. ASSUME AskInv, [AskNext]_<< vars, askVars >>
      PROVE  AskInv'
  <2>1. /\ ask \in [Questions -> QuestionRecord]
        /\ \A q \in Questions : ask[q] \in QuestionRecord
        /\ \A q \in Questions : ask[q].held \in SUBSET SUBSET {"exit", "legacy"}
    BY <1>2 DEF AskInv, QuestionShape, QuestionRecord
  <2>2. ReadinessNow \in SUBSET {"exit", "legacy"} /\ ReadinessNow' \in SUBSET {"exit", "legacy"}
    BY DEF ReadinessNow, Readiness
  <2>3. CASE SessionStep
    <3> DEFINE H(q) == [ask[q] EXCEPT !.held = ask[q].held \cup {ReadinessNow'}]
    <3>1. /\ ask' = [q \in Questions |-> IF ask[q].stage = "SENT" THEN H(q) ELSE ask[q]]
          /\ panel' = panel
      BY <2>3 DEF SessionStep
    <3>2. ASSUME NEW q \in Questions
          PROVE  /\ H(q) \in QuestionRecord /\ H(q).held = ask[q].held \cup {ReadinessNow'}
                 /\ H(q).stage = ask[q].stage /\ H(q).mounted = ask[q].mounted
                 /\ H(q).read = ask[q].read /\ H(q).reply = ask[q].reply
      <4>1. ask[q].held \cup {ReadinessNow'} \in SUBSET SUBSET {"exit", "legacy"}
        BY <2>1, <2>2
      <4> QED BY <2>1, <4>1 DEF QuestionRecord
    <3> HIDE DEF H
    <3>3. QuestionShape'
      BY <1>2, <3>1, <3>2 DEF AskInv, QuestionShape
    <3>4. ASSUME NEW q \in Questions
          PROVE  QuestionInOrder(q)'
      BY <1>2, <3>1, <3>2 DEF AskInv, QuestionInOrder
    <3>5. PanelInOrder'
      BY <1>2, <3>1, <3>2 DEF AskInv, PanelInOrder
    <3> QED BY <3>3, <3>4, <3>5 DEF AskInv
  <2>4. CASE Leave /\ UNCHANGED vars
    <3> DEFINE H(q) == [ask[q] EXCEPT !.mounted = FALSE]
    <3>1. ask' = [q \in Questions |-> H(q)] /\ panel' = Empty
      BY <2>4 DEF Leave
    <3>2. ASSUME NEW q \in Questions
          PROVE  /\ H(q) \in QuestionRecord /\ H(q).held = ask[q].held
                 /\ H(q).stage = ask[q].stage /\ ~ H(q).mounted
                 /\ H(q).read = ask[q].read /\ H(q).reply = ask[q].reply
      BY <2>1, LeftFields
    <3> HIDE DEF H
    <3>3. ReadinessNow' = ReadinessNow
      BY <2>4 DEF vars, ReadinessNow, Usable, Readiness, ExitRecorded, LegacyAligned
    <3>4. QuestionShape' /\ PanelInOrder'
      BY <1>2, <3>1, <3>2 DEF AskInv, QuestionShape, Empty, PanelInOrder, Real
    <3>5. ASSUME NEW q \in Questions
          PROVE  QuestionInOrder(q)'
      BY <1>2, <3>1, <3>2, <3>3 DEF AskInv, QuestionInOrder
    <3> QED BY <3>4, <3>5 DEF AskInv
  <2>5. ASSUME NEW q \in Questions, Ask(q), UNCHANGED vars
        PROVE  AskInv'
    <3> DEFINE answer == IF panel.answer = Failed THEN NoAnswer ELSE panel.answer
    <3>1. /\ ask' = [ask EXCEPT ![q] = Sent] /\ ask[q].stage = "NONE" /\ ~ panel.pending
          /\ panel' = [panel EXCEPT !.pending = TRUE, !.asked = q, !.answer = answer]
      BY <2>5 DEF Ask
    <3>2. /\ \A k \in Questions : ask'[k] = IF k = q THEN Sent ELSE ask[k]
          /\ \A k \in Questions : ~ ask[k].mounted
      BY <1>2, <2>1, <3>1 DEF AskInv, QuestionInOrder
    <3>3. /\ answer \in AnswerRecord \cup {NoAnswer, Failed}
          /\ Real(answer) => answer = panel.answer /\ Real(panel.answer)
      BY <1>2 DEF AskInv, QuestionShape, Real
    <3> HIDE DEF answer
    <3>4. panel'.pending /\ panel'.asked = q /\ panel'.answer = answer
      BY <1>2, <3>1 DEF AskInv, QuestionShape
    <3>5. QuestionShape'
      BY <1>2, <3>1, <3>2, <3>3, QuestionRecords DEF AskInv, QuestionShape
    <3>6. ReadinessNow' = ReadinessNow
      BY <2>5 DEF vars, ReadinessNow, Usable, Readiness, ExitRecorded, LegacyAligned
    <3>7. ASSUME NEW k \in Questions
          PROVE  QuestionInOrder(k)'
      BY <1>2, <3>2, <3>4, <3>6, QuestionRecords DEF AskInv, QuestionInOrder
    <3>8. PanelInOrder'
      BY <1>2, <3>1, <3>2, <3>3, <3>4, QuestionRecords DEF AskInv, PanelInOrder
    <3> QED BY <3>5, <3>7, <3>8 DEF AskInv
  <2>6. ASSUME NEW q \in Questions, LoadRecord(q), UNCHANGED vars
        PROVE  AskInv'
    <3> DEFINE p == [ask[q] EXCEPT !.stage = "CLASSIFYING", !.read = ReadinessNow]
    <3>1. ask' = [ask EXCEPT ![q] = p] /\ UNCHANGED << panel, row >> /\ ask[q].stage = "SENT"
      BY <2>6 DEF LoadRecord, vars
    <3>2. /\ p \in QuestionRecord /\ p.stage = "CLASSIFYING" /\ p.read = ReadinessNow
          /\ p.held = ask[q].held /\ p.mounted = ask[q].mounted
      BY <2>1, <2>2 DEF QuestionRecord
    <3> HIDE DEF p
    <3>3. p.read \in p.held
      BY <1>2, <3>1, <3>2 DEF AskInv, QuestionInOrder
    <3> QED BY <1>2, <3>1, <3>2, <3>3, RouteStep
  <2>7. ASSUME NEW q \in Questions, NEW intent \in ASSISTANT_INTENTS,
               NEW source \in {"MODEL", "DETERMINISTIC"}, Reply(q, intent, source), UNCHANGED vars
        PROVE  AskInv'
    <3> DEFINE reply == [response |-> ResolveAssistantResponse(intent, source, ask[q].read),
                         to |-> q, held |-> ask[q].held]
               p == [ask[q] EXCEPT !.stage = "REPLIED", !.reply = reply, !.read = {}, !.held = {}]
    <3>1. ask' = [ask EXCEPT ![q] = p] /\ UNCHANGED << panel, row >>
          /\ ask[q].stage = "CLASSIFYING"
      BY <2>7 DEF Reply, vars
    <3>2. ask[q].read \in ask[q].held /\ ask[q].read \in SUBSET {"exit", "legacy"}
      BY <1>2, <2>1, <3>1 DEF AskInv, QuestionInOrder, QuestionRecord
    <3>3. /\ reply \in AnswerRecord /\ reply.to = q
          /\ reply.response.facts \subseteq reply.held
      BY <2>1, <3>2 DEF AnswerRecord, Response, ResolveAssistantResponse, FactsFor
    <3> HIDE DEF reply
    <3>4. /\ p \in QuestionRecord /\ p.stage = "REPLIED" /\ p.reply = reply
          /\ p.mounted = ask[q].mounted
      BY <2>1, <3>3, RepliedFields
    <3> HIDE DEF p
    <3> QED BY <1>2, <3>1, <3>3, <3>4, RouteStep
  <2>8. ASSUME NEW q \in Questions, ModelReplies(q) \/ TimeOut(q), UNCHANGED vars
        PROVE  AskInv'
    <3>1. ClassifyByKeyword(q) \in ASSISTANT_INTENTS
      <4> DEFINE hits == {n \in 1..Len(KEYWORD_RULES) : KEYWORD_RULES[n] \in Matches[q]}
      <4>1. Len(KEYWORD_RULES) = 7
            /\ \A n \in 1..7 : KEYWORD_RULES[n] \in ASSISTANT_INTENTS
        BY DEF KEYWORD_RULES, ASSISTANT_INTENTS, INTENT_SERVICE
      <4>2. "ACCOUNT_GUIDANCE" \in ASSISTANT_INTENTS
        BY DEF ASSISTANT_INTENTS, INTENT_SERVICE
      <4>3. ASSUME hits # {}
            PROVE  (CHOOSE n \in hits : \A m \in hits : n <= m) \in 1..7
        <5>1. PICK n \in hits : \A m \in hits : n <= m
          BY <4>1, <4>3, SMTT(30)
        <5> QED BY <5>1, <4>1
      <4> QED BY <4>1, <4>2, <4>3 DEF ClassifyByKeyword
    <3> QED BY <2>7, <2>8, <3>1, QuestionsAssumption DEF ModelReplies, TimeOut
  <2>9. ASSUME NEW q \in Questions, AnswerArrives(q), UNCHANGED vars
        PROVE  AskInv'
    <3>1. /\ Settle(q, ask[q].reply) /\ ask[q].stage = "REPLIED"
          /\ ask[q].reply \in AnswerRecord /\ ask[q].reply.to = q
          /\ ask[q].reply.response.facts \subseteq ask[q].reply.held
      BY <1>2, <2>9 DEF AnswerArrives, AskInv, QuestionShape, QuestionInOrder
    <3>2. row' = row
      BY <2>9 DEF vars
    <3> QED BY <1>2, <3>1, <3>2, SettleStep
  <2>10. ASSUME NEW q \in Questions, QuestionFails(q), UNCHANGED vars
         PROVE  AskInv'
    <3>1. Settle(q, Failed) /\ ask[q].stage \in {"SENT", "REPLIED"} /\ ~ Real(Failed)
      BY <2>10 DEF QuestionFails, Real
    <3>2. row' = row
      BY <2>10 DEF vars
    <3> QED BY <1>2, <3>1, <3>2, SettleStep
  <2>11. CASE UNCHANGED << vars, askVars >>
    <3>1. row' = row /\ ask' = ask /\ panel' = panel
      BY <2>11 DEF vars, askVars
    <3>2. ReadinessNow' = ReadinessNow
      BY <3>1 DEF ReadinessNow, Usable, Readiness, ExitRecorded, LegacyAligned
    <3> QED BY <1>2, <3>1, <3>2 DEF AskInv, QuestionShape, QuestionInOrder, PanelInOrder
  <2> QED BY <1>2, <2>3, <2>4, <2>5, <2>6, <2>8, <2>9, <2>10, <2>11 DEF AskNext, AskStep
<1> QED BY <1>1, <1>2, PTL DEF AskSpec

\* What the component shows is the answer to what was asked last, made of a record that
\* was the visitor's after the question was asked: whichever way the model, the timer, the
\* connection, the visitor and the commands of the session interleave.
THEOREM AnswersAreFromTheRecord == AskSpec => []AnswerIsFromTheRecord
<1>1. AskInv => AnswerIsFromTheRecord
  <2> SUFFICES ASSUME AskInv, Real(panel.answer)
               PROVE  /\ panel.answer.response.facts \subseteq panel.answer.held
                      /\ panel.answer.to = panel.asked <=> ~ panel.pending
    BY DEF AnswerIsFromTheRecord, Real
  <2> QED BY DEF AskInv, QuestionInOrder, PanelInOrder
<1> QED BY <1>1, QuestionsStayInOrder, PTL

-----------------------------------------------------------------------------
(* Every question is answered.                                              *)

\* The component waits for the answer to q.
WaitsFor(q) == panel.pending /\ panel.asked = q

Stages == {"SENT", "CLASSIFYING", "REPLIED"}

\* The stages of a request while somebody waits for it.
Later == [SENT |-> "CLASSIFYING", CLASSIFYING |-> "REPLIED", REPLIED |-> "REPLIED"]

StaysOrGoesOn(q) ==
  /\ ask[q].stage = "CLASSIFYING" => ask'[q].stage \in {"CLASSIFYING", "REPLIED"}
  /\ WaitsFor(q) => \/ ~ panel'.pending
                    \/ /\ WaitsFor(q)'
                       /\ ask'[q].stage \in {ask[q].stage, Later[ask[q].stage]}

\* Whatever the session, the component and the other requests do, a request that somebody
\* waits for goes on to its next stage or the wait is over.
LEMMA QuestionStages ==
  ASSUME AskInv, [AskNext]_<< vars, askVars >>, NEW q \in Questions
  PROVE  StaysOrGoesOn(q)
<1>1. /\ ask \in [Questions -> QuestionRecord]
      /\ \A k \in Questions : ask[k] \in QuestionRecord
      /\ WaitsFor(q) => ask[q].mounted /\ ask[q].stage \in Stages
      /\ \A k \in Questions : ask[k].mounted => WaitsFor(k)
  BY DEF AskInv, QuestionShape, QuestionInOrder, PanelInOrder, WaitsFor, Stages
<1>2. ASSUME panel' = panel, ask'[q].stage \in {ask[q].stage, Later[ask[q].stage]},
             ask[q].stage \notin Stages => ask'[q].stage = ask[q].stage
      PROVE  StaysOrGoesOn(q)
  BY <1>2 DEF StaysOrGoesOn, WaitsFor, Later, Stages
<1>3. CASE SessionStep
  <2>1. \A k \in Questions : ask'[k].stage = ask[k].stage
    BY <1>1, <1>3 DEF SessionStep, QuestionRecord
  <2> QED BY <1>2, <1>3, <2>1 DEF SessionStep
<1>4. CASE Leave
  <2>1. \A k \in Questions : ask'[k].stage = ask[k].stage
    BY <1>1, <1>4 DEF Leave, QuestionRecord
  <2>2. ~ panel'.pending
    BY <1>4 DEF Leave, Empty
  <2> QED BY <2>1, <2>2 DEF StaysOrGoesOn
<1>5. ASSUME NEW k \in Questions, Ask(k) PROVE StaysOrGoesOn(q)
  <2>1. ask' = [ask EXCEPT ![k] = Sent] /\ ask[k].stage = "NONE" /\ ~ panel.pending
    BY <1>5 DEF Ask
  <2> QED BY <1>1, <2>1 DEF StaysOrGoesOn, WaitsFor
<1>6. ASSUME NEW k \in Questions, LoadRecord(k) PROVE StaysOrGoesOn(q)
  <2>1. /\ panel' = panel /\ ask[k].stage = "SENT"
        /\ ask'[q].stage = IF k = q THEN "CLASSIFYING" ELSE ask[q].stage
    BY <1>1, <1>6 DEF LoadRecord, QuestionRecord
  <2> QED BY <1>2, <2>1 DEF Later, Stages
<1>7. ASSUME NEW k \in Questions, NEW intent, NEW source, Reply(k, intent, source)
      PROVE  StaysOrGoesOn(q)
  <2>1. /\ panel' = panel /\ ask[k].stage = "CLASSIFYING"
        /\ ask'[q].stage = IF k = q THEN "REPLIED" ELSE ask[q].stage
    BY <1>1, <1>7 DEF Reply, QuestionRecord
  <2> QED BY <1>2, <2>1 DEF Later, Stages
<1>8. ASSUME NEW k \in Questions, NEW outcome, Settle(k, outcome),
             ask[k].stage \in {"SENT", "REPLIED"}
      PROVE  StaysOrGoesOn(q)
  <2>1. /\ ask' = [ask EXCEPT ![k] = Ended]
        /\ panel' = IF ask[k].mounted THEN [panel EXCEPT !.pending = FALSE, !.answer = outcome]
                                      ELSE panel
    BY <1>8 DEF Settle
  <2>2. CASE k = q
    <3>1. WaitsFor(q) => ~ panel'.pending
      BY <1>1, <2>1, <2>2 DEF AskInv, QuestionShape
    <3> QED BY <1>8, <2>2, <3>1 DEF StaysOrGoesOn
  <2>3. CASE k # q
    <3>1. ask'[q] = ask[q]
      BY <1>1, <2>1, <2>3
    <3>2. WaitsFor(q) => panel' = panel
      BY <1>1, <2>1, <2>3 DEF WaitsFor
    <3> QED BY <3>1, <3>2 DEF StaysOrGoesOn, WaitsFor
  <2> QED BY <2>2, <2>3
<1>9. CASE UNCHANGED << vars, askVars >>
  BY <1>2, <1>9 DEF askVars
<1> QED BY <1>3, <1>4, <1>5, <1>6, <1>7, <1>8, <1>9
        DEF AskNext, AskStep, ModelReplies, TimeOut, AnswerArrives, QuestionFails

\* What AskFairSpec says of one question, with the guards in the place of ENABLED: the
\* route and the connection go on, and the timer fires.
RouteRuns(q) ==
  \/ []<>~ (ask[q].stage \in {"SENT", "REPLIED"})
  \/ []<><< LoadRecord(q) \/ AnswerArrives(q) \/ QuestionFails(q) >>_askVars

TimerFires(q) == []<>~ (ask[q].stage = "CLASSIFYING") \/ []<><< TimeOut(q) >>_askVars

QuestionEnds(q) ==
  /\ panel.pending /\ panel.asked = q ~> ~ panel.pending
  /\ ask[q].stage = "CLASSIFYING" ~> ask[q].stage = "REPLIED"

\* The question that is asked is answered, or the component says that it failed: the model
\* owes nothing, the timer stands in for it, and commands of the session go on meanwhile.
THEOREM QuestionsAreAnswered ==
  AskSpec /\ (\A q \in Questions : RouteRuns(q) /\ TimerFires(q)) => EveryQuestionIsAnswered
<1> SUFFICES ASSUME NEW CONSTANT q \in Questions
             PROVE  AskSpec /\ RouteRuns(q) /\ TimerFires(q) => QuestionEnds(q)
  BY DEF EveryQuestionIsAnswered, QuestionEnds
<1> DEFINE Awaited == panel.pending /\ panel.asked = q
           Over == ~ panel.pending
           Loading == Awaited /\ ask[q].stage = "SENT"
           Asking == Awaited /\ ask[q].stage = "CLASSIFYING"
           Answering == Awaited /\ ask[q].stage = "REPLIED"
           Classifying == ask[q].stage = "CLASSIFYING"
           Replied == ask[q].stage = "REPLIED"
           Routed == ask[q].stage \in {"SENT", "REPLIED"}
<1>1. AskInv /\ Awaited => Loading \/ Asking \/ Answering
  BY DEF AskInv, QuestionInOrder, PanelInOrder
<1>2. /\ Loading => Routed
      /\ Answering => Routed
      /\ Asking => Classifying
  OBVIOUS
<1>3. AskInv /\ [AskNext]_<< vars, askVars >> =>
        /\ Loading => Loading' \/ Asking' \/ Over'
        /\ Asking => Asking' \/ Answering' \/ Over'
        /\ Answering => Answering' \/ Over'
        /\ Classifying => Classifying' \/ Replied'
  BY QuestionStages DEF StaysOrGoesOn, WaitsFor, Later
<1>4. ASSUME AskInv, << LoadRecord(q) \/ AnswerArrives(q) \/ QuestionFails(q) >>_askVars
      PROVE  (Loading => Asking' \/ Over') /\ (Answering => Over')
  <2>1. /\ ask \in [Questions -> QuestionRecord] /\ (Awaited => ask[q].mounted)
        /\ panel \in [pending : BOOLEAN, asked : Questions \cup {NoQuestion},
                      answer : AnswerRecord \cup {NoAnswer, Failed}]
    BY <1>4 DEF AskInv, QuestionShape, PanelInOrder
  <2>2. CASE LoadRecord(q)
    BY <2>1, <2>2 DEF LoadRecord, QuestionRecord
  <2>3. ASSUME NEW outcome, Settle(q, outcome), Awaited PROVE Over'
    BY <2>1, <2>3 DEF Settle
  <2> QED BY <1>4, <2>2, <2>3 DEF AnswerArrives, QuestionFails
<1>5. ASSUME AskInv, << TimeOut(q) >>_askVars
      PROVE  (Asking => Answering') /\ (Classifying => Replied')
  <2>1. ask \in [Questions -> QuestionRecord]
    BY <1>5 DEF AskInv, QuestionShape
  <2> QED BY <1>5, <2>1 DEF TimeOut, Reply, QuestionRecord
<1> HIDE DEF Awaited, Over, Loading, Asking, Answering, Classifying, Replied, Routed
<1>6. AskSpec /\ RouteRuns(q) /\ TimerFires(q) => (Awaited ~> Over)
  BY <1>1, <1>2, <1>3, <1>4, <1>5, QuestionsStayInOrder, PTL
     DEF AskSpec, RouteRuns, TimerFires, Routed, Classifying
<1>7. AskSpec /\ TimerFires(q) => (Classifying ~> Replied)
  BY <1>3, <1>5, QuestionsStayInOrder, PTL DEF AskSpec, TimerFires, Classifying
<1> QED BY <1>6, <1>7 DEF QuestionEnds, Awaited, Over, Classifying, Replied
=============================================================================
