------------------------------- MODULE EcrFile -------------------------------
(***************************************************************************)
(* One payroll return (ECR): the employer corrects its rows until none is  *)
(* in issue, raises a challan, pays, and the payment posts the linked      *)
(* member's contribution.  A row's three shares move together, so they are *)
(* one amount; names are left out, because the fixtures name every row and *)
(* a correction cannot blank one.                                          *)
(***************************************************************************)
EXTENDS Naturals, Sequences

CONSTANTS
  N,              \* rows in the payroll file
  Uans,           \* masked UANs a row can carry
  NoUan,          \* the blank UAN
  Members,        \* member ids a row can name
  Roster,         \* the ids of the establishment's own series
  SharedMember,   \* the member whose passbook this payment reaches
  SharedUan,      \* that member's UAN
  Wages,          \* wage bases, 0 among them
  Expected,       \* [Wages -> Nat]: expectedContributionFromWage
  Payroll         \* [1..N -> raw rows]: the file as it was uploaded

\* Variants with the suffix _Bug are the mistakes the properties are tried on:
\* no specification uses them.

Rows == 1..N

RawRow == [uan : Uans \cup {NoUan}, member : Members, wage : Wages, pays : Nat]

ASSUME FileAssumption ==
  /\ N \in Nat
  /\ NoUan \notin Uans /\ SharedUan \in Uans
  /\ SharedMember \in Members /\ Roster \subseteq Members
  /\ Wages \subseteq Nat /\ Expected \in [Wages -> Nat]
  /\ Payroll \in [Rows -> RawRow]

\* No two lines of the uploaded file name one employee.
ASSUME PayrollAssumption ==
  \A m, n \in Rows : Payroll[m].member = Payroll[n].member => m = n

VARIABLES
  rows,     \* the rows with their verdicts
  state,    \* EcrState of the file
  total,    \* totalContributionPaise, as last calculated
  posted    \* contributions this file posted to the passbook: [wage, pays]

vars == << rows, state, total, posted >>

IssueCode ==
  {"DUPLICATE_EMPLOYEE", "MISSING_UAN", "EMPLOYMENT_RECORD_MISMATCH",
   "UNEXPECTED_CONTRIBUTION", "MISSING_REQUIRED_FIELD"}

EcrRow ==
  [uan : Uans \cup {NoUan}, member : Members, wage : Wages, pays : Nat,
   status : {"READY", "ISSUE", "EXCLUDED"}, issues : SUBSET IssueCode]

EcrState ==
  {"DRAFT", "VALIDATION_FAILED", "READY", "CHALLAN_GENERATED", "PAYMENT_PROCESSING", "PAID"}

Contribution == [wage : Wages, pays : Nat]

-----------------------------------------------------------------------------
(* Validation. *)

IsLinkedMember(member) == member = SharedMember \/ member \in Roster

\* An earlier row that is not excluded carries the same UAN.
SeenBefore_Bug(rs, n) ==   \* neighbours only
  n > 1 /\ rs[n - 1].status # "EXCLUDED" /\ rs[n - 1].uan = rs[n].uan

SeenBefore(rs, n) ==
  \E k \in Rows : k < n /\ rs[k].status # "EXCLUDED" /\ rs[k].uan = rs[n].uan

RowIssues(rs, n) ==
  LET row == rs[n] IN
    {c \in IssueCode :
       \/ c = "MISSING_REQUIRED_FIELD" /\ row.wage = 0
       \/ c = "MISSING_UAN" /\ row.uan = NoUan
       \/ c = "DUPLICATE_EMPLOYEE" /\ row.uan # NoUan /\ SeenBefore(rs, n)
       \/ c = "EMPLOYMENT_RECORD_MISMATCH" /\ ~ IsLinkedMember(row.member)
       \/ c = "UNEXPECTED_CONTRIBUTION" /\ row.wage > 0 /\ row.pays # Expected[row.wage]}

ValidateEcrRows(rs) ==
  [n \in Rows |->
     IF rs[n].status = "EXCLUDED" THEN [rs[n] EXCEPT !.issues = {}]
     ELSE [rs[n] EXCEPT !.status = IF RowIssues(rs, n) = {} THEN "READY" ELSE "ISSUE",
                        !.issues = RowIssues(rs, n)]]

EcrRowsAreClear(rs) == \A n \in Rows : rs[n].status # "ISSUE"

SumUpTo(amount) ==
  LET sum[n \in 0..N] == IF n = 0 THEN 0 ELSE sum[n - 1] + amount[n] IN sum[N]

CalculateEcrTotal(rs) ==
  SumUpTo([n \in Rows |-> IF rs[n].status = "EXCLUDED" THEN 0 ELSE rs[n].pays])

DeriveEcrValidationState(rs) ==
  IF EcrRowsAreClear(rs) THEN "READY" ELSE "VALIDATION_FAILED"

-----------------------------------------------------------------------------
(* The file's state machine. *)

ALLOWED_TRANSITIONS_Bug ==   \* a file with a challan can be validated again
  [DRAFT |-> {"VALIDATION_FAILED", "READY"},
   VALIDATION_FAILED |-> {"VALIDATION_FAILED", "READY"},
   READY |-> {"VALIDATION_FAILED", "READY", "CHALLAN_GENERATED"},
   CHALLAN_GENERATED |-> {"VALIDATION_FAILED", "READY", "PAYMENT_PROCESSING"},
   PAYMENT_PROCESSING |-> {"PAID"},
   PAID |-> {}]

ALLOWED_TRANSITIONS ==
  [DRAFT |-> {"VALIDATION_FAILED", "READY"},
   VALIDATION_FAILED |-> {"VALIDATION_FAILED", "READY"},
   READY |-> {"VALIDATION_FAILED", "READY", "CHALLAN_GENERATED"},
   CHALLAN_GENERATED |-> {"PAYMENT_PROCESSING"},
   PAYMENT_PROCESSING |-> {"PAID"},
   PAID |-> {}]

TransitionEcr(next) ==
  /\ next \in ALLOWED_TRANSITIONS[state]
  /\ next = "CHALLAN_GENERATED" => EcrRowsAreClear(rows)
  /\ state' = next

Revalidate_Bug(rs) ==   \* only the corrected row is looked at again
  /\ rows' = [n \in Rows |-> IF rs[n] = rows[n] THEN rows[n] ELSE ValidateEcrRows(rs)[n]]
  /\ total' = CalculateEcrTotal(rows')
  /\ TransitionEcr(DeriveEcrValidationState(rows'))
  /\ UNCHANGED posted

\* The part that validateEcr and correctEcrRow share.
Revalidate(rs) ==
  /\ rows' = ValidateEcrRows(rs)
  /\ total' = CalculateEcrTotal(rows')
  /\ TransitionEcr(DeriveEcrValidationState(rows'))
  /\ UNCHANGED posted

ValidateEcr == Revalidate(rows)

CorrectedRow_Bug(row, uan, wage) ==   \* a UAN the directory does not know unlinks the row
  LET u == IF uan = NoUan THEN row.uan ELSE uan IN
    [uan |-> u, member |-> IF u = SharedUan THEN SharedMember ELSE NoUan,
     wage |-> wage, pays |-> Expected[wage], status |-> "READY", issues |-> {}]

CorrectedRow_Choosy(row, uan, wage) ==   \* a row with another fault is not excluded
  IF row.issues = {"DUPLICATE_EMPLOYEE"}
    THEN [row EXCEPT !.status = "EXCLUDED", !.issues = {}]
    ELSE LET u == IF uan = NoUan THEN row.uan ELSE uan IN
           [uan |-> u, member |-> IF u = SharedUan THEN SharedMember ELSE row.member,
            wage |-> wage, pays |-> Expected[wage], status |-> "READY", issues |-> {}]

\* What a correction makes of one row.  A blank UAN leaves the row's own, and a
\* request without a wage is one with the row's own.
CorrectedRow(row, uan, wage) ==
  IF "DUPLICATE_EMPLOYEE" \in row.issues
    THEN [row EXCEPT !.status = "EXCLUDED", !.issues = {}]
    ELSE LET u == IF uan = NoUan THEN row.uan ELSE uan IN
           [uan |-> u, member |-> IF u = SharedUan THEN SharedMember ELSE row.member,
            wage |-> wage, pays |-> Expected[wage], status |-> "READY", issues |-> {}]

CorrectEcrRow(n, uan, wage) ==
  Revalidate([rows EXCEPT ![n] = CorrectedRow(rows[n], uan, wage)])

GenerateChallan == TransitionEcr("CHALLAN_GENERATED") /\ UNCHANGED << rows, total, posted >>

StartEcrPayment == TransitionEcr("PAYMENT_PROCESSING") /\ UNCHANGED << rows, total, posted >>

MemberRows_Bug(rs) == {n \in Rows : rs[n].member = SharedMember}   \* excluded ones too

\* The rows whose payment reaches the shared member.
MemberRows(rs) == {n \in Rows : rs[n].member = SharedMember /\ rs[n].status = "READY"}

IsFirst(n, S) == n \in S /\ \A k \in S : n <= k

CompleteEcrPayment_Bug ==   \* the posting is forgotten
  TransitionEcr("PAID") /\ UNCHANGED << rows, total, posted >>

\* postContributionFromEcr: the first such row, and once per month; without
\* one the whole command throws.
CompleteEcrPayment ==
  /\ TransitionEcr("PAID")
  /\ \E n \in Rows :
       /\ IsFirst(n, MemberRows(rows))
       /\ posted' = IF posted = << >>
                      THEN << [wage |-> rows[n].wage, pays |-> rows[n].pays] >>
                      ELSE posted
  /\ UNCHANGED << rows, total >>

Init ==
  /\ rows = ValidateEcrRows(
       [n \in Rows |->
          [uan |-> Payroll[n].uan, member |-> Payroll[n].member, wage |-> Payroll[n].wage,
           pays |-> Payroll[n].pays, status |-> "READY", issues |-> {}]])
  /\ state = DeriveEcrValidationState(rows)
  /\ total = CalculateEcrTotal(rows)
  /\ posted = << >>

Next ==
  \/ ValidateEcr
  \/ \E n \in Rows, uan \in Uans \cup {NoUan}, wage \in Wages :
       CorrectEcrRow(n, uan, wage)
  \/ GenerateChallan
  \/ StartEcrPayment
  \/ CompleteEcrPayment

Spec == Init /\ [][Next]_vars

\* The employer who raised a challan goes on to pay it; nobody is obliged to
\* correct the file.
FairSpec == Spec /\ WF_vars(StartEcrPayment) /\ WF_vars(CompleteEcrPayment)

-----------------------------------------------------------------------------
(* Properties. *)

\* The file has the shape EcrSubmissionSchema admits (experience-v2.ts); the total
\* is accounted for by VerdictIsCurrent.
TypeOK ==
  /\ rows \in [Rows -> EcrRow]
  /\ state \in EcrState
  /\ posted \in Seq(Contribution)

Committed == state \in {"CHALLAN_GENERATED", "PAYMENT_PROCESSING", "PAID"}

\* What is stored about the file is what validation would say of it now: a
\* correction of one row can change the verdict on another, and every verdict,
\* the file's state and its total follow (validateEcr, correctEcrRow).
VerdictIsCurrent ==
  /\ rows = ValidateEcrRows(rows)
  /\ total = CalculateEcrTotal(rows)
  /\ state # "DRAFT"
  /\ state = "VALIDATION_FAILED" <=> ~ EcrRowsAreClear(rows)

\* Once a challan is out, no UAN is paid on two lines and every line pays what
\* its wage requires (validateEcrRows, ecrRowsAreClear).
EachUanPaidOnce ==
  Committed =>
    \A m \in Rows : rows[m].status = "READY" =>
      /\ rows[m].wage > 0 /\ rows[m].pays = Expected[rows[m].wage]
      /\ rows[m].uan # NoUan
      /\ \A n \in Rows : rows[n].status = "READY" /\ rows[n].uan = rows[m].uan => m = n

\* The passbook has a contribution exactly when the file is paid, one only, and
\* it is that of a line the challan paid for (postContributionFromEcr).
PassbookFollowsPayment ==
  /\ state = "PAID" <=> posted # << >>
  /\ state = "PAID" =>
       \E n \in Rows :
         /\ rows[n].member = SharedMember /\ rows[n].status = "READY"
         /\ posted = << [wage |-> rows[n].wage, pays |-> rows[n].pays] >>

\* A challan fixes the file: no line, amount or verdict changes after it
\* (transitionEcr refuses the state that every revalidation asks for).
ChallanFixesTheFile == [][Committed => rows' = rows /\ total' = total]_vars

\* A challan with a line for the shared member is paid and reaches the passbook.
ChallanReachesPassbook ==
  state = "CHALLAN_GENERATED" /\ MemberRows(rows) # {} ~> state = "PAID" /\ Len(posted) = 1

\* ecr-engine.ts says of ecrRowsAreClear: "A file is payable once no row is still
\* in issue. Excluded rows do not block it."
ClearFileIsPayable ==
  state \in {"READY", "CHALLAN_GENERATED", "PAYMENT_PROCESSING"} => MemberRows(rows) # {}

\* ecr-engine.ts says of correctEcrRow: "a repeated payroll line must not be paid
\* twice": no member is on two lines of a challan.
NobodyPaidTwice ==
  Committed =>
    \A m, n \in Rows :
      /\ rows[m].status = "READY" /\ rows[n].status = "READY"
      /\ rows[m].member = rows[n].member
      => m = n
=============================================================================
