---------------------------- MODULE EcrFileProofs ----------------------------
(***************************************************************************)
(* The payroll file for any number of rows, any payroll and any sequence   *)
(* of corrections.                                                         *)
(***************************************************************************)
EXTENDS EcrPages, ContributionShares, FiniteSetTheorems, TLAPS

\* Validation keeps a file a file and leaves what the rows say alone.
LEMMA ValidationFields ==
  ASSUME NEW rs \in [Rows -> EcrRow]
  PROVE  /\ ValidateEcrRows(rs) \in [Rows -> EcrRow]
         /\ \A n \in Rows :
              LET row == ValidateEcrRows(rs)[n] IN
                /\ row.uan = rs[n].uan /\ row.member = rs[n].member
                /\ row.wage = rs[n].wage /\ row.pays = rs[n].pays
                /\ row.status = IF rs[n].status = "EXCLUDED" THEN "EXCLUDED"
                                ELSE IF RowIssues(rs, n) = {} THEN "READY" ELSE "ISSUE"
                /\ row.issues = IF rs[n].status = "EXCLUDED" THEN {} ELSE RowIssues(rs, n)
<1>1. \A n \in Rows : RowIssues(rs, n) \subseteq IssueCode
  BY DEF RowIssues
<1>2. ASSUME NEW row \in EcrRow, NEW issues \in SUBSET IssueCode,
             NEW status \in {"READY", "ISSUE"}
      PROVE  /\ [row EXCEPT !.status = status, !.issues = issues] \in EcrRow
             /\ [row EXCEPT !.issues = {}] \in EcrRow
  BY DEF EcrRow
<1>3. ASSUME NEW n \in Rows
      PROVE  ValidateEcrRows(rs)[n] \in EcrRow
  <2>1. CASE rs[n].status = "EXCLUDED"
    BY <2>1, <1>2 DEF ValidateEcrRows
  <2>2. CASE rs[n].status # "EXCLUDED"
    BY <2>2, <1>1, <1>2 DEF ValidateEcrRows
  <2> QED BY <2>1, <2>2
<1>4. ValidateEcrRows(rs) \in [Rows -> EcrRow]
  BY <1>3 DEF ValidateEcrRows
<1> QED BY <1>4 DEF ValidateEcrRows, EcrRow

\* Validating twice is validating once: a verdict depends on what the rows say
\* and on which of them are excluded, and validation changes neither.
LEMMA ValidationSettles ==
  ASSUME NEW rs \in [Rows -> EcrRow]
  PROVE  ValidateEcrRows(ValidateEcrRows(rs)) = ValidateEcrRows(rs)
<1> DEFINE vs == ValidateEcrRows(rs)
<1>1. /\ vs \in [Rows -> EcrRow]
      /\ \A n \in Rows :
           /\ vs[n].uan = rs[n].uan /\ vs[n].member = rs[n].member
           /\ vs[n].wage = rs[n].wage /\ vs[n].pays = rs[n].pays
           /\ vs[n].status = IF rs[n].status = "EXCLUDED" THEN "EXCLUDED"
                             ELSE IF RowIssues(rs, n) = {} THEN "READY" ELSE "ISSUE"
           /\ vs[n].issues = IF rs[n].status = "EXCLUDED" THEN {} ELSE RowIssues(rs, n)
  BY ValidationFields
<1> HIDE DEF vs
<1>2. \A n \in Rows : vs[n].status = "EXCLUDED" <=> rs[n].status = "EXCLUDED"
  BY <1>1
<1>3. \A n \in Rows : SeenBefore(vs, n) <=> SeenBefore(rs, n)
  BY <1>1, <1>2 DEF SeenBefore
<1>4. \A n \in Rows : RowIssues(vs, n) = RowIssues(rs, n)
  BY <1>1, <1>3 DEF RowIssues
<1>5. ASSUME NEW n \in Rows
      PROVE  ValidateEcrRows(vs)[n] = vs[n]
  <2> DEFINE row == vs[n]
             issues == RowIssues(rs, n)
  <2>1. row \in EcrRow
    BY <1>1
  <2>2. CASE rs[n].status = "EXCLUDED"
    <3>1. ValidateEcrRows(vs)[n] = [row EXCEPT !.issues = {}] /\ row.issues = {}
      BY <2>2, <1>1, <1>2 DEF ValidateEcrRows
    <3> HIDE DEF row
    <3> QED BY <3>1, <2>1 DEF EcrRow, row
  <2>3. CASE rs[n].status # "EXCLUDED"
    <3> DEFINE status == IF issues = {} THEN "READY" ELSE "ISSUE"
    <3>1. /\ ValidateEcrRows(vs)[n] = [row EXCEPT !.status = status, !.issues = issues]
          /\ row.issues = issues /\ row.status = status
      BY <2>3, <1>1, <1>2, <1>4 DEF ValidateEcrRows
    <3> HIDE DEF row, status, issues
    <3> QED BY <3>1, <2>1 DEF EcrRow, row
  <2> QED BY <2>2, <2>3
<1>6. ValidateEcrRows(vs) = [n \in Rows |-> ValidateEcrRows(vs)[n]]
  BY DEF ValidateEcrRows
<1>7. vs = [n \in Rows |-> vs[n]]
  BY <1>1
<1> QED BY <1>5, <1>6, <1>7 DEF vs

-----------------------------------------------------------------------------

\* The inductive invariant: the verdict on the file is current, and the passbook
\* follows the payment.
FileInv == TypeOK /\ VerdictIsCurrent /\ PassbookFollowsPayment

\* A correction makes a row of a row (correctEcrRow).
LEMMA CorrectedIsRow ==
  ASSUME NEW row \in EcrRow, NEW uan \in Uans \cup {NoUan}, NEW wage \in Wages
  PROVE  CorrectedRow(row, uan, wage) \in EcrRow
<1>1. CASE "DUPLICATE_EMPLOYEE" \in row.issues
  <2>1. [row EXCEPT !.status = "EXCLUDED", !.issues = {}] \in EcrRow
    BY DEF EcrRow
  <2> QED BY <1>1, <2>1 DEF CorrectedRow
<1>2. CASE "DUPLICATE_EMPLOYEE" \notin row.issues
  <2>1. /\ (IF uan = NoUan THEN row.uan ELSE uan) \in Uans \cup {NoUan}
        /\ \A u : (IF u = SharedUan THEN SharedMember ELSE row.member) \in Members
        /\ Expected[wage] \in Nat
    BY FileAssumption DEF EcrRow
  <2> QED BY <1>2, <2>1 DEF CorrectedRow, EcrRow
<1> QED BY <1>1, <1>2

\* Whatever a correction put in the rows, revalidation brings the verdict up to
\* date; it is only possible before a challan.
LEMMA RevalidateKeeps ==
  ASSUME FileInv, NEW rs \in [Rows -> EcrRow], Revalidate(rs)
  PROVE  FileInv' /\ ~ Committed
<1>1. rows' \in [Rows -> EcrRow] /\ rows' = ValidateEcrRows(rows')
  BY ValidationFields, ValidationSettles DEF Revalidate
<1>2. state' \in {"READY", "VALIDATION_FAILED"} /\ state' \in ALLOWED_TRANSITIONS[state]
  BY DEF Revalidate, TransitionEcr, DeriveEcrValidationState
<1>3. state \in EcrState /\ ~ Committed
  BY <1>2 DEF FileInv, TypeOK, EcrState, Committed, ALLOWED_TRANSITIONS
<1>4. state' = "VALIDATION_FAILED" <=> ~ EcrRowsAreClear(rows')
  BY DEF Revalidate, TransitionEcr, DeriveEcrValidationState
<1>5. VerdictIsCurrent'
  BY <1>1, <1>2, <1>4 DEF Revalidate, VerdictIsCurrent
<1>6. posted' = posted /\ posted = << >>
  BY <1>3 DEF Revalidate, FileInv, PassbookFollowsPayment, Committed
<1>7. TypeOK' /\ PassbookFollowsPayment'
  BY <1>1, <1>2, <1>6 DEF FileInv, TypeOK, EcrState, PassbookFollowsPayment, Contribution
<1> QED BY <1>3, <1>5, <1>7 DEF FileInv

LEMMA InitFile == Init => FileInv
<1> SUFFICES ASSUME Init
             PROVE  FileInv
  OBVIOUS
<1> DEFINE raw == [n \in Rows |->
                    [uan |-> Payroll[n].uan, member |-> Payroll[n].member,
                     wage |-> Payroll[n].wage, pays |-> Payroll[n].pays,
                     status |-> "READY", issues |-> {}]]
<1>1. raw \in [Rows -> EcrRow]
  BY FileAssumption DEF RawRow, EcrRow
<1>2. rows = ValidateEcrRows(raw)
  BY DEF Init
<1> HIDE DEF raw
<1>3. rows \in [Rows -> EcrRow] /\ rows = ValidateEcrRows(rows)
  BY <1>1, <1>2, ValidationFields, ValidationSettles
<1> QED BY <1>3 DEF Init, FileInv, TypeOK, VerdictIsCurrent, PassbookFollowsPayment,
           DeriveEcrValidationState, EcrState, Contribution

\* Raising the challan and starting the payment leave the rows alone.
LEMMA FilingKeeps ==
  ASSUME FileInv, GenerateChallan \/ StartEcrPayment
  PROVE  FileInv' /\ rows' = rows /\ total' = total
<1>1. /\ state' \in {"CHALLAN_GENERATED", "PAYMENT_PROCESSING"}
      /\ state' \in ALLOWED_TRANSITIONS[state]
      /\ UNCHANGED << rows, total, posted >>
  BY DEF GenerateChallan, StartEcrPayment, TransitionEcr
<1>2. state \in {"READY", "CHALLAN_GENERATED"}
  BY <1>1 DEF FileInv, TypeOK, EcrState, ALLOWED_TRANSITIONS
<1> QED BY <1>1, <1>2 DEF FileInv, TypeOK, VerdictIsCurrent, PassbookFollowsPayment, EcrState

\* The payment posts the contribution of one of the lines it paid for.
LEMMA PaymentKeeps ==
  ASSUME FileInv, CompleteEcrPayment
  PROVE  FileInv' /\ rows' = rows /\ total' = total
<1>1. PICK n \in Rows :
        /\ n \in MemberRows(rows)
        /\ posted' = IF posted = << >>
                       THEN << [wage |-> rows[n].wage, pays |-> rows[n].pays] >>
                       ELSE posted
  BY DEF CompleteEcrPayment, IsFirst
<1>2. /\ state' = "PAID" /\ state = "PAYMENT_PROCESSING"
      /\ rows' = rows /\ total' = total
  BY DEF CompleteEcrPayment, TransitionEcr, FileInv, TypeOK, EcrState, ALLOWED_TRANSITIONS
<1>3. posted = << >> /\ posted' = << [wage |-> rows[n].wage, pays |-> rows[n].pays] >>
  BY <1>1, <1>2 DEF FileInv, PassbookFollowsPayment
<1>4. [wage |-> rows[n].wage, pays |-> rows[n].pays] \in Contribution
  BY DEF FileInv, TypeOK, EcrRow, Contribution
<1>5. TypeOK' /\ VerdictIsCurrent'
  <2>1. posted' \in Seq(Contribution)
    BY <1>3, <1>4
  <2> QED BY <1>2, <2>1 DEF FileInv, TypeOK, VerdictIsCurrent, EcrState
<1>6. PassbookFollowsPayment'
  <2>1. posted' # << >>
    BY <1>3
  <2>2. rows'[n].member = SharedMember /\ rows'[n].status = "READY"
    BY <1>1, <1>2 DEF MemberRows
  <2> QED BY <1>2, <1>3, <2>1, <2>2 DEF PassbookFollowsPayment
<1> QED BY <1>2, <1>5, <1>6 DEF FileInv

\* Every step keeps the invariant, and a step after the challan changes no line.
LEMMA FileStep ==
  ASSUME FileInv, [Next]_vars
  PROVE  FileInv' /\ (Committed => rows' = rows /\ total' = total)
<1>1. CASE ValidateEcr
  <2>1. rows \in [Rows -> EcrRow]
    BY DEF FileInv, TypeOK
  <2> QED BY <1>1, <2>1, RevalidateKeeps DEF ValidateEcr
<1>2. ASSUME NEW n \in Rows, NEW uan \in Uans \cup {NoUan}, NEW wage \in Wages,
             CorrectEcrRow(n, uan, wage)
      PROVE  FileInv' /\ ~ Committed
  <2> DEFINE rs == [rows EXCEPT ![n] = CorrectedRow(rows[n], uan, wage)]
  <2>1. rs \in [Rows -> EcrRow]
    BY CorrectedIsRow DEF FileInv, TypeOK
  <2>2. Revalidate(rs)
    BY <1>2 DEF CorrectEcrRow
  <2> HIDE DEF rs
  <2> QED BY <2>1, <2>2, RevalidateKeeps
<1>3. CASE GenerateChallan \/ StartEcrPayment
  BY <1>3, FilingKeeps
<1>4. CASE CompleteEcrPayment
  BY <1>4, PaymentKeeps
<1>5. CASE UNCHANGED vars
  BY <1>5 DEF vars, FileInv, TypeOK, VerdictIsCurrent, PassbookFollowsPayment
<1> QED BY <1>1, <1>2, <1>3, <1>4, <1>5 DEF Next

-----------------------------------------------------------------------------

\* The inductive invariant holds at every moment.
THEOREM FileAlwaysInOrder == Spec => []FileInv
<1>1. FileInv /\ [Next]_vars => FileInv'
  BY FileStep
<1> QED BY <1>1, InitFile, PTL DEF Spec

\* The file has the shape the schema admits.
THEOREM FileTypeCorrect == Spec => []TypeOK
BY FileAlwaysInOrder, PTL DEF FileInv

\* The stored verdict, state and total are what validation would say now, after
\* any corrections of any rows.
THEOREM VerdictStaysCurrent == Spec => []VerdictIsCurrent
BY FileAlwaysInOrder, PTL DEF FileInv

\* A contribution is posted exactly by the payment, once, from a paid line.
THEOREM PassbookIsFaithful == Spec => []PassbookFollowsPayment
BY FileAlwaysInOrder, PTL DEF FileInv

\* A file that is clear by its own current verdict pays every UAN once and every
\* line what its wage requires.
LEMMA ClearFilePaysOnce ==
  ASSUME FileInv
  PROVE  EachUanPaidOnce
<1> SUFFICES ASSUME Committed, NEW m \in Rows, rows[m].status = "READY"
             PROVE  /\ rows[m].wage > 0 /\ rows[m].pays = Expected[rows[m].wage]
                    /\ rows[m].uan # NoUan
                    /\ \A n \in Rows :
                         rows[n].status = "READY" /\ rows[n].uan = rows[m].uan => m = n
  BY DEF EachUanPaidOnce
<1>1. rows \in [Rows -> EcrRow] /\ rows = ValidateEcrRows(rows)
  BY DEF FileInv, TypeOK, VerdictIsCurrent
<1>2. ASSUME NEW n \in Rows, rows[n].status = "READY"
      PROVE  RowIssues(rows, n) = {}
  BY <1>1, <1>2, ValidationFields
<1>3. ASSUME NEW n \in Rows, rows[n].status = "READY"
      PROVE  /\ rows[n].wage # 0 /\ rows[n].uan # NoUan /\ ~ SeenBefore(rows, n)
             /\ rows[n].wage > 0 => rows[n].pays = Expected[rows[n].wage]
  BY <1>2, <1>3 DEF RowIssues, IssueCode
<1>4. \A n \in Rows : rows[n].status = "READY" /\ rows[n].uan = rows[m].uan => m = n
  <2> SUFFICES ASSUME NEW n \in Rows, rows[n].status = "READY", rows[n].uan = rows[m].uan,
                      m # n
               PROVE  FALSE
    OBVIOUS
  <2>1. m < n \/ n < m
    BY FileAssumption DEF Rows
  <2> QED BY <2>1, <1>3 DEF SeenBefore
<1>5. rows[m].wage \in Nat
  BY <1>1, FileAssumption DEF EcrRow
<1> QED BY <1>3, <1>4, <1>5

\* The payment of a clear file pays each UAN once.
THEOREM NoUanIsPaidTwice == Spec => []EachUanPaidOnce
BY ClearFilePaysOnce, FileAlwaysInOrder, PTL

\* Once a challan is out, no step changes a line or the total.
THEOREM ChallanIsFinal == Spec => ChallanFixesTheFile
<1>1. FileInv /\ [Next]_vars => [Committed => rows' = rows /\ total' = total]_vars
  BY FileStep
<1> QED BY <1>1, FileAlwaysInOrder, PTL DEF Spec, ChallanFixesTheFile

-----------------------------------------------------------------------------
(* What a challan leads to. *)

\* Of the rows in a set one is the first.
LEMMA SomeRowIsFirst ==
  ASSUME NEW S \in SUBSET Rows, S # {}
  PROVE  \E n \in Rows : IsFirst(n, S)
<1>1. S \subseteq Nat
  BY FileAssumption DEF Rows
<1>2. PICK n \in S : \A k \in S : ~ (<< k, n >> \in OpToRel(<, Nat))
  BY <1>1, NatLessThanWellFounded, WFMin
<1>3. \A k \in S : ~ (k < n)
  BY <1>1, <1>2 DEF OpToRel
<1> QED BY <1>1, <1>3 DEF IsFirst

\* What FairSpec says, with the guards of the two commands in the place of ENABLED.
PaymentIsStarted == []<>~ (state = "CHALLAN_GENERATED") \/ []<><< StartEcrPayment >>_vars

PaymentIsCompleted ==
  \/ []<>~ (state = "PAYMENT_PROCESSING" /\ \E n \in Rows : IsFirst(n, MemberRows(rows)))
  \/ []<><< CompleteEcrPayment >>_vars

\* A challan with a line for the shared member is paid and reaches the passbook, if the
\* employer goes on: nothing can take the file back or the line away meanwhile.
THEOREM ChallansReachThePassbook ==
  Spec /\ PaymentIsStarted /\ PaymentIsCompleted => ChallanReachesPassbook
<1> DEFINE Raised == state = "CHALLAN_GENERATED" /\ MemberRows(rows) # {}
           Started == state = "PAYMENT_PROCESSING" /\ MemberRows(rows) # {}
           Reached == state = "PAID" /\ Len(posted) = 1
           Open == state = "CHALLAN_GENERATED"
           Payable == state = "PAYMENT_PROCESSING" /\ \E n \in Rows : IsFirst(n, MemberRows(rows))
<1>1. Raised => Open
  OBVIOUS
<1>2. Started => Payable
  BY SomeRowIsFirst DEF MemberRows
<1>3. ASSUME FileInv, StartEcrPayment, Raised PROVE Started'
  BY <1>3 DEF StartEcrPayment, TransitionEcr, MemberRows
<1>4. ASSUME FileInv, CompleteEcrPayment PROVE Reached'
  <2>1. state = "PAYMENT_PROCESSING" /\ state' = "PAID"
    BY <1>4 DEF FileInv, TypeOK, EcrState, CompleteEcrPayment, TransitionEcr, ALLOWED_TRANSITIONS
  <2>2. posted = << >>
    BY <1>4, <2>1 DEF FileInv, PassbookFollowsPayment
  <2>3. PICK n \in Rows : posted' = << [wage |-> rows[n].wage, pays |-> rows[n].pays] >>
    BY <1>4, <2>2 DEF CompleteEcrPayment
  <2> QED BY <2>1, <2>3
<1>5. ASSUME FileInv, [Next]_vars
      PROVE  (Raised => Raised' \/ Started') /\ (Started => Started' \/ Reached')
  <2>1. CASE ValidateEcr \/ (\E n \in Rows, uan \in Uans \cup {NoUan}, wage \in Wages :
                                CorrectEcrRow(n, uan, wage))
    <3>1. state' \in {"READY", "VALIDATION_FAILED"} /\ state' \in ALLOWED_TRANSITIONS[state]
      BY <2>1 DEF ValidateEcr, CorrectEcrRow, Revalidate, TransitionEcr, DeriveEcrValidationState
    <3> QED BY <3>1 DEF ALLOWED_TRANSITIONS
  <2>2. CASE GenerateChallan
    BY <2>2 DEF GenerateChallan, TransitionEcr, ALLOWED_TRANSITIONS
  <2>3. CASE StartEcrPayment
    BY <1>3, <1>5, <2>3 DEF StartEcrPayment, TransitionEcr, ALLOWED_TRANSITIONS
  <2>4. CASE CompleteEcrPayment
    BY <1>4, <1>5, <2>4 DEF CompleteEcrPayment, TransitionEcr, ALLOWED_TRANSITIONS
  <2>5. CASE UNCHANGED vars
    BY <2>5 DEF vars, MemberRows
  <2> QED BY <1>5, <2>1, <2>2, <2>3, <2>4, <2>5 DEF Next
<1>6. FileInv /\ Raised /\ << StartEcrPayment >>_vars => Started'
  BY <1>3
<1>7. FileInv /\ << CompleteEcrPayment >>_vars => Reached'
  BY <1>4
<1> HIDE DEF Raised, Started, Reached, Open, Payable
<1>8. Spec /\ PaymentIsStarted /\ PaymentIsCompleted => (Raised ~> Reached)
  BY <1>1, <1>2, <1>5, <1>6, <1>7, FileAlwaysInOrder, PTL
     DEF Spec, PaymentIsStarted, PaymentIsCompleted, Open, Payable
<1> QED BY <1>8 DEF ChallanReachesPassbook, Raised, Reached

-----------------------------------------------------------------------------
(* The pages. *)

\* A verdict looks at a row and at the rows before it.
LEMMA EarlierRowsKeep ==
  ASSUME NEW rs \in [Rows -> EcrRow], NEW n \in Rows, NEW row \in EcrRow,
         NEW k \in Rows, k < n
  PROVE  ValidateEcrRows([rs EXCEPT ![n] = row])[k] = ValidateEcrRows(rs)[k]
<1> DEFINE cs == [rs EXCEPT ![n] = row]
<1>1. k # n /\ \A j \in Rows : j < k => j # n
  BY FileAssumption DEF Rows
<1>2. cs[k] = rs[k] /\ \A j \in Rows : j < k => cs[j] = rs[j]
  BY <1>1
<1> HIDE DEF cs
<1>3. SeenBefore(cs, k) <=> SeenBefore(rs, k)
  BY <1>2 DEF SeenBefore
<1>4. RowIssues(cs, k) = RowIssues(rs, k)
  BY <1>2, <1>3 DEF RowIssues
<1>5. ValidateEcrRows(cs)[k] = ValidateEcrRows(rs)[k]
  BY <1>2, <1>4 DEF ValidateEcrRows
<1> QED BY <1>5 DEF cs

\* What the form of a row in issue can always send: the button of a duplicate, and for
\* any other row the shared member's UAN and a wage.
LEMMA FormSettlesRow ==
  ASSUME FileInv, NEW n \in Rows, rows[n].status = "ISSUE"
  PROVE  \E c \in CorrectionForm(rows[n]) :
           LET after == AfterCorrection(n, c) IN
             /\ DeriveEcrValidationState(after) \in ALLOWED_TRANSITIONS[state]
             /\ IF "DUPLICATE_EMPLOYEE" \in rows[n].issues
                  THEN after[n].status = "EXCLUDED"
                  ELSE after[n].issues \subseteq {"DUPLICATE_EMPLOYEE"}
             /\ \A k \in Rows : k < n => after[k] = rows[k]
<1>1. rows \in [Rows -> EcrRow] /\ rows = ValidateEcrRows(rows)
  BY DEF FileInv, TypeOK, VerdictIsCurrent
<1>2. state = "VALIDATION_FAILED"
  BY DEF FileInv, VerdictIsCurrent, EcrRowsAreClear
<1>3. \A rs : DeriveEcrValidationState(rs) \in ALLOWED_TRANSITIONS[state]
  BY <1>2 DEF DeriveEcrValidationState, ALLOWED_TRANSITIONS
<1>4. ASSUME NEW row \in EcrRow
      PROVE  /\ [rows EXCEPT ![n] = row] \in [Rows -> EcrRow]
             /\ [rows EXCEPT ![n] = row][n] = row
             /\ \A k \in Rows :
                  k < n => ValidateEcrRows([rows EXCEPT ![n] = row])[k] = rows[k]
  <2>1. [rows EXCEPT ![n] = row] \in [Rows -> EcrRow] /\ [rows EXCEPT ![n] = row][n] = row
    BY <1>1
  <2>2. ASSUME NEW k \in Rows, k < n
        PROVE  ValidateEcrRows([rows EXCEPT ![n] = row])[k] = rows[k]
    <3>1. ValidateEcrRows([rows EXCEPT ![n] = row])[k] = ValidateEcrRows(rows)[k]
      BY <1>1, <2>2, EarlierRowsKeep
    <3> QED BY <1>1, <3>1
  <2> QED BY <2>1, <2>2
<1>5. CASE "DUPLICATE_EMPLOYEE" \in rows[n].issues
  <2> DEFINE c == [uan |-> NoUan, wage |-> rows[n].wage]
             row == CorrectedRow(rows[n], c.uan, c.wage)
             rs == [rows EXCEPT ![n] = row]
  <2>1. c \in CorrectionForm(rows[n]) /\ c.uan \in Uans \cup {NoUan} /\ c.wage \in Wages
    BY <1>1, <1>5 DEF CorrectionForm, EcrRow
  <2>2. /\ rs \in [Rows -> EcrRow] /\ rs[n] = row
        /\ \A k \in Rows : k < n => ValidateEcrRows(rs)[k] = rows[k]
    <3>1. row \in EcrRow
      BY <1>1, <2>1, CorrectedIsRow
    <3> HIDE DEF row
    <3> QED BY <3>1, <1>4
  <2>3. row.status = "EXCLUDED"
    BY <1>1, <1>5 DEF CorrectedRow, EcrRow
  <2> HIDE DEF row, rs
  <2>4. ValidateEcrRows(rs)[n].status = "EXCLUDED"
    BY <2>2, <2>3, ValidationFields
  <2>5. AfterCorrection(n, c) = ValidateEcrRows(rs)
    BY DEF AfterCorrection, rs, row
  <2> HIDE DEF c
  <2> QED BY <1>3, <1>5, <2>1, <2>2, <2>4, <2>5
<1>6. CASE "DUPLICATE_EMPLOYEE" \notin rows[n].issues
  <2>1. PICK w \in Wages : w > 0
    BY WagesAssumption
  <2> DEFINE c == [uan |-> SharedUan, wage |-> w]
             row == CorrectedRow(rows[n], c.uan, c.wage)
             rs == [rows EXCEPT ![n] = row]
  <2>2. c \in CorrectionForm(rows[n]) /\ c.uan \in Uans \cup {NoUan} /\ c.wage \in Wages
    BY <1>6, FileAssumption DEF CorrectionForm
  <2>3. /\ rs \in [Rows -> EcrRow] /\ rs[n] = row
        /\ \A k \in Rows : k < n => ValidateEcrRows(rs)[k] = rows[k]
    <3>1. row \in EcrRow
      BY <1>1, <2>2, CorrectedIsRow
    <3> HIDE DEF row
    <3> QED BY <3>1, <1>4
  <2>4. /\ row.uan = SharedUan /\ row.member = SharedMember /\ row.wage = w
        /\ row.pays = Expected[w] /\ row.status = "READY"
    BY <1>6, FileAssumption DEF CorrectedRow
  <2> HIDE DEF row, rs
  <2>5. RowIssues(rs, n) \subseteq {"DUPLICATE_EMPLOYEE"}
    BY <2>1, <2>3, <2>4, FileAssumption DEF RowIssues, IssueCode, IsLinkedMember
  <2>6. ValidateEcrRows(rs)[n].issues \subseteq {"DUPLICATE_EMPLOYEE"}
    BY <2>3, <2>4, <2>5, ValidationFields
  <2>7. AfterCorrection(n, c) = ValidateEcrRows(rs)
    BY DEF AfterCorrection, rs, row
  <2> HIDE DEF c
  <2> QED BY <1>3, <1>6, <2>2, <2>3, <2>6, <2>7
<1> QED BY <1>5, <1>6

\* The filing page never leaves the employer without a way on, and offers the next step of
\* the filing exactly when the file allows it.
THEOREM FilingPageGoesOn == Spec => []FilingCanGoOn
<1>1. FileInv => FilingCanGoOn
  <2> SUFFICES ASSUME FileInv
               PROVE  FilingActions \ {"VALIDATE"} # {} <=> EcrRowsAreClear(rows) /\ state # "PAID"
    BY FormSettlesRow DEF FilingCanGoOn
  <2>1. /\ state \in EcrState /\ state # "DRAFT"
        /\ state = "VALIDATION_FAILED" <=> ~ EcrRowsAreClear(rows)
    BY DEF FileInv, TypeOK, VerdictIsCurrent
  <2>2. CASE state \in {"PAID", "VALIDATION_FAILED"}
    <3>1. FilingActions \ {"VALIDATE"} = {}
      BY <2>2 DEF FilingActions
    <3> QED BY <3>1, <2>1, <2>2
  <2>3. CASE state = "READY"
    <3>1. "GENERATE_CHALLAN" \in FilingActions
      BY <2>3 DEF FilingActions
    <3> QED BY <3>1, <2>1, <2>3
  <2>4. CASE state = "CHALLAN_GENERATED"
    <3>1. "START_PAYMENT" \in FilingActions
      BY <2>4 DEF FilingActions
    <3> QED BY <3>1, <2>1, <2>4
  <2>5. CASE state = "PAYMENT_PROCESSING"
    <3>1. "CONFIRM_PAYMENT" \in FilingActions
      BY <2>5 DEF FilingActions
    <3> QED BY <3>1, <2>1, <2>5
  <2> QED BY <2>1, <2>2, <2>3, <2>4, <2>5 DEF EcrState
<1> QED BY <1>1, FileAlwaysInOrder, PTL

\* The health of a month is one of the five, and its severity follows.
LEMMA SeverityRange ==
  ASSUME NEW c \in ContributionEntry
  PROVE  /\ Health(c) \in ContributionStatus /\ Severity(c) \in 0..4
         /\ NeedsAttention(c) <=> Severity(c) <= 2
         /\ Health(c) = "POSTED" <=> Severity(c) = 4
<1>1. Health(c) \in ContributionStatus
  BY DEF Health, ContributionStatus
<1> QED BY <1>1 DEF Severity, FOCUS_PRIORITY, NeedsAttention, ContributionStatus

\* The month a file paid is a healthy month, newer than every other.
LEMMA PaidMonth ==
  ASSUME FileInv, state = "PAID"
  PROVE  \E c \in ContributionEntry :
           Passbook = History \cup {c} /\ c.month = FilingMonth /\ Health(c) = "POSTED"
<1>1. PICK n \in Rows :
        /\ rows[n].status = "READY"
        /\ posted = << [wage |-> rows[n].wage, pays |-> rows[n].pays] >>
  BY DEF FileInv, PassbookFollowsPayment
<1>2. rows[n].wage > 0 /\ rows[n].pays = Expected[rows[n].wage]
  BY <1>1, ClearFilePaysOnce DEF EachUanPaidOnce, Committed
<1>3. rows[n] \in EcrRow
  BY DEF FileInv, TypeOK
<1> DEFINE c == [month |-> FilingMonth, wage |-> rows[n].wage, pays |-> rows[n].pays,
                 declared |-> "POSTED"]
<1>4. c \in ContributionEntry
  BY <1>3, HistoryAssumption DEF ContributionEntry, ContributionStatus, EcrRow
<1>5. Health(c) = "POSTED"
  <2>1. Expected[rows[n].wage] > 0 /\ Expected[rows[n].wage] \in Nat
    BY <1>2, <1>3, WagesAssumption, FileAssumption DEF EcrRow
  <2> QED BY <1>2, <2>1 DEF Health
<1>6. Passbook = History \cup {c}
  <2>1. /\ 1..Len(posted) = {1}
        /\ posted[1].wage = rows[n].wage /\ posted[1].pays = rows[n].pays
    BY <1>1
  <2> QED BY <2>1 DEF Passbook
<1> QED BY <1>4, <1>5, <1>6

\* A paid file shows in every view of the passbook, and hides no month that was there.
THEOREM PaymentIsVisible == Spec => []PaymentShowsAsPosted
<1>1. ASSUME FileInv, state # "PAID"
      PROVE  PaymentShowsAsPosted
  <2>1. posted = << >>
    BY <1>1 DEF FileInv, PassbookFollowsPayment
  <2>2. 1..Len(posted) = {}
    BY <2>1
  <2>3. Passbook = History
    BY <2>2 DEF Passbook
  <2>4. \A c \in History : c.month # FilingMonth
    BY HistoryAssumption DEF ContributionEntry
  <2> QED BY <1>1, <2>3, <2>4 DEF PaymentShowsAsPosted
<1>2. ASSUME FileInv, state = "PAID"
      PROVE  PaymentShowsAsPosted
  <2>1. PICK c \in ContributionEntry :
          Passbook = History \cup {c} /\ c.month = FilingMonth /\ Health(c) = "POSTED"
    BY <1>2, PaidMonth
  <2>2. /\ History \subseteq ContributionEntry /\ FilingMonth \in Nat
        /\ \A e \in History : e.month \in Nat /\ e.month < c.month /\ e.month # c.month
    BY <2>1, HistoryAssumption DEF ContributionEntry
  <2>3. {e \in Passbook : e.month = FilingMonth} = {c}
    BY <2>1, <2>2
  <2>4. Selected("all", FilingMonth) = {c} /\ Selected("posted", FilingMonth) = {c}
    <3>1. /\ STATUS_FILTERS["all"] = ContributionStatus /\ STATUS_FILTERS["posted"] = {"POSTED"}
          /\ "POSTED" \in ContributionStatus
      BY DEF STATUS_FILTERS, ContributionStatus
    <3>2. ASSUME NEW S, Health(c) \in S
          PROVE  {e \in {d \in Passbook : Health(d) \in S} : e.month = FilingMonth} = {c}
      BY <2>1, <2>2, <3>2
    <3> QED BY <2>1, <3>1, <3>2 DEF Selected
  <2>5. Newer(Passbook, c) = {} /\ \A e \in History : c \in Newer(Passbook, e)
    BY <2>1, <2>2 DEF Newer
  <2>6. c \in Highlights(Passbook) /\ Latest(Passbook) = {c}
    <3>1. c \in Passbook
      BY <2>1
    <3>2. Cardinality(Newer(Passbook, c)) = 0
      BY <2>5, FS_EmptySet
    <3>3. Cardinality(Newer(Passbook, c)) < 3
      BY <3>2
    <3>4. c \in Highlights(Passbook)
      BY <3>1, <3>3 DEF Highlights
    <3>5. Latest(Passbook) = {c}
      BY <2>1, <2>5 DEF Latest
    <3> QED BY <3>4, <3>5
  <2>7. ~ NeedsAttention(c) /\ Severity(c) = 4
    BY <2>1, SeverityRange DEF NeedsAttention
  <2>8. Attention(Passbook) = Attention(History)
    BY <2>1, <2>7 DEF Attention
  <2>9. ASSUME NEW a \in Attention(History)
        PROVE  Focus(Passbook) = Focus(History)
    <3>1. a \in History /\ Severity(a) <= 2
      BY <2>2, SeverityRange DEF Attention
    <3>2. \A e \in Passbook : Severity(e) \in 0..4
      BY <2>1, <2>2, SeverityRange
    <3>3. Focus(Passbook) \subseteq Focus(History)
      <4>1. c \notin Focus(Passbook)
        BY <2>1, <2>7, <3>1, <3>2 DEF Focus
      <4> QED BY <4>1, <2>1 DEF Focus
    <3>4. ASSUME NEW e \in Focus(History)
          PROVE  e \in Focus(Passbook)
      <4>1. Severity(e) < Severity(c)
        BY <2>1, <2>7, <3>1, <3>2 DEF Focus
      <4> QED BY <4>1, <2>1 DEF Focus
    <3> QED BY <3>3, <3>4
  <2>10. /\ c \in Passbook /\ state = "PAID"
         /\ Attention(History) # {} => Focus(Passbook) = Focus(History)
    BY <1>2, <2>1, <2>9
  <2> QED BY <2>1, <2>3, <2>4, <2>6, <2>8, <2>10 DEF PaymentShowsAsPosted
<1>3. FileInv => PaymentShowsAsPosted
  BY <1>1, <1>2
<1> QED BY <1>3, FileAlwaysInOrder, PTL

-----------------------------------------------------------------------------
(* The arithmetic of a month, for every wage. *)

\* Rounding never moves a share by more than half a paisa, and a half goes up.
LEMMA ShareIsClose ==
  ASSUME NEW wage \in Nat, NEW rate \in {367, 833, 1200}
  PROVE  /\ Share(wage, rate) \in Nat
         /\ 10000 * Share(wage, rate) <= wage * rate + 5000
         /\ wage * rate < 10000 * Share(wage, rate) + 5000
<1> DEFINE h == wage \div 10000
           k == wage % 10000
<1>1. h \in Nat /\ k \in 0..9999 /\ wage = 10000 * h + k
  OBVIOUS
<1>2. Share(wage, rate) = h * rate + (k * rate + 5000) \div 10000
  BY DEF Share
<1> HIDE DEF h, k
<1>3. CASE rate = 367
  BY <1>1, <1>2, <1>3
<1>4. CASE rate = 833
  BY <1>1, <1>2, <1>4
<1>5. CASE rate = 1200
  BY <1>1, <1>2, <1>5
<1> QED BY <1>3, <1>4, <1>5

LEMMA SharesAreClose ==
  ASSUME NEW wage \in Nat
  PROVE  /\ Share(wage, 367) \in Nat /\ Share(wage, 833) \in Nat /\ Share(wage, 1200) \in Nat
         /\ 10000 * Share(wage, 367) <= wage * 367 + 5000
         /\ wage * 367 < 10000 * Share(wage, 367) + 5000
         /\ 10000 * Share(wage, 833) <= wage * 833 + 5000
         /\ wage * 833 < 10000 * Share(wage, 833) + 5000
         /\ 10000 * Share(wage, 1200) <= wage * 1200 + 5000
         /\ wage * 1200 < 10000 * Share(wage, 1200) + 5000
<1>1. 367 \in {367, 833, 1200} /\ 833 \in {367, 833, 1200} /\ 1200 \in {367, 833, 1200}
  OBVIOUS
<1> QED BY <1>1, ShareIsClose

\* A real wage earns a contribution from five paise on, so a paid month is never taken for
\* a missing one: what WagesAssumption asks of Expected is what the code's arithmetic gives
\* (expectedContributionFromWage).
THEOREM RealWagesEarn ==
  ASSUME NEW W \in SUBSET Nat, \A w \in W : w = 0 \/ w >= 5
  PROVE  \A w \in W : w > 0 => [v \in W |-> ExpectedTotal(v)][w] > 0
<1> SUFFICES ASSUME NEW w \in W, w > 0
             PROVE  ExpectedTotal(w) > 0
  OBVIOUS
<1>1. w \in Nat /\ w >= 5
  OBVIOUS
<1>2. Share(w, 1200) \in Nat /\ w * 1200 < 10000 * Share(w, 1200) + 5000
  BY <1>1, ShareIsClose
<1>3. Share(w, 1200) > 0
  BY <1>1, <1>2
<1>4. Share(w, 833) \in Nat
  BY <1>1, ShareIsClose
<1> QED BY <1>2, <1>3, <1>4
  DEF ExpectedTotal, ExpectedContributionFromWage, EMPLOYEE_SHARE_RATE, EMPLOYER_SHARE_RATE,
      EPS_SHARE_RATE, EPS_MONTHLY_CEILING_PAISE

\* The pension share a payroll line must show is that of the panel for wages below
\* 15,005.95 rupees and the ceiling from there on: nowhere does the ceiling cut off more
\* than the wage's own share, or leave a share above it.
THEOREM CeilingBitesOnce ==
  ASSUME NEW wage \in Nat
  PROVE  ExpectedContributionFromWage(wage).eps =
           IF wage < 1500595 THEN SplitContribution(wage).employerEps
           ELSE EPS_MONTHLY_CEILING_PAISE
<1>1. /\ Share(wage, 833) \in Nat
      /\ 10000 * Share(wage, 833) <= wage * 833 + 5000
      /\ wage * 833 < 10000 * Share(wage, 833) + 5000
  BY ShareIsClose
<1>2. wage < 1500595 => Share(wage, 833) <= 125000
  BY <1>1
<1>3. wage >= 1500595 => Share(wage, 833) >= 125000
  BY <1>1
<1> QED BY <1>1, <1>2, <1>3
  DEF ExpectedContributionFromWage, SplitContribution, EPS_SHARE_RATE,
      STATUTORY_EMPLOYER_EPS_RATE, EPS_MONTHLY_CEILING_PAISE

\* The panel's two employer shares, rounded apart, add up to the employer's twelve percent,
\* or to one paisa more when both stand at a half; for a wage in whole rupees that is only
\* at fifty rupees past a hundred (splitContribution: "rounds each share independently").
THEOREM SplitAddsUp ==
  ASSUME NEW rupees \in Nat
  PROVE  LET split == SplitContribution(100 * rupees) IN
           /\ split.employeePf = 12 * rupees
           /\ split.employerPf + split.employerEps =
                 12 * rupees + IF rupees % 100 = 50 THEN 1 ELSE 0
           /\ split.total = split.employeePf + split.employerPf + split.employerEps
<1> DEFINE wage == 100 * rupees
           h == rupees \div 100
           k == rupees % 100
           s == Share(wage, 367)
           t == Share(wage, 833)
           u == Share(wage, 1200)
<1>1. rupees = 100 * h + k /\ h \in Nat /\ k \in 0..99 /\ wage \in Nat
  OBVIOUS
<1>2. /\ s \in Nat /\ 10000 * s <= wage * 367 + 5000 /\ wage * 367 < 10000 * s + 5000
      /\ t \in Nat /\ 10000 * t <= wage * 833 + 5000 /\ wage * 833 < 10000 * t + 5000
      /\ u \in Nat /\ 10000 * u <= wage * 1200 + 5000 /\ wage * 1200 < 10000 * u + 5000
  <2> HIDE DEF wage
  <2> QED BY <1>1, SharesAreClose
<1>3. wage = 10000 * h + 100 * k
  BY <1>1
<1> HIDE DEF wage, h, k, s, t, u
<1>4. s = 367 * h + ((367 * k + 50) \div 100)
  BY <1>1, <1>2, <1>3
<1>5. t = 833 * h + ((833 * k + 50) \div 100)
  BY <1>1, <1>2, <1>3
<1>6. u = 12 * rupees
  BY <1>1, <1>2, <1>3
<1>7. ((367 * k + 50) \div 100) + ((833 * k + 50) \div 100) = 12 * k + IF k = 50 THEN 1 ELSE 0
  BY <1>1
<1>8. s + t = 12 * rupees + IF k = 50 THEN 1 ELSE 0
  BY <1>1, <1>4, <1>5, <1>7
<1> QED BY <1>6, <1>8
  DEF SplitContribution, STATUTORY_EMPLOYEE_PF_RATE, STATUTORY_EMPLOYER_PF_RATE,
      STATUTORY_EMPLOYER_EPS_RATE, wage, k, s, t, u
=============================================================================
