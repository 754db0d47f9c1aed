------------------------------- MODULE EcrPages -------------------------------
(***************************************************************************)
(* What the two parties see of the payroll file: the employer's filing     *)
(* page with its correction forms and buttons, and the member's passbook,  *)
(* a read model computed from the contributions whenever a page is shown.  *)
(***************************************************************************)
EXTENDS EcrFile, FiniteSets

CONSTANTS
  History,       \* the contributions recorded before this file
  FilingMonth    \* the month the file is for

\* declared: the postingStatus the source system gave the month.
ContributionStatus == {"POSTED", "DELAYED", "MISMATCH", "MISSING", "RECONCILED"}

ContributionEntry ==
  [month : Nat, wage : Wages, pays : Nat, declared : ContributionStatus]

ASSUME HistoryAssumption ==
  /\ FilingMonth \in Nat
  /\ History \subseteq ContributionEntry
  /\ \A c \in History : c.month < FilingMonth
  /\ \A b, c \in History : b.month = c.month => b = c

\* bound: the wages an employer can type are in Wages; one of them is a real wage, and a
\* real wage is large enough for a share of it to round to more than nothing.
ASSUME WagesAssumption ==
  /\ \E w \in Wages : w > 0
  /\ \A w \in Wages : w > 0 => Expected[w] > 0

-----------------------------------------------------------------------------
(* The filing page. *)

\* The fields a row's form can send: none for a row that is not in issue; the form of a
\* duplicate has one button and no field; the others send the row's UAN and wage as
\* typed, an empty wage as 0.
CorrectionForm(row) ==
  IF row.status # "ISSUE" THEN {}
  ELSE IF "DUPLICATE_EMPLOYEE" \in row.issues THEN {[uan |-> NoUan, wage |-> row.wage]}
  ELSE [uan : Uans \cup {NoUan}, wage : Wages]

\* The enabled buttons; re-validation is always among them until the file is paid.
FilingActions ==
  IF state = "PAID" THEN {}
  ELSE {"VALIDATE"}
         \cup {a \in {"GENERATE_CHALLAN", "START_PAYMENT", "CONFIRM_PAYMENT"} :
                 \/ a = "GENERATE_CHALLAN" /\ state = "READY"
                 \/ a = "START_PAYMENT" /\ state = "CHALLAN_GENERATED"
                 \/ a = "CONFIRM_PAYMENT" /\ state = "PAYMENT_PROCESSING"}

\* The file as it would be validated after row n was corrected.
AfterCorrection(n, c) ==
  ValidateEcrRows([rows EXCEPT ![n] = CorrectedRow(rows[n], c.uan, c.wage)])

-----------------------------------------------------------------------------
(* The passbook. *)

\* The deterministic health of one month; what is declared counts only where it is not
\* arithmetic.
Health(c) ==
  IF c.declared \in {"RECONCILED", "DELAYED"} THEN c.declared
  ELSE IF c.declared = "MISSING" \/ c.pays = 0 THEN "MISSING"
  ELSE IF c.pays # Expected[c.wage] THEN "MISMATCH"
  ELSE "POSTED"

NeedsAttention(c) == Health(c) \in {"DELAYED", "MISMATCH", "MISSING"}

\* A posted contribution is the month's, and declared posted.
Passbook ==
  History \cup
    {[month |-> FilingMonth, wage |-> posted[k].wage, pays |-> posted[k].pays,
      declared |-> "POSTED"] : k \in 1..Len(posted)}

Attention(p) == {c \in p : NeedsAttention(c)}

Newer(p, c) == {e \in p : e.month > c.month}

Highlights_Bug(p) ==   \* the first months instead of the last
  {c \in p : Cardinality({e \in p : e.month < c.month}) < 3 \/ NeedsAttention(c)}

\* What the home page shows: the three most recent months, and each earlier one that
\* needs attention.
Highlights(p) == {c \in p : Cardinality(Newer(p, c)) < 3 \/ NeedsAttention(c)}

\* The last contribution of the home page and of the employer's overview, and the wage an
\* advance is measured by.
Latest(p) == {c \in p : Newer(p, c) = {}}

FOCUS_PRIORITY ==
  [MISSING |-> 0, MISMATCH |-> 1, DELAYED |-> 2, RECONCILED |-> 3, POSTED |-> 4]

Severity(c) == FOCUS_PRIORITY[Health(c)]

\* The most severe month, and of several the most recent.
Focus(p) ==
  {c \in p : \A e \in p :
     Severity(c) < Severity(e) \/ (Severity(c) = Severity(e) /\ e.month <= c.month)}

STATUS_FILTERS ==
  [all |-> ContributionStatus,
   posted |-> {"POSTED"},
   attention |-> {"MISMATCH", "MISSING", "DELAYED"},
   reconciled |-> {"RECONCILED"}]

\* The month the passbook explains: the one asked for if the filter shows it, else the focus.
Selected(filter, month) ==
  LET visible == {c \in Passbook : Health(c) \in STATUS_FILTERS[filter]}
      requested == {c \in visible : c.month = month}
  IN  IF requested = {} THEN Focus(visible) ELSE requested

-----------------------------------------------------------------------------
(* Properties. *)

\* The file can be worked off from its page.  Each row in issue has a form, and something
\* can be typed into it that is accepted, settles the row and leaves the rows before it as
\* they were: a duplicate is excluded, any other row becomes ready or at worst a duplicate,
\* which the next click excludes.  The button of the next step is there exactly when no
\* row is in issue (correction form and page against correctEcrRow and validateEcrRows).
FilingCanGoOn ==
  /\ \A n \in Rows : rows[n].status = "ISSUE" =>
       \E c \in CorrectionForm(rows[n]) :
         LET after == AfterCorrection(n, c) IN
           /\ DeriveEcrValidationState(after) \in ALLOWED_TRANSITIONS[state]
           /\ IF "DUPLICATE_EMPLOYEE" \in rows[n].issues
                THEN after[n].status = "EXCLUDED"
                ELSE after[n].issues \subseteq {"DUPLICATE_EMPLOYEE"}
           /\ \A k \in Rows : k < n => after[k] = rows[k]
  /\ FilingActions \ {"VALIDATE"} # {} <=> EcrRowsAreClear(rows) /\ state # "PAID"

\* A month that was paid through a file shows as posted in every view, and hides nothing:
\* the passbook has it once and in good health, the filing page's link opens it, the home
\* page has it among the highlights and as the last one, and the months that need attention
\* and the one the passbook opens on are those of before.  Until then it is nowhere
\* (postContributionFromEcr against contribution-health.ts and the passbook page).
PaymentShowsAsPosted ==
  LET paid == {c \in Passbook : c.month = FilingMonth} IN
    /\ state # "PAID" => paid = {}
    /\ state = "PAID" =>
         \E c \in Passbook :
           /\ paid = {c} /\ Health(c) = "POSTED"
           /\ Selected("all", FilingMonth) = {c} /\ Selected("posted", FilingMonth) = {c}
           /\ c \in Highlights(Passbook) /\ Latest(Passbook) = {c}
    /\ Attention(Passbook) = Attention(History)
    /\ Attention(History) # {} => Focus(Passbook) = Focus(History)
=============================================================================
