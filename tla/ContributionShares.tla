-------------------------- MODULE ContributionShares --------------------------
(***************************************************************************)
(* What a month's wage must produce, in paise.  Two computations, kept     *)
(* apart by the code: the one the payroll file and the passbook are        *)
(* checked against, and the one behind the passbook's "Where does my money *)
(* go?" panel.  Each share is rounded by itself; a wage is in whole paise, *)
(* and up to ten million rupees the code's floating point rounds as here.  *)
(***************************************************************************)
EXTENDS Integers

EMPLOYEE_SHARE_RATE == 1200     \* rates are in hundredths of a percent
EMPLOYER_SHARE_RATE == 1200
EPS_SHARE_RATE == 833
EPS_MONTHLY_CEILING_PAISE == 125000

STATUTORY_EMPLOYEE_PF_RATE == 1200
STATUTORY_EMPLOYER_PF_RATE == 367
STATUTORY_EMPLOYER_EPS_RATE == 833

\* Math.round(wage * rate): a half goes up.  Ten thousands and the rest apart, for the
\* sake of TLC's 32-bit integers.
Share(wage, rate) ==
  (wage \div 10000) * rate + ((wage % 10000) * rate + 5000) \div 10000

ExpectedContributionFromWage(wage) ==
  LET eps == Share(wage, EPS_SHARE_RATE) IN
    [employee |-> Share(wage, EMPLOYEE_SHARE_RATE),
     employer |-> Share(wage, EMPLOYER_SHARE_RATE),
     eps |-> IF eps <= EPS_MONTHLY_CEILING_PAISE THEN eps ELSE EPS_MONTHLY_CEILING_PAISE]

ExpectedTotal(wage) ==
  LET expected == ExpectedContributionFromWage(wage)
  IN  expected.employee + expected.employer + expected.eps

\* The panel's decomposition; it knows no ceiling.
SplitContribution(wage) ==
  LET employeePf == Share(wage, STATUTORY_EMPLOYEE_PF_RATE)
      employerPf == Share(wage, STATUTORY_EMPLOYER_PF_RATE)
      employerEps == Share(wage, STATUTORY_EMPLOYER_EPS_RATE)
  IN  [employeePf |-> employeePf, employerPf |-> employerPf, employerEps |-> employerEps,
       total |-> employeePf + employerPf + employerEps]
=============================================================================
