------------------------------ MODULE MCEcrFile ------------------------------
(* The fixture's defects on four lines: a wrong amount, the shared member    *)
(* under an unlinked id, a repeat of the first line's UAN, and a line with   *)
(* neither UAN nor wage.  The months before are the fixture's seven.         *)
EXTENDS EcrPages, ContributionShares

MCWage == 1800000

MCWages == {0, MCWage}

MCExpected == [w \in MCWages |-> ExpectedTotal(w)]

Full == ExpectedTotal(MCWage)

Line(uan, member, wage, pays) == [uan |-> uan, member |-> member, wage |-> wage, pays |-> pays]

MCPayroll ==
  << Line("uan-1", "payroll-1", MCWage, Full - 60000),
     Line("uan-aarav", "aarav-unlinked", MCWage, Full),
     Line("uan-1", "payroll-3", MCWage, Full),
     Line("", "payroll-4", 0, 0) >>

MCDeclared(month) ==
  CASE month = 3 -> "MISMATCH" [] month = 5 -> "RECONCILED" [] month = 6 -> "DELAYED"
    [] OTHER -> "POSTED"

\* March was filed without the employer's share.
MCHistory ==
  {[month |-> m, wage |-> MCWage, pays |-> IF m = 3 THEN Full - 216000 ELSE Full, declared |-> MCDeclared(m)] :
     m \in 1..7}
=============================================================================
