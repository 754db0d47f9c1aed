------------------------------ MODULE MCPfLedger ------------------------------
(* The wage caps the medical advance and the balance caps the housing one;   *)
(* the month the ECR posts may raise the wage, and the largest amount asked  *)
(* for is above everything the member will ever have.                        *)
EXTENDS LedgerPages

MCMultiple == [MEDICAL |-> 2, HOUSING |-> 9]

MCRequiredMonths == [MEDICAL |-> 0, HOUSING |-> 60]

MCPostings == {[wage |-> 1, pays |-> 1], [wage |-> 2, pays |-> 2]}
=============================================================================
