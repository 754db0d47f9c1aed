------------------------------ MODULE PfAccount ------------------------------
(***************************************************************************)
(* A PF account as its owner understands it: a sum of money, sources that  *)
(* still owe it one payment each, and withdrawals it can cover.            *)
(***************************************************************************)
EXTENDS Naturals

CONSTANTS
  Opening,   \* the sum at the start
  Value      \* [source -> SUBSET Nat]: what the payment of a source may be

VARIABLES
  funds,     \* the sum
  awaited    \* sources that have not paid yet

AccountInit == funds = Opening /\ awaited = DOMAIN Value

Receive(source) ==
  /\ source \in awaited
  /\ \E amount \in Value[source] : funds' = funds + amount
  /\ awaited' = awaited \ {source}

Withdraw ==
  /\ funds' \in 0..funds
  /\ UNCHANGED awaited

AccountNext == Withdraw \/ \E source \in DOMAIN Value : Receive(source)

AccountSpec == AccountInit /\ [][AccountNext]_<< funds, awaited >>
=============================================================================
