----------------------------- MODULE AtomicSession -----------------------------
(***************************************************************************)
(* The abstract session: each visitor has one document, created from the   *)
(* fixtures, and a command replaces it by one of its effects in a single   *)
(* step that touches nobody else's.                                        *)
(***************************************************************************)
CONSTANTS
  Visitors,
  Fixtures,      \* the document a visitor starts with
  Effects(_)     \* the documents a command may leave of a document

VARIABLE doc    \* what the document of each visitor is

AtomicInit == doc = [v \in Visitors |-> Fixtures]

Execute(v) == \E e \in Effects(doc[v]) : doc' = [doc EXCEPT ![v] = e]

AtomicSpec == AtomicInit /\ [][\E v \in Visitors : Execute(v)]_doc
=============================================================================
