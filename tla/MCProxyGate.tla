----------------------------- MODULE MCProxyGate -----------------------------
(* The tabs of a browser are alike, and so are two session ids. *)
EXTENDS ProxyGate, TLC

MCSymmetry == Permutations(Tabs) \cup Permutations(SessionIds)
=============================================================================
