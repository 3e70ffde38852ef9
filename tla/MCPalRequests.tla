----------------------------- MODULE MCPalRequests -----------------------------
(* Small instances of PalRequests, and of the PalNames its requests ask for. *)
EXTENDS PalRequests, MCPalNames, TLC

CONSTANTS c1, c2

\* One certificate names a CRL, the other none
FirstRevocable == {c1}

Interchangeable == Permutations(Thread) \cup Permutations(Request)
===============================================================================
