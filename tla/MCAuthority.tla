------------------------------ MODULE MCAuthority ------------------------------
(* Small instances of Authority, with Lookups. *)
EXTENDS Lookups, TLC

CONSTANTS n1, n2, other

\* Another installation: one root, with the first id.
OtherRoot == [serial |-> 9, subject |-> other, issuer |-> other, signer |-> 9,
              from |-> 0, to |-> 9, path |-> "any"]
OtherInstallation == [cas |-> <<[cert |-> OtherRoot, parent |-> 0]>>, certs |-> {}, deleted |-> {},
                      torn |-> FALSE, gone |-> {}]

Interchangeable == Permutations({n1, n2})
===============================================================================
