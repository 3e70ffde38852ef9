------------------------------ MODULE MCAccounts ------------------------------
(* Small instances of Accounts. *)
EXTENDS Accounts, TLC

Interchangeable == Permutations(Client) \cup Permutations(Secret) \cup Permutations(Device)
===============================================================================
