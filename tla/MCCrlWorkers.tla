----------------------------- MODULE MCCrlWorkers -----------------------------
(* Small instances of CrlWorkers. *)
EXTENDS CrlWorkers, TLC

\* CAs, accounts, and names the server chooses at random, are interchangeable.
Interchangeable == Permutations(Ca) \cup Permutations(Account) \cup Permutations(Script)
===============================================================================
