------------------------------ MODULE MCKeyStore ------------------------------
(* Small instances of KeyStore. *)
EXTENDS KeyStore, TLC

Interchangeable == Permutations(Thread) \cup Permutations(Key) \cup Permutations(Row)
===============================================================================
