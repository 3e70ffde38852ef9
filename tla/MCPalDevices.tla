---------------------------- MODULE MCPalDevices ----------------------------
(* Small instances of PalDevices. *)
EXTENDS PalDevices, TLC

Interchangeable == Permutations(Thread) \cup Permutations(Code)
                   \cup Permutations(Device) \cup Permutations(Request)
===============================================================================
