---------------------------- MODULE MCCrlPublishing ----------------------------
(* Small instances of CrlPublishing. *)
EXTENDS CrlPublishing, TLC

CONSTANTS c1, c2

\* One served here, one whose list is not published (it is revocable)
MixedDp == c1 :> "server" @@ c2 :> "placeholder"
\* A single one, at the Worker
OneWorkerDp == c1 :> "cloudflare"
\* A single one, served here; a Worker there is gets the same list
OneServedDp == c1 :> "server"

ThreadSymmetry == Permutations(Thread)
===============================================================================
