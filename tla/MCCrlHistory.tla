----------------------------- MODULE MCCrlHistory -----------------------------
(* Small instances of CrlHistory. *)
EXTENDS CrlHistory, TLC

CONSTANTS c1, c2

\* One certificate served here, one at the Worker
BothDp == c1 :> "server" @@ c2 :> "cloudflare"
===============================================================================
