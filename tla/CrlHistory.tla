------------------------------ MODULE CrlHistory ------------------------------
(***************************************************************************)
(* CrlPublishing with a history variable, the lists its record of          *)
(* revocations has held, and the mapping by which both places a client can *)
(* fetch the list from keep the promise of CrlPromise.  The history        *)
(* variable is read by no action.                                          *)
(***************************************************************************)
EXTENDS CrlPublishing

VARIABLE past

historyVars == <<vars, past>>

HistoryInit == Init /\ past = {RevokedSerials}

HistoryNext == Next /\ past' = past \cup {RevokedSerials'}

HistorySpec == HistoryInit /\ [][HistoryNext]_historyVars

Server == INSTANCE CrlPromise WITH record <- RevokedSerials, served <- crlDer
Worker == INSTANCE CrlPromise WITH record <- RevokedSerials, served <- remote

\* What /crl/<id>.crl serves is always a list the record held, whole.
ServerKeepsPromise == Server!PromiseSpec

\* And so is what the CA's Cloudflare Worker serves.
WorkerKeepsPromise == Worker!PromiseSpec

\* What makes the refinement inductive: a list being written or sent, like
\* the lists already out, is one the record held.
ListsFromPast ==
    /\ past \subseteq SUBSET Cert
    /\ RevokedSerials \in past
    /\ crlDer \in past \cup {NoCrl}
    /\ remote \in past \cup {NoCrl}
    /\ \A p \in Proc : pc[p] \in {"write", "send"} => snap[p] \in past
===============================================================================
