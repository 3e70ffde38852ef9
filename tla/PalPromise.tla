------------------------------ MODULE PalPromise -------------------------------
(***************************************************************************)
(* What the server promises about a PC's certificate requests: each one is *)
(* answered once.  It is signed, with one certificate that is no other     *)
(* request's, or refused, and a signed or refused request is never taken   *)
(* up again; forgetting the PC drops whatever was not signed.              *)
(***************************************************************************)
CONSTANTS Request, Cert

VARIABLES answer,   \* what has become of each request
          given     \* the certificates signed for it

Answer == {"none", "waiting", "signed", "refused", "dropped"}

PromiseInit ==
    /\ answer = [r \in Request |-> "none"]
    /\ given = [r \in Request |-> {}]

Ask(r) ==
    /\ answer[r] = "none"
    /\ answer' = [answer EXCEPT ![r] = "waiting"]
    /\ UNCHANGED given

Sign(r, c) ==
    /\ answer[r] = "waiting"
    /\ \A q \in Request : c \notin given[q]
    /\ answer' = [answer EXCEPT ![r] = "signed"]
    /\ given' = [given EXCEPT ![r] = {c}]

\* One denied by the admin, or all that wait when the PC is disconnected.
Refuse(S) ==
    /\ \A r \in S : answer[r] = "waiting"
    /\ answer' = [r \in Request |-> IF r \in S THEN "refused" ELSE answer[r]]
    /\ UNCHANGED given

Drop(S) ==
    /\ \A r \in S : answer[r] \in {"waiting", "refused"}
    /\ answer' = [r \in Request |-> IF r \in S THEN "dropped" ELSE answer[r]]
    /\ UNCHANGED given

PromiseNext ==
    \/ \E S \in SUBSET Request : Refuse(S) \/ Drop(S)
    \/ \E r \in Request : Ask(r) \/ \E c \in Cert : Sign(r, c)

PromiseSpec == PromiseInit /\ [][PromiseNext]_<<answer, given>>
===============================================================================
