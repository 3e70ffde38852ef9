------------------------------ MODULE CrlPromise ------------------------------
(***************************************************************************)
(* What one certificate authority promises about its published revocation  *)
(* list, whatever the threads that sign and serve it do:                   *)
(*                                                                         *)
(*   - certificates are put on the authority's own record of revocations,  *)
(*     and leave it only when they lapse (deleted and past their expiry);  *)
(*   - the list clients can fetch is always a list the record held, whole, *)
(*     at some moment: never a mixture, never an invented entry.           *)
(*                                                                         *)
(* It does not promise that the served list is the newest one: the code    *)
(* does not either (see CrlPublishing).                                    *)
(***************************************************************************)
CONSTANTS Cert,     \* certificates of the authority
          NoCrl     \* no list is served yet

VARIABLES record,   \* the revocations on record now
          past,     \* every value record has had
          served    \* the list clients can fetch

promiseVars == <<record, past, served>>

PromiseInit ==
    /\ record = {}
    /\ past = {{}}
    /\ served \in {NoCrl, {}}

\* Some certificates are revoked, or lapse.
RecordChanges ==
    /\ record' \in SUBSET Cert
    /\ past' = past \cup {record'}
    /\ UNCHANGED served

\* A list that was exact at some moment is served.
Serve ==
    /\ served' \in past
    /\ UNCHANGED <<record, past>>

PromiseNext == RecordChanges \/ Serve

PromiseSpec == PromiseInit /\ [][PromiseNext]_promiseVars
===============================================================================
