----------------------------- MODULE CrlPublishing -----------------------------
(***************************************************************************)
(* One certificate authority's published CRL: app/crl_publisher.py, the    *)
(* push of app/crl_worker.py, and the handlers of app/routes/pki.py,       *)
(* app/routes/pal.py and app/routes/cloudflare.py that revoke, issue,      *)
(* delete and publish.                                                     *)
(*                                                                         *)
(* The processes are the web server's worker threads (app/serve.py starts  *)
(* waitress with four) and the crl-renewer thread.  Every db.* call opens  *)
(* its own connection, commits and closes (db._connect), so each of them   *)
(* is one atomic step and anything may happen between two of them.         *)
(*                                                                         *)
(* The CA's Worker, if it has one, is there for the whole behaviour:       *)
(* deploying and tearing it down is another module's subject.  A list is   *)
(* the set of certificates on it; its signature, number and dates are      *)
(* abstracted to the one thing the renewer asks of them, whether half of   *)
(* its life has passed.                                                    *)
(***************************************************************************)
EXTENDS Naturals, FiniteSets

CONSTANTS Thread,          \* web server worker threads
          Renewer,         \* the crl-renewer thread
          Cert,            \* certificates the CA may issue
          Dp,              \* each certificate's distribution point mode
          NoCrl,           \* no list: crl_der (or a Worker column) is NULL
          WorkerDeployed,  \* the CA has a Cloudflare Worker
          Encrypted,       \* database encryption is on
          MaxRestarts      \* bound: process restarts in a behaviour

Mode == {"none", "placeholder", "server", "cloudflare"}

ASSUME DpAssumption == Dp \in [Cert -> Mode]
ASSUME NoCrlAssumption == \A list \in SUBSET Cert : list # NoCrl
ASSUME FlagAssumption == WorkerDeployed \in BOOLEAN /\ Encrypted \in BOOLEAN
ASSUME RestartAssumption == MaxRestarts \in Nat
ASSUME RenewerAssumption == Renewer \notin Thread

VARIABLES
    status,      \* certificates and deleted_revocations: what the database says of each
    crlPublic,   \* certificate_authorities.crl_public
    crlDer,      \* certificate_authorities.crl_der: the signed list
    due,         \* half of crlDer's life has passed
    remote,      \* the list the CA's Worker serves
    pushed,      \* certificate_authorities.cf_pushed_sha256
    pushError,   \* certificate_authorities.cf_push_error is set
    unlocked,    \* db._master_key is loaded (or encryption is off)
    pc,          \* where each process is
    todo,        \* certificates its handler has still to revoke
    mine,        \* certificates its handler has passed to db.revoke_cert
    snap,        \* the list it has read and not yet written or sent
    restarts

database == <<status, crlPublic, crlDer, due, pushed, pushError>>
locals   == <<pc, todo, mine, snap>>
vars     == <<status, crlPublic, crlDer, due, remote, pushed, pushError, unlocked,
              pc, todo, mine, snap, restarts>>

Proc   == Thread \cup {Renewer}
Status == {"absent", "live", "deleted", "revoked", "kept", "lapsed"}
List   == {NoCrl} \cup SUBSET Cert
Pc     == {"idle", "revoke", "public", "sign", "read", "write", "push", "send", "sent", "failed"}

\* Variant: every deleted certificate is kept on the list, revoked or not.
RevokedSerials_AnyDeleted == {c \in Cert : status[c] \in {"revoked", "kept", "deleted"}}

\* db.list_revoked_serials: revoked certificates, and deleted revoked ones
\* until they expire.
RevokedSerials == {c \in Cert : status[c] \in {"revoked", "kept"}}

\* db.is_crl_maintained
Maintained == crlPublic \/ WorkerDeployed

\* routes/pki.revocable: a certificate that names no CRL cannot be revoked.
Revocable(c) == Dp[c] # "none"

TypeOK ==
    /\ status \in [Cert -> Status]
    /\ crlPublic \in BOOLEAN
    /\ crlDer \in List
    /\ due \in BOOLEAN
    /\ remote \in List
    /\ pushed \in List
    /\ pushError \in BOOLEAN
    /\ unlocked \in BOOLEAN
    /\ pc \in [Proc -> Pc]
    /\ todo \in [Proc -> SUBSET Cert]
    /\ mine \in [Proc -> SUBSET Cert]
    /\ snap \in [Proc -> List]
    /\ restarts \in 0..MaxRestarts

\* A Worker was deployed with an empty list; a restored backup may lack the
\* digest of the last push (db._restore_cas, _text_or_none).
Init ==
    /\ status = [c \in Cert |-> "absent"]
    /\ crlPublic = FALSE
    /\ crlDer = IF WorkerDeployed THEN {} ELSE NoCrl
    /\ due = FALSE
    /\ remote = crlDer
    /\ pushed \in {crlDer, NoCrl}
    /\ pushError = FALSE
    /\ unlocked = ~Encrypted
    /\ pc = [p \in Proc |-> "idle"]
    /\ todo = [p \in Proc |-> {}]
    /\ mine = [p \in Proc |-> {}]
    /\ snap = [p \in Proc |-> NoCrl]
    /\ restarts = 0

Goto(p, label) == pc' = [pc EXCEPT ![p] = label]

\* The handler returns, normally or with an error.
Finish(p) ==
    /\ Goto(p, "idle")
    /\ todo' = [todo EXCEPT ![p] = {}]
    /\ mine' = [mine EXCEPT ![p] = {}]
    /\ snap' = [snap EXCEPT ![p] = NoCrl]

-------------------------------------------------------------------------------
(* Handlers, up to their call of crl_publisher.publish *)

\* issue_cert (and a Pal request's _issue): get_ca needs the CA key, so the
\* database is unlocked; the certificate is saved, and publish_after_issue
\* goes on from there.  A "cloudflare" certificate needs the Worker's address.
IssueCert(t, c) ==
    /\ pc[t] = "idle"
    /\ status[c] = "absent"
    /\ unlocked
    /\ Dp[c] = "cloudflare" => WorkerDeployed
    /\ status' = [status EXCEPT ![c] = "live"]
    /\ Goto(t, CASE Dp[c] = "server" -> "public"
                 [] Dp[c] = "cloudflare" /\ pushed = NoCrl -> "sign"
                 [] OTHER -> "idle")
    /\ UNCHANGED <<crlPublic, crlDer, due, remote, pushed, pushError, unlocked,
                   todo, mine, snap, restarts>>

\* db.set_crl_public, then publish
SetCrlPublic(t) ==
    /\ pc[t] = "public"
    /\ crlPublic' = TRUE
    /\ Goto(t, "sign")
    /\ UNCHANGED <<status, crlDer, due, remote, pushed, pushError, unlocked,
                   todo, mine, snap, restarts>>

\* The handlers that revoke have looked at the certificates to revoke.
BeginRevoking(t, S) ==
    /\ pc[t] = "idle"
    /\ \A c \in S : status[c] = "live" /\ Revocable(c)
    /\ todo' = [todo EXCEPT ![t] = S]
    /\ Goto(t, "revoke")
    /\ UNCHANGED <<database, remote, unlocked, mine, snap, restarts>>

\* revoke_cert: refused while locked if the CA's list is maintained.
RevokeOne(t, c) ==
    /\ Maintained => unlocked
    /\ BeginRevoking(t, {c})

\* revoke_own_certs: those of a PC's certificates it removed, same refusal.
RevokeOwn(t, S) ==
    /\ S # {}
    /\ Maintained => unlocked
    /\ BeginRevoking(t, S)

\* _disconnect: every live certificate of a PC, refused whenever locked.  (Those
\* _revoke_superseded revokes come right after the CA key was used to sign.)
Disconnect(t, S) ==
    /\ S # {}
    /\ unlocked
    /\ BeginRevoking(t, S)

\* Variant: publishing belongs to the loop, and its return ends the handler.
RevokeCert_PublishInLoop(t, c) ==
    /\ pc[t] = "revoke"
    /\ c \in todo[t]
    /\ status' = IF status[c] = "live" THEN [status EXCEPT ![c] = "revoked"] ELSE status
    /\ todo' = [todo EXCEPT ![t] = @ \ {c}]
    /\ mine' = [mine EXCEPT ![t] = @ \cup {c}]
    /\ Goto(t, "sign")
    /\ UNCHANGED <<crlPublic, crlDer, due, remote, pushed, pushError, unlocked, snap, restarts>>

\* One db.revoke_cert of the loop: UPDATE ... WHERE revoked = 0 changes
\* nothing if the row is gone or already revoked, and its result is ignored.
RevokeCert(t, c) ==
    /\ pc[t] = "revoke"
    /\ c \in todo[t]
    /\ status' = IF status[c] = "live" THEN [status EXCEPT ![c] = "revoked"] ELSE status
    /\ todo' = [todo EXCEPT ![t] = @ \ {c}]
    /\ mine' = [mine EXCEPT ![t] = @ \cup {c}]
    /\ Goto(t, IF todo[t] = {c} THEN "sign" ELSE "revoke")
    /\ UNCHANGED <<crlPublic, crlDer, due, remote, pushed, pushError, unlocked, snap, restarts>>

\* publish_crl_now: a PC asks for the list to be published again.
PublishNow(t) ==
    /\ pc[t] = "idle"
    /\ Maintained
    /\ Goto(t, "sign")
    /\ UNCHANGED <<database, remote, unlocked, todo, mine, snap, restarts>>

\* Publish now on the CA page: for a CA with a Worker, refused while locked.
PushNow(t) ==
    /\ WorkerDeployed /\ unlocked
    /\ PublishNow(t)

\* set_published_crl_lifetime: refused while locked, then the list is signed
\* again.  How many days it lasts only shows in when HalfLife may happen.
SetLifetime(t) ==
    /\ unlocked
    /\ PublishNow(t)

\* Variant: a list is renewed only if there is none.
RenewDue_OnlyMissing ==
    /\ pc[Renewer] = "idle"
    /\ Maintained
    /\ \/ crlDer = NoCrl /\ Goto(Renewer, "sign")
       \/ /\ crlDer # NoCrl
          /\ WorkerDeployed /\ pushError
          /\ Goto(Renewer, "push")
    /\ UNCHANGED <<database, remote, unlocked, todo, mine, snap, restarts>>

\* One CA's turn in renew_due: publish a list that is missing or past half of
\* its life, or only retry a push that failed.
RenewDue ==
    /\ pc[Renewer] = "idle"
    /\ Maintained
    /\ \/ /\ crlDer = NoCrl \/ due
          /\ Goto(Renewer, "sign")
       \/ /\ crlDer # NoCrl /\ ~due
          /\ WorkerDeployed /\ pushError
          /\ Goto(Renewer, "push")
    /\ UNCHANGED <<database, remote, unlocked, todo, mine, snap, restarts>>

\* Variant: the deletion leaves a row in no state the rest of the code knows.
DeleteCert_HalfDone(c) ==
    /\ status[c] \in {"live", "revoked"}
    /\ status' = [status EXCEPT ![c] = "revokedDeleted"]
    /\ UNCHANGED <<crlPublic, crlDer, due, remote, pushed, pushError, unlocked, locals, restarts>>

\* db.delete_cert: one transaction.  A revoked certificate stays on record.
DeleteCert(c) ==
    /\ status[c] \in {"live", "revoked"}
    /\ status' = [status EXCEPT ![c] = IF @ = "revoked" THEN "kept" ELSE "deleted"]
    /\ UNCHANGED <<crlPublic, crlDer, due, remote, pushed, pushError, unlocked, locals, restarts>>

-------------------------------------------------------------------------------
(* crl_publisher.sign *)

\* Nothing to do for a CA that is not maintained; DatabaseLocked while locked.
SignStart(p) ==
    /\ pc[p] = "sign"
    /\ IF Maintained /\ unlocked
       THEN Goto(p, "read") /\ UNCHANGED <<todo, mine, snap>>
       ELSE Finish(p)
    /\ UNCHANGED <<database, remote, unlocked, restarts>>

\* db.list_revoked_serials; generate_crl then works on that list alone.
ReadRevoked(p) ==
    /\ pc[p] = "read"
    /\ snap' = [snap EXCEPT ![p] = RevokedSerials]
    /\ Goto(p, "write")
    /\ UNCHANGED <<database, remote, unlocked, todo, mine, restarts>>

\* Variant: the new entries are added to the list there is.
PublishCrl_Merges(p) ==
    /\ pc[p] = "write"
    /\ crlDer' = snap[p] \cup (IF crlDer = NoCrl THEN {} ELSE crlDer)
    /\ due' = FALSE
    /\ Goto(p, "push")
    /\ UNCHANGED <<status, crlPublic, remote, pushed, pushError, unlocked, todo, mine, snap, restarts>>

\* db.publish_crl replaces whatever list is there.
PublishCrl(p) ==
    /\ pc[p] = "write"
    /\ crlDer' = snap[p]
    /\ due' = FALSE
    /\ Goto(p, "push")
    /\ UNCHANGED <<status, crlPublic, remote, pushed, pushError, unlocked, todo, mine, snap, restarts>>

-------------------------------------------------------------------------------
(* crl_worker.push *)

\* No Worker: done.  Locked: the credentials cannot be read, which is recorded
\* like any failed push.  Otherwise db.get_signed_crl.
PushStart(p) ==
    /\ pc[p] = "push"
    /\ \/ ~WorkerDeployed /\ Finish(p)
       \/ /\ WorkerDeployed
          /\ ~unlocked \/ crlDer = NoCrl
          /\ Goto(p, "failed") /\ UNCHANGED <<todo, mine, snap>>
       \/ /\ WorkerDeployed /\ unlocked /\ crlDer # NoCrl
          /\ snap' = [snap EXCEPT ![p] = crlDer]
          /\ Goto(p, "send") /\ UNCHANGED <<todo, mine>>
    /\ UNCHANGED <<database, remote, unlocked, restarts>>

\* cloudflare.deploy: one PUT that replaces the Worker, list and all.
SendOk(p) ==
    /\ pc[p] = "send"
    /\ remote' = snap[p]
    /\ Goto(p, "sent")
    /\ UNCHANGED <<database, unlocked, todo, mine, snap, restarts>>

\* The PUT fails, or takes effect and its answer is lost: CloudflareError.
SendFails(p) ==
    /\ pc[p] = "send"
    /\ remote' \in {remote, snap[p]}
    /\ Goto(p, "failed")
    /\ UNCHANGED <<database, unlocked, todo, mine, snap, restarts>>

\* db.update_ca_worker records the digest pushed and clears the error.
RecordPushed(p) ==
    /\ pc[p] = "sent"
    /\ pushed' = snap[p]
    /\ pushError' = FALSE
    /\ Finish(p)
    /\ UNCHANGED <<status, crlPublic, crlDer, due, remote, unlocked, restarts>>

RecordPushError(p) ==
    /\ pc[p] = "failed"
    /\ pushError' = TRUE
    /\ Finish(p)
    /\ UNCHANGED <<status, crlPublic, crlDer, due, remote, pushed, unlocked, restarts>>

-------------------------------------------------------------------------------
(* The environment *)

\* Half of the signed list's life passes.
HalfLife ==
    /\ crlDer # NoCrl /\ ~due
    /\ due' = TRUE
    /\ UNCHANGED <<status, crlPublic, crlDer, remote, pushed, pushError, unlocked, locals, restarts>>

\* A deleted revoked certificate passes its not_after: list_revoked_serials
\* leaves it out from then on.
Lapse(c) ==
    /\ status[c] = "kept"
    /\ status' = [status EXCEPT ![c] = "lapsed"]
    /\ UNCHANGED <<crlPublic, crlDer, due, remote, pushed, pushError, unlocked, locals, restarts>>

\* The process stops at any point and starts again: the database stays, the
\* threads and the loaded key do not.
Restart ==
    /\ restarts < MaxRestarts
    /\ restarts' = restarts + 1
    /\ unlocked' = ~Encrypted
    /\ pc' = [p \in Proc |-> "idle"]
    /\ todo' = [p \in Proc |-> {}]
    /\ mine' = [p \in Proc |-> {}]
    /\ snap' = [p \in Proc |-> NoCrl]
    /\ UNCHANGED <<database, remote>>

\* db.unlock
Unlock ==
    /\ ~unlocked
    /\ unlocked' = TRUE
    /\ UNCHANGED <<database, remote, locals, restarts>>

Request(t) ==
    \/ \E c \in Cert : IssueCert(t, c)
    \/ \E c \in Cert : RevokeOne(t, c)
    \/ \E S \in SUBSET Cert : RevokeOwn(t, S) \/ Disconnect(t, S)
    \/ PublishNow(t)
    \/ PushNow(t)
    \/ SetLifetime(t)

Continue(p) ==
    \/ SetCrlPublic(p)
    \/ \E c \in Cert : RevokeCert(p, c)
    \/ SignStart(p)
    \/ ReadRevoked(p)
    \/ PublishCrl(p)
    \/ PushStart(p)
    \/ SendOk(p)
    \/ SendFails(p)
    \/ RecordPushed(p)
    \/ RecordPushError(p)

Next ==
    \/ \E t \in Thread : Request(t)
    \/ \E p \in Proc : Continue(p)
    \/ RenewDue
    \/ \E c \in Cert : DeleteCert(c) \/ Lapse(c)
    \/ HalfLife
    \/ Restart
    \/ Unlock

\* Threads run on, the renewer looks every hour, time passes, and a push that
\* is tried again and again gets through once.  Nobody is obliged to ask for
\* anything, nor to unlock.
Fairness ==
    /\ \A p \in Proc : WF_vars(Continue(p)) /\ SF_vars(SendOk(p))
    /\ WF_vars(RenewDue)
    /\ WF_vars(HalfLife)

Spec == Init /\ [][Next]_vars
FairSpec == Spec /\ Fairness
-------------------------------------------------------------------------------
(* Properties *)

OnList(list) == IF list = NoCrl THEN {} ELSE list

EverRevoked == {c \in Cert : status[c] \in {"revoked", "kept", "lapsed"}}

\* Neither this server nor the Worker ever serves, nor a thread holds for
\* signing or sending, a list with a certificate nobody revoked.
NothingInvented ==
    /\ OnList(crlDer) \subseteq EverRevoked
    /\ OnList(remote) \subseteq EverRevoked
    /\ \A p \in Proc : OnList(snap[p]) \subseteq EverRevoked

\* A handler that revokes and then publishes (revoke_cert, revoke_own_certs,
\* _disconnect) writes a list with every revocation it made itself, however
\* many there are and whatever happens to the certificates meanwhile.
OwnRevocationsPublished ==
    \A p \in Proc : pc[p] = "write" =>
        /\ todo[p] = {}
        /\ mine[p] \cap RevokedSerials \subseteq OnList(snap[p])

\* What makes it inductive: a certificate a handler has passed to
\* db.revoke_cert is revoked or gone, and stays so.
OwnRevocationsInv ==
    \A p \in Proc :
        /\ pc[p] # "revoke" => todo[p] = {}
        /\ \A c \in todo[p] : status[c] # "absent"
        /\ \A c \in mine[p] : status[c] \notin {"absent", "live"}
        /\ pc[p] = "write" => mine[p] \cap RevokedSerials \subseteq OnList(snap[p])

\* Deleting never un-revokes (db.delete_cert): what is on record leaves it
\* only as a deleted certificate past its expiry.
RevocationSurvivesDeletion ==
    [][\A c \in RevokedSerials : \/ status'[c] \in {"revoked", "kept"}
                                 \/ status[c] = "kept" /\ status'[c] = "lapsed"]_status

\* A lost update, a crash before signing or a locked database only delay a
\* revocation: once the database stays unlocked, the renewer puts the
\* certificate of a CA served here on the list for good.
RevocationReachesServedList ==
    <>[]unlocked =>
        \A c \in Cert : (c \in RevokedSerials /\ crlPublic) ~>
                            [](c \in OnList(crlDer) \/ status[c] = "lapsed")

\* The same at the Worker, through failed, lost and reordered pushes.
RevocationReachesWorker ==
    <>[]unlocked =>
        \A c \in Cert : (c \in RevokedSerials /\ WorkerDeployed) ~>
                            [](c \in OnList(remote) \/ status[c] = "lapsed")
===============================================================================
