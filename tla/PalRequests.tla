------------------------------ MODULE PalRequests ------------------------------
(***************************************************************************)
(* The certificate requests of one connected PC (Cert Generator Pal), for  *)
(* one kind and one name: app/routes/pal.py, with the pal_* functions of   *)
(* app/db.py.                                                              *)
(*                                                                         *)
(* The PC asks, the admin approves, denies, changes the PC's policy,       *)
(* disconnects or deletes it; each is a handler on one of the web server's *)
(* threads, and every db.* call is a transaction of its own.  Handlers     *)
(* that make a single change are one action; the others are a chain of     *)
(* actions, and the device row they read at the start is what they go by   *)
(* to the end.                                                             *)
(*                                                                         *)
(* Publishing the CRL after a revocation is CrlPublishing's subject.  The  *)
(* signed envelope of a device request is left out: a request here is one  *)
(* that passed _signed_device.                                             *)
(***************************************************************************)
EXTENDS Naturals, FiniteSets

CONSTANTS Thread,       \* web server worker threads
          Request,      \* ids of pal_requests
          Cert,         \* certificates the CA may sign for this PC
          Revocable,    \* those that name a CRL (routes/pki.revocable)
          NoRequest,    \* a handler that works on no request
          NoCert,       \* no renew_of
          NoCertId,     \* pal_requests.cert_id is NULL
          Encrypted,    \* database encryption is on
          KeepOption    \* the admin may disconnect and keep the certificates

ASSUME RevocableAssumption == Revocable \subseteq Cert
ASSUME NoneAssumption ==
    NoRequest \notin Request /\ NoCert \notin Cert /\ NoCertId \notin Cert
ASSUME FlagAssumption == Encrypted \in BOOLEAN /\ KeepOption \in BOOLEAN

VARIABLES
    device,     \* pal_devices: connected, revoked_at set, or no row
    mode,       \* its policy's answer for this kind of certificate
    req,        \* pal_requests.status, or no row
    certId,     \* pal_requests.cert_id
    cert,       \* certificates: what the row says of each
    present,    \* certificates.pal_present: missing if 0, held if 1 or NULL
    signedFor,  \* history: the request each certificate was signed for
    unlocked,   \* db._master_key is loaded (or encryption is off)
    pc,         \* where each handler is
    at,         \* the request it works on
    asked,      \* the policy it read; it renews; it disconnects and "keeps" all
    todo,       \* certificates it has listed and not yet revoked
    hand,       \* the certificate it has issued, or those the PC removed
    deleting,   \* it deletes the PC once disconnected
    stuck,      \* history: requests whose handler a fault ended before the last step
    spared      \* history: certificates disconnecting did not reach, or kept

database == <<device, mode, req, certId, cert, present>>
locals   == <<pc, at, asked, todo, hand, deleting>>
faults   == <<stuck, spared>>
vars     == <<device, mode, req, certId, cert, present, signedFor, unlocked,
              pc, at, asked, todo, hand, deleting, faults>>

Device     == {"connected", "revoked", "deleted"}
Mode       == {"off", "approve", "auto"}
ReqStatus  == {"unused", "pending", "issuing", "issued", "denied", "forgotten"}
CertStatus == {"unissued", "live", "expired", "revoked", "deleted"}
Presence   == {"held", "missing"}
Pc         == {"idle", "live", "waiting", "insert", "claim", "load", "save", "mark", "putback",
               "supersede", "revoke", "list", "cutOff", "forget", "audit", "removed"}

TypeOK ==
    /\ device \in Device
    /\ mode \in Mode
    /\ req \in [Request -> ReqStatus]
    /\ certId \in [Request -> Cert \cup {NoCertId}]
    /\ cert \in [Cert -> CertStatus]
    /\ present \in [Cert -> Presence]
    /\ signedFor \in [Cert -> Request \cup {NoRequest}]
    /\ unlocked \in BOOLEAN
    /\ pc \in [Thread -> Pc]
    /\ at \in [Thread -> Request \cup {NoRequest}]
    /\ asked \in [Thread -> Mode \cup {"renew", "keep"}]
    /\ todo \in [Thread -> SUBSET Cert]
    /\ hand \in [Thread -> SUBSET Cert]
    /\ deleting \in [Thread -> BOOLEAN]
    /\ stuck \subseteq Request
    /\ spared \subseteq Cert

\* The PC has just paired (db.enroll_pal_device).
Init ==
    /\ device = "connected"
    /\ mode \in Mode
    /\ req = [r \in Request |-> "unused"]
    /\ certId = [r \in Request |-> NoCertId]
    /\ cert = [c \in Cert |-> "unissued"]
    /\ present = [c \in Cert |-> "held"]
    /\ signedFor = [c \in Cert |-> NoRequest]
    /\ unlocked = ~Encrypted
    /\ pc = [t \in Thread |-> "idle"]
    /\ at = [t \in Thread |-> NoRequest]
    /\ asked = [t \in Thread |-> "off"]
    /\ todo = [t \in Thread |-> {}]
    /\ hand = [t \in Thread |-> {}]
    /\ deleting = [t \in Thread |-> FALSE]
    /\ stuck = {} /\ spared = {}

\* _live_certs
Live == {c \in Cert : cert[c] = "live"}
\* Certificates of the PC that are in the table and not revoked.
Unrevoked == {c \in Cert : cert[c] \in {"live", "expired"}}

Goto(t, label) == pc' = [pc EXCEPT ![t] = label]

\* The handler returns, normally or with an error.
Finish(t) ==
    /\ Goto(t, "idle")
    /\ at' = [at EXCEPT ![t] = NoRequest]
    /\ asked' = [asked EXCEPT ![t] = "off"]
    /\ todo' = [todo EXCEPT ![t] = {}]
    /\ hand' = [hand EXCEPT ![t] = {}]
    /\ deleting' = [deleting EXCEPT ![t] = FALSE]

\* The handler goes on at label, its notes unchanged.
Proceed(t, label) ==
    /\ Goto(t, label)
    /\ UNCHANGED <<at, asked, todo, hand, deleting>>

-------------------------------------------------------------------------------
(* create_request *)

\* The device row is read, and with it the policy.  A renewal names an
\* unrevoked certificate of the PC for the same names (_renewable); whether its
\* window is open is left to when the PC asks.
Ask(t, r, old) ==
    /\ pc[t] = "idle"
    /\ req[r] = "unused" /\ \A u \in Thread : at[u] # r
    /\ device = "connected"
    /\ mode # "off"
    /\ old \in Unrevoked \cup {NoCert}
    /\ at' = [at EXCEPT ![t] = r]
    /\ asked' = [asked EXCEPT ![t] = IF old = NoCert THEN mode ELSE "renew"]
    /\ hand' = [hand EXCEPT ![t] = {old} \ {NoCert}]
    /\ Goto(t, "live")
    /\ UNCHANGED <<database, signedFor, unlocked, todo, deleting, faults>>

\* _duplicate_refusal, live certificates: only a copy not known to be missing
\* refuses a new request; a renewal is refused for another one that ends
\* later, and which ends later is left open.
CheckLive(t) ==
    /\ pc[t] = "live"
    /\ \/ /\ asked[t] # "renew"
          /\ IF \E c \in Live : present[c] # "missing"
             THEN Finish(t)
             ELSE Proceed(t, "waiting")
       \/ /\ asked[t] = "renew"
          /\ \/ Proceed(t, "insert")
             \/ Live \ hand[t] # {} /\ Finish(t)
    /\ UNCHANGED <<database, signedFor, unlocked, faults>>

\* _duplicate_refusal, requests waiting for approval.
CheckWaiting(t) ==
    /\ pc[t] = "waiting"
    /\ IF \E r \in Request : req[r] = "pending"
       THEN Finish(t)
       ELSE Proceed(t, "insert")
    /\ UNCHANGED <<database, signedFor, unlocked, faults>>

\* db.create_pal_request (its foreign key fails once the PC is deleted), and
\* on to _issue unless the admin is to approve.
Insert(t) ==
    /\ pc[t] = "insert"
    /\ req' = IF device = "deleted" THEN req ELSE [req EXCEPT ![at[t]] = "pending"]
    /\ IF device = "deleted" \/ asked[t] = "approve"
       THEN Finish(t)
       ELSE /\ Goto(t, "claim")
            /\ asked' = [asked EXCEPT ![t] = "off"]
            /\ hand' = [hand EXCEPT ![t] = {}]
            /\ UNCHANGED <<at, todo, deleting>>
    /\ UNCHANGED <<device, mode, certId, cert, present, signedFor, unlocked, faults>>

-------------------------------------------------------------------------------
(* approve_request and deny_request *)

Approve(t, r) ==
    /\ pc[t] = "idle"
    /\ req[r] = "pending"
    /\ device = "connected"
    /\ at' = [at EXCEPT ![t] = r]
    /\ Goto(t, "claim")
    /\ UNCHANGED <<database, signedFor, unlocked, asked, todo, hand, deleting, faults>>

Deny(r) ==
    /\ req[r] = "pending"
    /\ req' = [req EXCEPT ![r] = "denied"]
    /\ UNCHANGED <<device, mode, certId, cert, present, signedFor, unlocked, locals, faults>>

-------------------------------------------------------------------------------
(* _issue *)

\* Variant: the request is not claimed, it is only read.
Claim_ReadsOnly(t) ==
    /\ pc[t] = "claim"
    /\ IF req[at[t]] \in {"pending", "issuing"}
       THEN req' = [req EXCEPT ![at[t]] = "issuing"] /\ Proceed(t, "load")
       ELSE UNCHANGED req /\ Finish(t)
    /\ UNCHANGED <<device, mode, certId, cert, present, signedFor, unlocked, faults>>

\* transition_pal_request, pending to issuing: only one handler gets it.
Claim(t) ==
    /\ pc[t] = "claim"
    /\ IF req[at[t]] = "pending"
       THEN req' = [req EXCEPT ![at[t]] = "issuing"] /\ Proceed(t, "load")
       ELSE UNCHANGED req /\ Finish(t)
    /\ UNCHANGED <<device, mode, certId, cert, present, signedFor, unlocked, faults>>

\* The request row and the CA key are read and the certificate is made.  The
\* row may be gone, the database locked, or the CA unable to sign.
Load(t) ==
    /\ pc[t] = "load"
    /\ \/ req[at[t]] # "forgotten" /\ unlocked /\ Proceed(t, "save")
       \/ Proceed(t, "putback")
    /\ UNCHANGED <<database, signedFor, unlocked, faults>>

\* A handler has listed what it will revoke and not cut the PC off yet.
Listed(u) == pc[u] = "cutOff" /\ asked[u] # "keep"

\* db.save_cert, whatever has become of the PC.
Save(t, c) ==
    /\ pc[t] = "save"
    /\ cert[c] = "unissued"
    /\ cert' = [cert EXCEPT ![c] = "live"]
    /\ signedFor' = [signedFor EXCEPT ![c] = at[t]]
    /\ hand' = [hand EXCEPT ![t] = {c}]
    /\ spared' = IF device # "connected" \/ \E u \in Thread : Listed(u)
                 THEN spared \cup ({c} \cap Revocable) ELSE spared
    /\ Goto(t, "mark")
    /\ UNCHANGED <<device, mode, req, certId, present, unlocked, at, asked, todo, deleting,
                   stuck>>

\* db.save_cert fails (a full disk, say).
SaveFails(t) ==
    /\ pc[t] = "save"
    /\ Proceed(t, "putback")
    /\ UNCHANGED <<database, signedFor, unlocked, faults>>

\* Variant: a failed request stays claimed.
PutBack_Forgotten(t) ==
    /\ pc[t] = "putback"
    /\ Finish(t)
    /\ UNCHANGED <<database, signedFor, unlocked, faults>>

\* Variant: a failed request gets a status of its own.
PutBack_Failed(t) ==
    /\ pc[t] = "putback"
    /\ req' = [req EXCEPT ![at[t]] = IF @ = "issuing" THEN "failed" ELSE @]
    /\ Finish(t)
    /\ UNCHANGED <<device, mode, certId, cert, present, signedFor, unlocked, faults>>

\* transition_pal_request, issuing back to pending.
PutBack(t) ==
    /\ pc[t] = "putback"
    /\ req' = [req EXCEPT ![at[t]] = IF @ = "issuing" THEN "pending" ELSE @]
    /\ Finish(t)
    /\ UNCHANGED <<device, mode, certId, cert, present, signedFor, unlocked, faults>>

\* transition_pal_request, issuing to issued with the certificate's id.
MarkIssued(t) ==
    /\ pc[t] = "mark"
    /\ IF req[at[t]] = "issuing"
       THEN /\ req' = [req EXCEPT ![at[t]] = "issued"]
            /\ \E c \in hand[t] : certId' = [certId EXCEPT ![at[t]] = c]
       ELSE UNCHANGED <<req, certId>>
    /\ Proceed(t, "supersede")
    /\ UNCHANGED <<device, mode, cert, present, signedFor, unlocked, faults>>

\* _revoke_superseded lists the copies the PC no longer holds.
Supersede(t) ==
    /\ pc[t] = "supersede"
    /\ LET gone == {c \in Live \cap Revocable : present[c] = "missing"} \ hand[t]
       IN IF gone = {}
          THEN Finish(t)
          ELSE /\ todo' = [todo EXCEPT ![t] = gone]
               /\ hand' = [hand EXCEPT ![t] = {}]
               /\ Goto(t, "revoke")
               /\ UNCHANGED <<at, asked, deleting>>
    /\ UNCHANGED <<database, signedFor, unlocked, faults>>

-------------------------------------------------------------------------------
(* Disconnecting, deleting and removing *)

\* One db.revoke_cert of a loop; then the handler goes on or returns.
RevokeCert(t, c) ==
    /\ pc[t] = "revoke"
    /\ c \in todo[t]
    /\ cert' = [cert EXCEPT ![c] = IF c \in Unrevoked THEN "revoked" ELSE @]
    /\ IF todo[t] # {c}
       THEN /\ todo' = [todo EXCEPT ![t] = @ \ {c}]
            /\ UNCHANGED <<pc, at, asked, hand, deleting>>
       ELSE IF deleting[t] \/ hand[t] # {}
       THEN /\ todo' = [todo EXCEPT ![t] = {}]
            /\ Goto(t, IF deleting[t] THEN "forget" ELSE "removed")
            /\ UNCHANGED <<at, asked, hand, deleting>>
       ELSE Finish(t)
    /\ UNCHANGED <<device, mode, req, certId, present, signedFor, unlocked, faults>>

\* revoke_device and delete_device read the device row; _disconnect lists the
\* certificates unless the admin keeps them.
Disconnect(t, keep, del) ==
    /\ pc[t] = "idle"
    /\ device = "connected"
    /\ keep => KeepOption /\ ~del
    /\ deleting' = [deleting EXCEPT ![t] = del]
    /\ asked' = [asked EXCEPT ![t] = IF keep THEN "keep" ELSE @]
    /\ Goto(t, IF keep THEN "cutOff" ELSE "list")
    /\ UNCHANGED <<database, signedFor, unlocked, at, todo, hand, faults>>

\* Variant: expired and missing copies are not worth revoking.
ListCerts_SkipsMissing(t) ==
    /\ pc[t] = "list"
    /\ LET listed == {c \in Live \cap Revocable : present[c] # "missing"}
       IN IF listed # {} /\ ~unlocked
          THEN Finish(t)
          ELSE /\ todo' = [todo EXCEPT ![t] = listed]
               /\ Goto(t, "cutOff")
               /\ UNCHANGED <<at, asked, hand, deleting>>
    /\ UNCHANGED <<database, signedFor, unlocked, faults>>

\* The listing of _disconnect: while the database is locked, nothing is
\* changed if there are any to revoke.
ListCerts(t) ==
    /\ pc[t] = "list"
    /\ LET listed == Unrevoked \cap Revocable
       IN IF listed # {} /\ ~unlocked
          THEN Finish(t)
          ELSE /\ todo' = [todo EXCEPT ![t] = listed]
               /\ Goto(t, "cutOff")
               /\ UNCHANGED <<at, asked, hand, deleting>>
    /\ UNCHANGED <<database, signedFor, unlocked, faults>>

\* Variant: requests that are being issued are denied as well.
CutOff_DeniesIssuing(t) ==
    /\ pc[t] = "cutOff"
    /\ IF device = "connected"
       THEN /\ device' = "revoked"
            /\ req' = [r \in Request |-> IF req[r] \in {"pending", "issuing"} THEN "denied" ELSE req[r]]
       ELSE UNCHANGED <<device, req>>
    /\ spared' = IF device = "connected" /\ asked[t] = "keep"
                 THEN spared \cup (Unrevoked \cap Revocable)
                 ELSE spared
    /\ IF todo[t] # {} THEN Proceed(t, "revoke")
       ELSE IF deleting[t] THEN Proceed(t, "forget")
       ELSE Finish(t)
    /\ UNCHANGED <<mode, certId, cert, present, signedFor, unlocked, stuck>>

\* db.revoke_pal_device: one transaction, which denies what is pending.
CutOff(t) ==
    /\ pc[t] = "cutOff"
    /\ IF device = "connected"
       THEN /\ device' = "revoked"
            /\ req' = [r \in Request |-> IF req[r] = "pending" THEN "denied" ELSE req[r]]
       ELSE UNCHANGED <<device, req>>
    /\ spared' = IF device = "connected" /\ asked[t] = "keep"
                 THEN spared \cup (Unrevoked \cap Revocable)
                 ELSE spared
    /\ IF todo[t] # {} THEN Proceed(t, "revoke")
       ELSE IF deleting[t] THEN Proceed(t, "forget")
       ELSE Finish(t)
    /\ UNCHANGED <<mode, certId, cert, present, signedFor, unlocked, stuck>>

\* delete_device finds the PC disconnected already.
DeleteRevoked(t) ==
    /\ pc[t] = "idle"
    /\ device = "revoked"
    /\ Proceed(t, "forget")
    /\ UNCHANGED <<database, signedFor, unlocked, faults>>

\* db.delete_pal_device: the PC's requests go, its certificates stay.
Forget(t) ==
    /\ pc[t] = "forget"
    /\ IF device = "revoked"
       THEN /\ device' = "deleted"
            /\ req' = [r \in Request |-> IF req[r] = "unused" THEN "unused" ELSE "forgotten"]
       ELSE UNCHANGED <<device, req>>
    /\ Finish(t)
    /\ UNCHANGED <<mode, certId, cert, present, signedFor, unlocked, faults>>

\* revoke_own_certs: certificates the PC removed.  It needs an unlocked
\* database only for a published CRL; either may be the case.
RemoveOwn(t, S) ==
    /\ pc[t] = "idle"
    /\ device = "connected"
    /\ S # {} /\ S \subseteq Unrevoked
    /\ todo' = [todo EXCEPT ![t] = S \cap Revocable]
    /\ hand' = [hand EXCEPT ![t] = S]
    /\ Goto(t, IF S \cap Revocable = {} THEN "removed" ELSE "revoke")
    /\ UNCHANGED <<database, signedFor, unlocked, at, asked, deleting, faults>>

\* db.mark_pal_removed
MarkRemoved(t) ==
    /\ pc[t] = "removed"
    /\ present' = [c \in Cert |-> IF c \in hand[t] THEN "missing" ELSE present[c]]
    /\ Finish(t)
    /\ UNCHANGED <<device, mode, req, certId, cert, signedFor, unlocked, faults>>

-------------------------------------------------------------------------------
(* cert_status, policy, and what else happens to certificates *)

StartAudit(t) ==
    /\ pc[t] = "idle"
    /\ device = "connected"
    /\ Proceed(t, "audit")
    /\ UNCHANGED <<database, signedFor, unlocked, faults>>

\* db.mark_pal_presence: the PC can hold what it could collect, the
\* certificates of its issued requests (a certificate kept in one account's
\* store and reported by another is left as it is).
Audit(t, S) ==
    /\ pc[t] = "audit"
    /\ \A c \in S : \E r \in Request : certId[r] = c
    /\ \E reported \in {{c \in Cert : cert[c] # "unissued"}, S} :
           present' = [c \in Cert |-> IF c \notin reported THEN present[c]
                                      ELSE IF c \in S THEN "held" ELSE "missing"]
    /\ Finish(t)
    /\ UNCHANGED <<device, mode, req, certId, cert, signedFor, unlocked, faults>>

\* edit_device_policy
EditPolicy(m) ==
    /\ device = "connected"
    /\ m # mode
    /\ mode' = m
    /\ UNCHANGED <<device, req, certId, cert, present, signedFor, unlocked, locals, faults>>

\* The admin revokes one (routes/pki.revoke_cert).
AdminRevokes(c) ==
    /\ c \in Unrevoked \cap Revocable
    /\ cert' = [cert EXCEPT ![c] = "revoked"]
    /\ UNCHANGED <<device, mode, req, certId, present, signedFor, unlocked, locals, faults>>

\* The admin deletes one (db.delete_cert), or it expires.
Leaves(c) ==
    /\ \/ cert[c] = "live" /\ cert' = [cert EXCEPT ![c] = "expired"]
       \/ cert[c] \in {"live", "expired", "revoked"} /\ cert' = [cert EXCEPT ![c] = "deleted"]
    /\ UNCHANGED <<device, mode, req, certId, present, signedFor, unlocked, locals, faults>>

\* Where a handler that holds a request is, and what a fault that ends the
\* handlers of T leaves as it is: their requests, and what they had not revoked
\* yet of a PC that is cut off.
Holding == {"load", "save", "putback", "mark"}

Abandon(T) ==
    /\ stuck' = stuck \cup {at[t] : t \in {u \in T : pc[u] \in Holding}}
    /\ spared' = IF device = "connected" THEN spared
                 ELSE spared \cup UNION {todo[t] : t \in {u \in T : pc[u] = "revoke"}}

\* A transaction of a handler fails, and the handler with it: what _issue does
\* in its try is Load and SaveFails, but putting a request back may fail as
\* well (on the disk that was full for save_cert), and so may marking it.
Fails(t) ==
    /\ pc[t] \notin {"idle", "load", "save"}
    /\ Abandon({t})
    /\ Finish(t)
    /\ UNCHANGED <<database, signedFor, unlocked>>

\* The process stops at any point and starts again.
Restart ==
    /\ Abandon(Thread)
    /\ unlocked' = ~Encrypted
    /\ pc' = [t \in Thread |-> "idle"]
    /\ at' = [t \in Thread |-> NoRequest]
    /\ asked' = [t \in Thread |-> "off"]
    /\ todo' = [t \in Thread |-> {}]
    /\ hand' = [t \in Thread |-> {}]
    /\ deleting' = [t \in Thread |-> FALSE]
    /\ UNCHANGED <<database, signedFor>>

Unlock ==
    /\ ~unlocked
    /\ unlocked' = TRUE
    /\ UNCHANGED <<database, signedFor, locals, faults>>

Handle(t) ==
    \/ \E r \in Request : Approve(t, r) \/ \E old \in Cert \cup {NoCert} : Ask(t, r, old)
    \/ \E keep, del \in BOOLEAN : Disconnect(t, keep, del)
    \/ DeleteRevoked(t)
    \/ \E S \in SUBSET Cert : RemoveOwn(t, S)
    \/ StartAudit(t)

Continue(t) ==
    \/ CheckLive(t)
    \/ CheckWaiting(t)
    \/ Insert(t)
    \/ Claim(t)
    \/ Load(t)
    \/ \E c \in Cert : Save(t, c) \/ RevokeCert(t, c)
    \/ SaveFails(t)
    \/ PutBack(t)
    \/ MarkIssued(t)
    \/ Supersede(t)
    \/ ListCerts(t)
    \/ CutOff(t)
    \/ Forget(t)
    \/ MarkRemoved(t)
    \/ \E S \in SUBSET Cert : Audit(t, S)

Next ==
    \/ \E t \in Thread : Handle(t) \/ Continue(t) \/ Fails(t)
    \/ \E r \in Request : Deny(r)
    \/ \E m \in Mode : EditPolicy(m)
    \/ \E c \in Cert : AdminRevokes(c) \/ Leaves(c)
    \/ Restart
    \/ Unlock

Spec == Init /\ [][Next]_vars
-------------------------------------------------------------------------------
(* Properties *)

Given(r) == {c \in Cert : signedFor[c] = r}

\* transition_pal_request: two approvals of the same request can't both sign a
\* certificate, nor can a retry after a failed attempt or a crash.
SignedOnce == \A r \in Request : \A c, d \in Given(r) : c = d

\* A denied or waiting request has no certificate anywhere, and an issued one
\* names the certificate signed for it, whoever raced for it: the row never
\* tells the PC or the admin something else than what happened.
RowsTellTheTruth ==
    \A r \in Request :
        /\ req[r] \in {"unused", "pending", "denied"} => Given(r) = {}
        /\ req[r] = "issued" => certId[r] \in Given(r)

\* What makes these inductive.  A handler that is still asking has the request
\* id to itself; one that has claimed a request holds it alone, and until it
\* saves a certificate there is none; a certificate not in the table was never
\* signed.
Asking  == {"live", "waiting", "insert"}
AskingInv ==
    \A t \in Thread : pc[t] \in Asking =>
        /\ at[t] \in Request /\ req[at[t]] = "unused"
        /\ \A u \in Thread \ {t} : at[u] # at[t]

HoldingInv ==
    \A t \in Thread : pc[t] \in Holding =>
        /\ at[t] \in Request /\ req[at[t]] \in {"issuing", "forgotten"}
        /\ \A u \in Thread \ {t} : pc[u] \in Holding => at[u] # at[t]
        /\ pc[t] # "mark" => Given(at[t]) = {}
        /\ pc[t] = "mark" => hand[t] # {} /\ hand[t] \subseteq Given(at[t])

RequestsInv ==
    /\ AskingInv
    /\ HoldingInv
    /\ \A t \in Thread : pc[t] = "claim" => at[t] \in Request
    /\ \A c \in Cert : cert[c] = "unissued" => signedFor[c] = NoRequest
    /\ SignedOnce
    /\ RowsTellTheTruth

\* Some handler is about to save a certificate for r.
Signing(r) == \E t \in Thread : pc[t] = "save" /\ at[t] = r

AnswerTo(r) ==
    CASE Given(r) # {}                         -> "signed"
      [] Given(r) = {} /\ Signing(r)           -> "waiting"
      [] Given(r) = {} /\ ~Signing(r)          ->
            CASE req[r] = "unused"                -> "none"
              [] req[r] \in {"pending", "issuing", "issued"} -> "waiting"
              [] req[r] = "denied"                -> "refused"
              [] req[r] = "forgotten"             -> "dropped"

Promise == INSTANCE PalPromise WITH
    answer <- [r \in Request |-> AnswerTo(r)],
    given  <- [r \in Request |-> Given(r)]

\* The handlers, in any interleaving and through crashes, answer each request
\* once: the abstract PalPromise.
RequestsKeepPromise == Promise!PromiseSpec

\* Whoever claims a request for issuing lets go of it, signed or back to pending,
\* whatever else happens to the PC, the request and the database meanwhile: one
\* that is being issued has a handler at it.  The docstring of _issue says that
\* "any failure puts it back to pending"; it does not if the process stops, or if
\* what fails is the write after the signing or the putting back itself.
ClaimsAreHeld ==
    \A r \in Request : req[r] = "issuing" =>
        r \in stuck \/ \E t \in Thread : pc[t] \in Holding /\ at[t] = r

Quiet == \A t \in Thread : pc[t] = "idle"

\* README, "Disconnecting a PC revokes its certificates": once the handlers are
\* done, a PC that is disconnected has no revocable certificate left, however
\* approvals, audits and other disconnects overlap with it.  There are
\* left what the admin kept, what _issue saved after the listing, and what a
\* fault in the loop did not come to.
DisconnectRevokes ==
    Quiet /\ device # "connected" => Unrevoked \cap Revocable \subseteq spared
===============================================================================
