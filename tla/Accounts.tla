------------------------------- MODULE Accounts -------------------------------
(***************************************************************************)
(* Sign-in in server mode: app/routes/auth.py, app/routes/account.py, the  *)
(* session check of app/server.py and app/web.py, the account's row and    *)
(* its trusted devices in app/db.py, and the part of a restore that        *)
(* replaces them.                                                          *)
(*                                                                         *)
(* Sessions live in signed cookies, so the server cannot take one back:    *)
(* each carries the session_version of the row it was made from, and a     *)
(* session counts while the row still has that version.  A client is one   *)
(* stream of requests, a browser or one of its tabs.  A request reads the  *)
(* row once, at the session check, and goes on with that copy; every other *)
(* call into db.py is a transaction of its own and an action here.         *)
(*                                                                         *)
(* Time is counted in the 30-second steps of one-time codes.  A one-time   *)
(* code is the pair of the secret and the step it was made for.  Wrong     *)
(* passwords change nothing here.                                          *)
(***************************************************************************)
EXTENDS Naturals, FiniteSets

CONSTANTS Client,
          Password,
          Secret,       \* TOTP secrets (pyotp.random_base32)
          Device,       \* trust tokens (secrets.token_urlsafe)
          None,
          KeyKept,      \* SECRET_KEY is set, so cookies survive a restart
          MaxStep,      \* bound: the last time step
          MaxChanges    \* bound: changes of credentials, revocations, restores, restarts

ASSUME NoneAssumption == None \notin Password \cup Secret \cup Device
ASSUME BoundAssumption == MaxStep \in Nat /\ MaxChanges \in Nat

VARIABLES
    user,       \* the account's row, or NoUser before the first sign-in
    devices,    \* the tokens in trusted_devices
    cookie,     \* each client's session cookie
    trust,      \* each client's _trust_token cookie
    backup,     \* the account in the backup file, or None
    now,        \* the current time step
    pc, req,    \* where each client's request is, and what it has in hand
    changes,
    \* What follows is for the properties only; no code reads it.
    spent,      \* the one-time codes accepted so far
    twice,      \* a code was accepted twice
    lowered,    \* a write took totp_last_step below a code that was accepted
    replaced,   \* a restore replaced the row
    cut,        \* the process stopped within a change of credentials
    made,       \* the credentials each trusted device was made under
    strays      \* the devices made by a sign-in that overlapped a revocation

row    == <<user, devices>>
ghosts == <<spent, twice, lowered, replaced, cut, made, strays>>
vars   == <<user, devices, cookie, trust, backup, now, pc, req, changes, ghosts>>

NoUser == [password |-> None, secret |-> None, lastStep |-> 0, version |-> 0, ask |-> FALSE]
Exists == user # NoUser

\* What a person needs to sign in.
Cred(u) == <<u.password, u.secret>>
Creds   == (Password \cup {None}) \X (Secret \cup {None})

\* cred and ended are for the properties: the credentials the session was
\* signed in (or kept) under, and whether a revocation has ended it.
NoSession == [kind |-> "none", version |-> 0, fresh |-> FALSE, setup |-> None,
              cred |-> <<None, None>>, ended |-> FALSE]
Sessions  == [kind : {"none", "pending", "user"}, version : Nat, fresh : BOOLEAN,
              setup : Secret \cup {None}, cred : Creds, ended : BOOLEAN]
Rows      == [password : Password \cup {None}, secret : Secret \cup {None},
              lastStep : Nat, version : Nat, ask : BOOLEAN]

\* A request in hand: the session as the handler has changed it, the row it
\* read, the password or code it was sent, what the code is for, whether the
\* device is to be trusted, and whether devices were revoked meanwhile.
NoRequest == [sess |-> NoSession, row |-> NoUser, password |-> None,
              secret |-> None, step |-> 0, purpose |-> "none", trust |-> FALSE, late |-> FALSE]
Requests  == [sess : Sessions, row : Rows, password : Password \cup {None},
              secret : Secret \cup {None}, step : Nat,
              purpose : {"none", "mfa", "reauth", "disable"}, trust : BOOLEAN, late : BOOLEAN]

Pc == {"idle", "create", "greet", "code", "claim", "insert", "auto", "authed",
       "turnOff", "forget", "bump", "restored"}

TypeOK ==
    /\ user \in Rows
    /\ devices \subseteq Device
    /\ cookie \in [Client -> Sessions]
    /\ trust \in [Client -> Device \cup {None}]
    /\ backup \in [password : Password, secret : Secret \cup {None}, ask : BOOLEAN] \cup {None}
    /\ now \in Nat \ {0}
    /\ pc \in [Client -> Pc]
    /\ req \in [Client -> Requests]
    /\ changes \in Nat
    /\ spent \subseteq Secret \X Nat
    /\ twice \in BOOLEAN /\ lowered \in BOOLEAN /\ replaced \in BOOLEAN /\ cut \in BOOLEAN
    /\ made \in [Device -> Creds]
    /\ strays \subseteq Device

Init ==
    /\ user = NoUser
    /\ devices = {}
    /\ cookie = [c \in Client |-> NoSession]
    /\ trust = [c \in Client |-> None]
    /\ backup = None
    /\ now = 1
    /\ pc = [c \in Client |-> "idle"]
    /\ req = [c \in Client |-> NoRequest]
    /\ changes = 0
    /\ spent = {}
    /\ twice = FALSE /\ lowered = FALSE /\ replaced = FALSE /\ cut = FALSE
    /\ made = [d \in Device |-> <<None, None>>]
    /\ strays = {}

-----------------------------------------------------------------------------
(* Pieces the handlers share.                                              *)

\* Mutated: the session carries no version.
SessionNoVersion(u, fresh) == [NoSession EXCEPT !.kind = "user", !.version = None]

\* start_session: everything the cookie held before is gone.
Session(u, fresh) == [NoSession EXCEPT !.kind = "user", !.version = u.version,
                                       !.fresh = fresh, !.cred = Cred(u)]

\* Mutated: any version will do.
ValidAnyVersion(s) == s.kind = "user" /\ Exists

\* _session_user: the cookie's version is the row's.
Valid(s) == s.kind = "user" /\ Exists /\ s.version = user.version

\* Mutated: the version stays.
NewVersionKept == user.version

\* session_version + 1
NewVersion == user.version + 1

\* verify_totp: one step of drift either side, and nothing up to last_step.
VerifyTotp(secret, code, step, lastStep) ==
    /\ secret = code
    /\ step \in {now - 1, now, now + 1}
    /\ step > lastStep

\* What db.py does with the row and the devices, each in one transaction.
\* get_totp_secret: as it is now, not as it was when the row was read.
TotpSecret == user.secret

\* verify_trusted_device: a token of the table, of a user who need not be asked.
Trusted(d) == d \in devices /\ ~user.ask

CreateTrustedDevice(d) == devices' = devices \cup {d}
DeleteTrustedDevice(d) == devices' = devices \ {d}
DeleteTrustedDeviceByToken(token) == devices' = devices \ {token}

\* reset_user_password
ResetUserPassword(p) ==
    /\ user' = [user EXCEPT !.password = p, !.version = NewVersion]
    /\ devices' = {}

UpdateUserRequirePassword(ask) == user' = [user EXCEPT !.ask = ask]

Go(c, place) == pc' = [pc EXCEPT ![c] = place]

\* The answer takes the session back to the client.
Respond(c, s) ==
    /\ cookie' = [cookie EXCEPT ![c] = s]
    /\ req' = [req EXCEPT ![c] = NoRequest]
    /\ Go(c, "idle")

Refuse(c) ==
    /\ req' = [req EXCEPT ![c] = NoRequest]
    /\ Go(c, "idle")
    /\ UNCHANGED cookie

\* For the properties: does a write of the secret and last_step take the counter
\* below a code that was accepted, and that will still be taken or has already
\* passed the check of another request?
Lowered(secret, lastStep) ==
    lowered' = (lowered \/ \E x \in spent :
                    /\ x[2] > lastStep
                    /\ \/ x[1] = secret
                       \/ \E c \in Client : pc[c] = "claim" /\ req[c].secret = x[1])

SetTotp(secret, lastStep) ==
    /\ user' = [user EXCEPT !.secret = secret, !.lastStep = lastStep]
    /\ Lowered(secret, lastStep)

\* For the properties: a revocation by client c ends every other session.
End(s) == IF s.kind = "user" THEN [s EXCEPT !.ended = TRUE] ELSE s
EndOthers(c, mine) ==
    /\ cookie' = [d \in Client |-> IF d = c THEN mine ELSE End(cookie[d])]
    /\ req' = [d \in Client |-> IF d = c THEN NoRequest
                                ELSE [req[d] EXCEPT !.sess = End(@)]]

\* For the properties: the devices are forgotten while these sign-ins, which
\* will add theirs, are under way.
Overlap(c, q) == [d \in Client |-> IF d = c THEN q
                                   ELSE [req[d] EXCEPT !.late = @ \/ req[d].trust]]

\* Bound: a client asks to be trusted only while there is a token left for it.
Spare == Cardinality({c \in Client : req[c].trust}) < Cardinality({d \in Device : made[d] = <<None, None>>})

Count == changes < MaxChanges /\ changes' = changes + 1

-----------------------------------------------------------------------------
(* First-run setup.                                                        *)

SendSetup(c, p) ==
    /\ pc[c] = "idle"
    /\ ~Exists                              \* has_users
    /\ req' = [req EXCEPT ![c].password = p]
    /\ Go(c, "create")
    /\ UNCHANGED <<row, cookie, trust, backup, now, changes, ghosts>>

\* One INSERT ... WHERE NOT EXISTS: the second of two forms goes to /login.
CreateFirstUser(c) ==
    /\ pc[c] = "create"
    /\ IF Exists
       THEN Refuse(c) /\ UNCHANGED user
       ELSE /\ user' = [NoUser EXCEPT !.password = req[c].password]
            /\ Go(c, "greet")
            /\ UNCHANGED <<cookie, req>>
    /\ UNCHANGED <<devices, trust, backup, now, changes, ghosts>>

Greet(c) ==
    /\ pc[c] = "greet"
    /\ Respond(c, Session(user, TRUE))
    /\ UNCHANGED <<row, trust, backup, now, changes, ghosts>>

-----------------------------------------------------------------------------
(* Signing in.                                                             *)

\* verify_user and get_user: only a restore changes a password while requests
\* run, so the row read is the one checked.  With MFA on, the session only says
\* that the password was right.
Login(c, trusting) ==
    /\ pc[c] = "idle"
    /\ Exists
    /\ trusting => Spare
    /\ IF user.secret # None
       THEN Respond(c, [NoSession EXCEPT !.kind = "pending"])
       ELSE IF trusting
       THEN /\ req' = [req EXCEPT ![c].sess = Session(user, TRUE), ![c].trust = TRUE]
            /\ Go(c, "insert")
            /\ UNCHANGED cookie
       ELSE Respond(c, Session(user, TRUE))
    /\ UNCHANGED <<row, trust, backup, now, changes, ghosts>>

\* The second form; MFA may have been switched off since the first.
SendCode(c, s, step, trusting) ==
    /\ pc[c] = "idle"
    /\ cookie[c].kind = "pending"
    /\ trusting => Spare
    /\ IF user.secret = None
       THEN Respond(c, NoSession)
       ELSE /\ req' = [req EXCEPT ![c].row = user, ![c].secret = s, ![c].step = step,
                                  ![c].purpose = "mfa", ![c].trust = trusting]
            /\ Go(c, "code")
            /\ UNCHANGED cookie
    /\ UNCHANGED <<row, trust, backup, now, changes, ghosts>>

\* get_totp_secret and verify_totp: the secret is read now, last_step is the
\* one read with the row.
CheckCode(c) ==
    /\ pc[c] = "code"
    /\ IF VerifyTotp(TotpSecret, req[c].secret, req[c].step, req[c].row.lastStep)
       THEN Go(c, "claim") /\ UNCHANGED <<cookie, req>>
       ELSE Refuse(c)
    /\ UNCHANGED <<row, trust, backup, now, changes, ghosts>>

\* The code passed: finish the sign-in, the re-entry or the switching off.
Accept(c) ==
    IF req[c].purpose = "disable"
    THEN Go(c, "turnOff") /\ UNCHANGED <<cookie, req>>
    ELSE IF req[c].purpose = "reauth"
    THEN Respond(c, [req[c].sess EXCEPT !.fresh = TRUE])
    ELSE IF req[c].trust
    THEN /\ req' = [req EXCEPT ![c].sess = Session(req[c].row, TRUE)]
         /\ Go(c, "insert")
         /\ UNCHANGED cookie
    ELSE Respond(c, Session(req[c].row, TRUE))

\* Mutated: the row takes any step.
ClaimAlways(c) == TRUE

\* claim_totp_step: the row takes the step only if no later one was used; this
\* decides between two requests with the same code.
Claimable(c) == user.lastStep < req[c].step

ClaimTotpStep(c) ==
    /\ pc[c] = "claim"
    /\ IF Claimable(c)
       THEN /\ user' = [user EXCEPT !.lastStep = req[c].step]
            /\ spent' = spent \cup {<<req[c].secret, req[c].step>>}
            /\ twice' = (twice \/ <<req[c].secret, req[c].step>> \in spent)
            /\ Accept(c)
       ELSE Refuse(c) /\ UNCHANGED <<user, spent, twice>>
    /\ UNCHANGED <<devices, trust, backup, now, changes,
                   lowered, replaced, cut, made, strays>>

\* _create_trust_cookie
InsertDevice(c, d) ==
    /\ pc[c] = "insert"
    /\ made[d] = <<None, None>>             \* a fresh token
    /\ CreateTrustedDevice(d)
    /\ trust' = [trust EXCEPT ![c] = d]
    /\ made' = [made EXCEPT ![d] = req[c].sess.cred]
    /\ strays' = IF req[c].late THEN strays \cup {d} ELSE strays
    /\ Respond(c, req[c].sess)
    /\ UNCHANGED <<user, backup, now, changes, spent, twice, lowered, replaced, cut>>

-----------------------------------------------------------------------------
(* The session check before every page that needs a sign-in.               *)

\* A valid session goes on with the row just read.  A dead one is cleared, and
\* a trusted device may start another: the device is looked up first, the row
\* is read after that.
Enter(c) ==
    /\ pc[c] = "idle"
    /\ Exists
    /\ cookie[c].kind # "pending"           \* those are sent to /mfa
    /\ IF Valid(cookie[c])
       THEN /\ req' = [req EXCEPT ![c].sess = cookie[c], ![c].row = user]
            /\ Go(c, "authed")
            /\ UNCHANGED cookie
       ELSE IF Trusted(trust[c])
       THEN Go(c, "auto") /\ UNCHANGED <<cookie, req>>
       ELSE Respond(c, NoSession)
    /\ UNCHANGED <<row, trust, backup, now, changes, ghosts>>

AutoLogin(c) ==
    /\ pc[c] = "auto"
    /\ req' = [req EXCEPT ![c].sess = Session(user, FALSE), ![c].row = user]
    /\ Go(c, "authed")
    /\ UNCHANGED <<row, cookie, trust, backup, now, changes, ghosts>>

Authed(c) == pc[c] = "authed"

\* A page that changes nothing: what it sets is the cookie of a new session.
ViewPage(c) ==
    /\ Authed(c)
    /\ Respond(c, req[c].sess)
    /\ UNCHANGED <<row, trust, backup, now, changes, ghosts>>

\* Re-entering the password, or a code.
ReauthPassword(c) ==
    /\ Authed(c)
    /\ Respond(c, [req[c].sess EXCEPT !.fresh = TRUE])
    /\ UNCHANGED <<row, trust, backup, now, changes, ghosts>>

ReauthCode(c, s, step) ==
    /\ Authed(c)
    /\ req[c].row.secret # None
    /\ req' = [req EXCEPT ![c].secret = s, ![c].step = step, ![c].purpose = "reauth"]
    /\ Go(c, "code")
    /\ UNCHANGED <<row, cookie, trust, backup, now, changes, ghosts>>

\* REAUTH_WINDOW_SECONDS have passed.
ReauthLapses(c) ==
    /\ pc[c] = "idle" /\ cookie[c].fresh
    /\ changes < MaxChanges                 \* bound: something that asks for it is left
    /\ cookie' = [cookie EXCEPT ![c].fresh = FALSE]
    /\ UNCHANGED <<row, trust, backup, now, pc, req, changes, ghosts>>

-----------------------------------------------------------------------------
(* Switching MFA on and off, trusted devices, other sessions.              *)

\* Secrets drawn before.
Known == {user.secret, IF backup = None THEN None ELSE backup.secret}
         \cup {x[1] : x \in spent}
         \cup {cookie[d].setup : d \in Client} \cup {req[d].sess.setup : d \in Client}

\* The new secret waits in the session: no one else has it.
MfaSetup(c, s) ==
    /\ Authed(c)
    /\ req[c].row.secret = None
    /\ s \notin Known
    /\ changes < MaxChanges                 \* bound: it can be confirmed
    /\ Respond(c, [req[c].sess EXCEPT !.setup = s])
    /\ UNCHANGED <<row, trust, backup, now, changes, ghosts>>

\* The first code is checked against no last step, and becomes the last step,
\* whatever the row says by now.
MfaConfirm(c, step) ==
    /\ Authed(c)
    /\ req[c].sess.setup # None
    /\ VerifyTotp(req[c].sess.setup, req[c].sess.setup, step, 0)
    /\ Count
    /\ SetTotp(req[c].sess.setup, step)
    /\ spent' = spent \cup {<<req[c].sess.setup, step>>}
    /\ Go(c, "forget")
    /\ UNCHANGED <<devices, cookie, trust, backup, now, req,
                   twice, replaced, cut, made, strays>>

\* Needs the password and a code; the limiter's key is the one of /mfa.
MfaDisable(c, s, step) ==
    /\ Authed(c)
    /\ req[c].row.secret # None
    /\ Count
    /\ req' = [req EXCEPT ![c].secret = s, ![c].step = step, ![c].purpose = "disable"]
    /\ Go(c, "code")
    /\ UNCHANGED <<row, cookie, trust, backup, now, ghosts>>

TurnOff(c) ==
    /\ pc[c] = "turnOff"
    /\ SetTotp(None, 0)
    /\ Go(c, "forget")
    /\ UNCHANGED <<devices, cookie, trust, backup, now, req, changes,
                   spent, twice, replaced, cut, made, strays>>

\* Mutated: the devices stay.
KeepTrustedDevices(c) ==
    /\ pc[c] = "forget"
    /\ Go(c, "bump")
    /\ UNCHANGED <<row, cookie, trust, backup, now, req, changes, ghosts>>

DeleteTrustedDevices(c) ==
    /\ pc[c] = "forget"
    /\ devices' = {}
    /\ req' = Overlap(c, req[c])
    /\ Go(c, "bump")
    /\ UNCHANGED <<user, cookie, trust, backup, now, changes, ghosts>>

\* _revoke_other_sessions: the new version is read in the transaction that sets
\* it, so only this session has it.
BumpSessionVersion(c) ==
    /\ pc[c] = "bump"
    /\ user' = [user EXCEPT !.version = NewVersion]
    /\ EndOthers(c, [req[c].sess EXCEPT !.version = NewVersion, !.setup = None,
                                        !.cred = Cred(user), !.ended = FALSE])
    /\ Go(c, "idle")
    /\ UNCHANGED <<devices, trust, backup, now, changes, ghosts>>

MfaRevokeDevices(c) ==
    /\ Authed(c)
    /\ Count
    /\ devices' = {}
    /\ req' = Overlap(c, req[c])
    /\ Go(c, "bump")
    /\ UNCHANGED <<user, cookie, trust, backup, now, ghosts>>

DeleteDevice(c, d) ==
    /\ Authed(c)
    /\ d \in devices
    /\ DeleteTrustedDevice(d)
    /\ Respond(c, req[c].sess)
    /\ UNCHANGED <<user, trust, backup, now, changes, ghosts>>

\* Always ask for the password: trusted devices stop signing in.
RequirePassword(c, ask) ==
    /\ Authed(c)
    /\ Count
    /\ UpdateUserRequirePassword(ask)
    /\ Respond(c, req[c].sess)
    /\ UNCHANGED <<devices, trust, backup, now, ghosts>>

\* Clears this client's cookies and forgets its device; the session itself
\* cannot be taken back.
Logout(c) ==
    /\ pc[c] = "idle"
    /\ cookie[c] # NoSession \/ trust[c] # None
    /\ DeleteTrustedDeviceByToken(trust[c])
    /\ cookie' = [cookie EXCEPT ![c] = NoSession]
    /\ trust' = [trust EXCEPT ![c] = None]
    /\ UNCHANGED <<user, backup, now, pc, req, changes, ghosts>>

-----------------------------------------------------------------------------
(* Backup and restore, as far as they touch the account.                   *)

Backup(c) ==
    /\ Authed(c)
    /\ req[c].sess.fresh
    /\ backup = None /\ changes < MaxChanges    \* bound: one, that can be restored
    /\ backup' = [password |-> user.password, secret |-> user.secret, ask |-> user.ask]
    /\ Respond(c, req[c].sess)
    /\ UNCHANGED <<row, trust, now, changes, ghosts>>

\* INSERT OR REPLACE makes a new row: its version and last step start again
\* from nothing, and its devices go with the old one (ON DELETE CASCADE).
\* Then every row's version grows by one.
RestoreUsers(c) ==
    /\ Authed(c)
    /\ req[c].sess.fresh
    /\ backup # None
    /\ Count
    /\ user' = [password |-> backup.password, secret |-> backup.secret, lastStep |-> 0,
                version |-> 1, ask |-> backup.ask]
    /\ devices' = {}
    /\ Lowered(backup.secret, 0)
    /\ replaced' = TRUE
    /\ LET q == Overlap(c, req[c])
       IN req' = [d \in Client |-> IF d = c THEN q[d] ELSE [q[d] EXCEPT !.sess = End(@)]]
    /\ cookie' = [d \in Client |-> IF d = c THEN cookie[d] ELSE End(cookie[d])]
    /\ Go(c, "restored")
    /\ UNCHANGED <<trust, backup, now, spent, twice, cut, made, strays>>

\* A backup without this account leaves its row, but ends its sessions.
RestoreOthers(c) ==
    /\ Authed(c)
    /\ req[c].sess.fresh
    /\ Count
    /\ user' = [user EXCEPT !.version = NewVersion]
    /\ req' = [d \in Client |-> IF d = c THEN req[d] ELSE [req[d] EXCEPT !.sess = End(@)]]
    /\ cookie' = [d \in Client |-> IF d = c THEN cookie[d] ELSE End(cookie[d])]
    /\ Go(c, "restored")
    /\ UNCHANGED <<devices, trust, backup, now, ghosts>>

\* restore_backup keeps the session that asked: the row is read once more.
KeepSession(c) ==
    /\ pc[c] = "restored"
    /\ Respond(c, [req[c].sess EXCEPT !.version = user.version, !.cred = Cred(user),
                                      !.ended = FALSE])
    /\ UNCHANGED <<row, trust, backup, now, changes, ghosts>>

-----------------------------------------------------------------------------
(* The world: time, tabs, and the administrator at the server.             *)

Tick ==
    /\ now < MaxStep
    /\ now' = now + 1
    /\ UNCHANGED <<row, cookie, trust, backup, pc, req, changes, ghosts>>

\* 30 days on, the device is of no use (verify_trusted_device) and then gone
\* (cleanup_expired_devices).
ExpireDevice(d) ==
    /\ d \in devices
    /\ devices' = devices \ {d}
    /\ UNCHANGED <<user, cookie, trust, backup, now, pc, req, changes, ghosts>>

\* Another tab sends what this one has.
OpenTab(c, d) ==
    /\ c # d /\ pc[d] = "idle"
    /\ cookie[d] = NoSession /\ trust[d] = None
    /\ cookie' = [cookie EXCEPT ![d] = cookie[c]]
    /\ trust' = [trust EXCEPT ![d] = trust[c]]
    /\ UNCHANGED <<row, backup, now, pc, req, changes, ghosts>>

\* The process stops at any moment and starts again, with RESET_MFA or
\* RESET_PASSWORD in its environment or neither.
Quiet == \A c \in Client : pc[c] \notin {"forget", "bump"}

StopAndStart ==
    /\ Count
    /\ pc' = [c \in Client |-> "idle"]
    /\ req' = [c \in Client |-> NoRequest]
    /\ cut' = (cut \/ ~Quiet)
    /\ UNCHANGED <<trust, backup, now, spent, twice, replaced, made, strays>>

Cookies(ending) == [c \in Client |-> IF ~KeyKept THEN NoSession
                                     ELSE IF ending THEN End(cookie[c]) ELSE cookie[c]]

Restart ==
    /\ StopAndStart
    /\ cookie' = Cookies(FALSE)
    /\ UNCHANGED <<row, lowered>>

ResetMfa ==
    /\ Exists
    /\ StopAndStart
    /\ user' = [user EXCEPT !.secret = None, !.lastStep = 0, !.ask = FALSE, !.version = NewVersion]
    /\ UNCHANGED lowered
    /\ devices' = {}
    /\ cookie' = Cookies(TRUE)

ResetPassword(p) ==
    /\ Exists
    /\ StopAndStart
    /\ ResetUserPassword(p)
    /\ cookie' = Cookies(TRUE)
    /\ UNCHANGED lowered

\* A code sent is the one shown now or just before; one of another secret never
\* passes.
Steps == {now - 1, now} \ {0}
Codes == {x \in Secret \X Steps : x[1] = user.secret}

Next ==
    \/ \E c \in Client :
         \/ \E p \in Password : SendSetup(c, p)
         \/ CreateFirstUser(c) \/ Greet(c)
         \/ \E t \in BOOLEAN : Login(c, t)
         \/ \E x \in Codes, t \in BOOLEAN : SendCode(c, x[1], x[2], t)
         \/ CheckCode(c) \/ ClaimTotpStep(c)
         \/ \E d \in Device : InsertDevice(c, d) \/ DeleteDevice(c, d)
         \/ Enter(c) \/ AutoLogin(c) \/ ViewPage(c)
         \/ ReauthPassword(c) \/ ReauthLapses(c)
         \/ \E x \in Codes : ReauthCode(c, x[1], x[2]) \/ MfaDisable(c, x[1], x[2])
         \/ \E s \in Secret : MfaSetup(c, s)
         \/ \E n \in Steps : MfaConfirm(c, n)
         \/ TurnOff(c) \/ DeleteTrustedDevices(c) \/ BumpSessionVersion(c)
         \/ MfaRevokeDevices(c) \/ Logout(c)
         \/ \E a \in BOOLEAN : RequirePassword(c, a)
         \/ Backup(c) \/ RestoreUsers(c) \/ RestoreOthers(c) \/ KeepSession(c)
         \/ \E d \in Client : OpenTab(c, d)
    \/ Tick
    \/ \E d \in Device : ExpireDevice(d)
    \/ Restart \/ ResetMfa
    \/ \E p \in Password : ResetPassword(p)

Spec == Init /\ [][Next]_vars

-----------------------------------------------------------------------------
(* What sign-in promises.                                                  *)

\* A session ended by a change of MFA, a revocation, a reset or a restore never
\* counts again, whichever requests were under way (db.py:1633 "end all
\* sessions", web.py start_session).
EndedStaysEnded == \A c \in Client : cookie[c].ended => ~Valid(cookie[c])

\* The same while no restore has replaced the row: its version only grows.
SessionsEnd == replaced \/ EndedStaysEnded

\* No session outlives a change of password or MFA: outside such a change, each
\* that counts was signed in, or kept by the change, under what is needed to
\* sign in now.
SessionsMatch ==
    Quiet /\ ~cut /\ ~replaced =>
        \A c \in Client : Valid(cookie[c]) => cookie[c].cred = Cred(user)

\* A trusted device was made by a sign-in under what is needed now, unless that
\* sign-in overlapped the change (account.py, delete_trusted_devices).
DevicesMatch ==
    Quiet /\ ~cut => \A d \in devices \ strays : made[d] = Cred(user)

\* verify_totp with claim_totp_step: a one-time code is accepted once, however
\* many requests send it, until a second confirmation or a restore writes a
\* lower last step.
CodesUsedOnce == lowered \/ ~twice
=============================================================================
