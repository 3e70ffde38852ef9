---------------------------- MODULE Accounts_proof ----------------------------
(***************************************************************************)
(* Proofs about Accounts, for any clients, passwords, secrets, devices,    *)
(* time and number of changes.                                             *)
(***************************************************************************)
EXTENDS Accounts, TLAPS

USE NoneAssumption, BoundAssumption

\* What one client's request does; its steps are proved one by one.
ClientStep(c) ==
    \/ \E p \in Password : SendSetup(c, p)
    \/ CreateFirstUser(c) \/ Greet(c)
    \/ \E t \in BOOLEAN : Login(c, t)
    \/ \E x \in Codes, t \in BOOLEAN : SendCode(c, x[1], x[2], t)
    \/ CheckCode(c) \/ ClaimTotpStep(c)
    \/ \E d \in Device : InsertDevice(c, d) \/ DeleteDevice(c, d)
    \/ Enter(c) \/ AutoLogin(c) \/ ViewPage(c)
    \/ ReauthPassword(c) \/ ReauthLapses(c)
    \/ \E x \in Codes : ReauthCode(c, x[1], x[2]) \/ MfaDisable(c, x[1], x[2])
    \/ \E s \in Secret : MfaSetup(c, s)
    \/ \E n \in Steps : MfaConfirm(c, n)
    \/ TurnOff(c) \/ DeleteTrustedDevices(c) \/ BumpSessionVersion(c)
    \/ MfaRevokeDevices(c) \/ Logout(c)
    \/ \E a \in BOOLEAN : RequirePassword(c, a)
    \/ Backup(c) \/ RestoreUsers(c) \/ RestoreOthers(c) \/ KeepSession(c)
    \/ \E d \in Client : OpenTab(c, d)

-------------------------------------------------------------------------------
(* Types *)

\* Whatever a handler does to a session or a row leaves one.
LEMMA CredTyped == \A u \in Rows : Cred(u) \in Creds /\ u.version \in Nat /\ u.version + 1 \in Nat
  BY DEF Rows, Cred, Creds

LEMMA SessionTyped == \A u \in Rows, f \in BOOLEAN : Session(u, f) \in Sessions
  BY CredTyped DEF Session, NoSession, Sessions, Creds

LEMMA NewSessions == NoSession \in Sessions /\ [NoSession EXCEPT !.kind = "pending"] \in Sessions
  BY DEF Sessions, NoSession, Creds

LEMMA FreshTyped == \A s \in Sessions, f \in BOOLEAN : [s EXCEPT !.fresh = f] \in Sessions
  BY DEF Sessions

LEMMA SetupTyped == \A s \in Sessions, x \in Secret : [s EXCEPT !.setup = x] \in Sessions
  BY DEF Sessions

LEMMA SessionFields == \A s \in Sessions : s.cred \in Creds /\ s.setup \in Secret \cup {None} /\ s.version \in Nat
  BY DEF Sessions

LEMMA EndTyped == \A s \in Sessions : End(s) \in Sessions
  BY DEF Sessions, End

LEMMA KeptTyped ==
    ASSUME NEW s \in Sessions, NEW v \in Nat, NEW u \in Rows
    PROVE  /\ [s EXCEPT !.version = v, !.cred = Cred(u), !.ended = FALSE] \in Sessions
           /\ [s EXCEPT !.version = v, !.setup = None, !.cred = Cred(u), !.ended = FALSE] \in Sessions
<1>1. [s EXCEPT !.version = v, !.cred = Cred(u), !.ended = FALSE] \in Sessions
  BY CredTyped DEF Sessions
<1>2. [s EXCEPT !.version = v, !.setup = None, !.cred = Cred(u), !.ended = FALSE] \in Sessions
  BY CredTyped DEF Sessions
<1> QED
  BY <1>1, <1>2

LEMMA NewRows ==
    NoUser \in Rows /\ \A p \in Password : /\ [NoUser EXCEPT !.password = p] \in Rows
                                           /\ [NoUser EXCEPT !.password = p].password = p
  BY DEF Rows, NoUser

LEMMA RequestTypes == NoRequest \in Requests
  BY NewSessions, NewRows DEF Requests, NoRequest

\* TypeOK in parts, with what makes it inductive: the account has a password,
\* and a code that was sent is one of a secret.
HandsInv ==
    /\ cookie \in [Client -> Sessions]
    /\ req \in [Client -> Requests]
    /\ pc \in [Client -> Pc]

AccountInv ==
    /\ user \in Rows
    /\ user = NoUser \/ user.password \in Password
    /\ devices \subseteq Device
    /\ trust \in [Client -> Device \cup {None}]
    /\ backup \in [password : Password, secret : Secret \cup {None}, ask : BOOLEAN] \cup {None}
    /\ made \in [Device -> Creds] /\ strays \subseteq Device

WorkInv ==
    \A c \in Client :
        /\ pc[c] \in {"code", "claim"} => req[c].secret \in Secret
        /\ pc[c] = "create" => req[c].password \in Password
        /\ pc[c] \notin {"idle", "create"} => Exists

RestInv ==
    /\ now \in Nat \ {0} /\ changes \in Nat
    /\ spent \subseteq Secret \X Nat
    /\ twice \in BOOLEAN /\ lowered \in BOOLEAN /\ replaced \in BOOLEAN /\ cut \in BOOLEAN

TypesInv == HandsInv /\ AccountInv /\ WorkInv /\ RestInv

LEMMA PasswordExists == \A u : u.password \in Password => u # NoUser
  BY DEF NoUser

\* The changes of the row
LEMMA TotpRow ==
    ASSUME NEW u \in Rows, NEW x \in Secret \cup {None}, NEW n \in Nat
    PROVE  /\ [u EXCEPT !.secret = x, !.lastStep = n] \in Rows
           /\ [u EXCEPT !.secret = x, !.lastStep = n].password = u.password
<1>1. [u EXCEPT !.secret = x, !.lastStep = n] \in Rows
  BY DEF Rows
<1>2. [u EXCEPT !.secret = x, !.lastStep = n].password = u.password
  BY DEF Rows
<1> QED
  BY <1>1, <1>2

LEMMA StepRow ==
    \A u \in Rows, n \in Nat : /\ [u EXCEPT !.lastStep = n] \in Rows
                               /\ [u EXCEPT !.lastStep = n].password = u.password
  BY DEF Rows

LEMMA VersionRow ==
    \A u \in Rows, n \in Nat : /\ [u EXCEPT !.version = n] \in Rows
                               /\ [u EXCEPT !.version = n].password = u.password
  BY DEF Rows

LEMMA AskRow ==
    \A u \in Rows, a \in BOOLEAN : /\ [u EXCEPT !.ask = a] \in Rows
                                   /\ [u EXCEPT !.ask = a].password = u.password
  BY DEF Rows

LEMMA PasswordRow ==
    ASSUME NEW u \in Rows, NEW n \in Nat, NEW p \in Password
    PROVE  /\ [u EXCEPT !.password = p, !.version = n] \in Rows
           /\ [u EXCEPT !.password = p, !.version = n].password = p
<1>1. [u EXCEPT !.password = p, !.version = n] \in Rows
  BY DEF Rows
<1>2. [u EXCEPT !.password = p, !.version = n].password = p
  BY DEF Rows
<1> QED
  BY <1>1, <1>2

LEMMA ResetRow ==
    ASSUME NEW u \in Rows, NEW n \in Nat
    PROVE  /\ [u EXCEPT !.secret = None, !.lastStep = 0, !.ask = FALSE, !.version = n] \in Rows
           /\ [u EXCEPT !.secret = None, !.lastStep = 0, !.ask = FALSE, !.version = n].password = u.password
<1>1. [u EXCEPT !.secret = None, !.lastStep = 0, !.ask = FALSE, !.version = n] \in Rows
  BY DEF Rows
<1>2. [u EXCEPT !.secret = None, !.lastStep = 0, !.ask = FALSE, !.version = n].password = u.password
  BY DEF Rows
<1> QED
  BY <1>1, <1>2

\* What a request holds, and the changes of it
LEMMA HandFields ==
    \A q \in Requests : /\ q.sess \in Sessions /\ q.row \in Rows /\ q.step \in Nat
                        /\ q.password \in Password \cup {None} /\ q.secret \in Secret \cup {None}
                        /\ q.trust \in BOOLEAN /\ q.late \in BOOLEAN
  BY DEF Requests

LEMMA HandSess ==
    \A f \in [Client -> Requests], c \in Client, s \in Sessions : [f EXCEPT ![c].sess = s] \in [Client -> Requests]
  BY DEF Requests

LEMMA HandRow ==
    \A f \in [Client -> Requests], c \in Client, u \in Rows : [f EXCEPT ![c].row = u] \in [Client -> Requests]
  BY DEF Requests

LEMMA HandTrust ==
    \A f \in [Client -> Requests], c \in Client, t \in BOOLEAN : [f EXCEPT ![c].trust = t] \in [Client -> Requests]
  BY DEF Requests

LEMMA HandCode ==
    ASSUME NEW f \in [Client -> Requests], NEW c \in Client, NEW x \in Secret, NEW n \in Nat,
           NEW purpose \in {"mfa", "reauth", "disable"}
    PROVE  [f EXCEPT ![c].secret = x, ![c].step = n, ![c].purpose = purpose] \in [Client -> Requests]
<1> DEFINE one   == [f EXCEPT ![c].secret = x]
           two   == [one EXCEPT ![c].step = n]
<1>1. one \in [Client -> Requests]
  BY DEF Requests
<1>2. two \in [Client -> Requests]
  <2> HIDE DEF one
  <2> QED  BY <1>1 DEF Requests
<1>3. [two EXCEPT ![c].purpose = purpose] \in [Client -> Requests]
  <2> HIDE DEF two
  <2> QED  BY <1>2 DEF Requests
<1> QED
  BY <1>3

LEMMA HandEnded == ASSUME NEW q \in Requests PROVE [q EXCEPT !.sess = End(@)] \in Requests
  BY EndTyped DEF Requests

LEMMA HandLate ==
    ASSUME HandsInv, NEW c \in Client, NEW q \in Requests
    PROVE  Overlap(c, q) \in [Client -> Requests]
  BY DEF HandsInv, Requests, Overlap

LEMMA CodesTyped ==
    ASSUME now \in Nat \ {0}
    PROVE  /\ \A x \in Codes : x[1] \in Secret /\ x[2] \in Nat
           /\ Steps \subseteq Nat
  BY DEF Codes, Steps

LEMMA HandSend ==
    ASSUME NEW f \in [Client -> Requests], NEW c \in Client, NEW u \in Rows, NEW x \in Secret,
           NEW n \in Nat
    PROVE  [f EXCEPT ![c].row = u, ![c].secret = x, ![c].step = n, ![c].purpose = "mfa"] \in [Client -> Requests]
<1> DEFINE one == [f EXCEPT ![c].row = u]
<1>1. one \in [Client -> Requests]
  BY DEF Requests
<1>2. [one EXCEPT ![c].secret = x, ![c].step = n, ![c].purpose = "mfa"] \in [Client -> Requests]
  <2> HIDE DEF one
  <2>1. "mfa" \in {"mfa", "reauth", "disable"}
    OBVIOUS
  <2> QED  BY <1>1, <2>1, HandCode, Zenon
<1> QED
  BY <1>2

LEMMA HandSessTrust ==
    ASSUME NEW f \in [Client -> Requests], NEW c \in Client, NEW s \in Sessions, NEW t \in BOOLEAN
    PROVE  [f EXCEPT ![c].sess = s, ![c].trust = t] \in [Client -> Requests]
<1> DEFINE one == [f EXCEPT ![c].sess = s]
<1>1. one \in [Client -> Requests]
  BY HandSess
<1>2. [one EXCEPT ![c].trust = t] \in [Client -> Requests]
  <2> HIDE DEF one
  <2> QED  BY <1>1, HandTrust
<1> QED
  BY <1>2

LEMMA LateSame ==
    ASSUME HandsInv, NEW c \in Client, NEW q \in Requests
    PROVE  \A d \in Client : /\ d # c => /\ Overlap(c, q)[d].secret = req[d].secret
                                         /\ Overlap(c, q)[d].password = req[d].password
                                         /\ Overlap(c, q)[d].sess = req[d].sess
                             /\ Overlap(c, q)[c] = q
  BY DEF HandsInv, Requests, Overlap

LEMMA EndedSame ==
    \A q \in Requests, s \in Sessions : /\ [q EXCEPT !.sess = s].secret = q.secret
                                        /\ [q EXCEPT !.sess = s].password = q.password
                                        /\ [q EXCEPT !.sess = s].sess = s
  BY DEF Requests

LEMMA TypesInvHolds == Spec => []TypesInv
<1>1. ASSUME Init PROVE TypesInv
  <2>1. HandsInv
    BY <1>1, NewSessions, RequestTypes DEF Init, HandsInv, Pc
  <2>2. WorkInv
    BY <1>1 DEF Init, WorkInv
  <2>4. RestInv
    <3>1. now \in Nat \ {0} /\ changes \in Nat
      BY <1>1 DEF Init
    <3>2. spent \subseteq Secret \X Nat
      BY <1>1 DEF Init
    <3>3. twice \in BOOLEAN /\ lowered \in BOOLEAN /\ replaced \in BOOLEAN /\ cut \in BOOLEAN
      BY <1>1 DEF Init
    <3> QED  BY <3>1, <3>2, <3>3 DEF RestInv
  <2>3. AccountInv
    BY <1>1, NewRows DEF Init, AccountInv, Creds
  <2> QED  BY <2>1, <2>2, <2>3, <2>4 DEF TypesInv
<1>2. TypesInv /\ [Next]_vars => TypesInv'
  <2> SUFFICES ASSUME HandsInv, AccountInv, WorkInv, RestInv, [Next]_vars
               PROVE  TypesInv'
    BY DEF TypesInv
  <2>1. ASSUME NEW c \in Client, ClientStep(c) PROVE TypesInv'
    <3>1. ASSUME NEW p \in Password, SendSetup(c, p) PROVE TypesInv'
        <4>1. HandsInv'
          BY <3>1 DEF SendSetup, HandsInv, Go, Pc, row, ghosts, Requests
        <4>2. AccountInv'
          BY <3>1 DEF SendSetup, AccountInv, row, ghosts
        <4>3. WorkInv'
          BY <3>1 DEF SendSetup, HandsInv, WorkInv, Go, Exists, Pc, row, ghosts, Requests
        <4>4. RestInv'
          BY <3>1 DEF SendSetup, RestInv, row, ghosts
        <4> QED
          BY <4>1, <4>2, <4>3, <4>4 DEF TypesInv
    <3>2. CASE CreateFirstUser(c)
        <4>1. HandsInv'
          BY <3>2, RequestTypes DEF CreateFirstUser, Refuse, HandsInv, Go, Pc, row, ghosts
        <4>2. AccountInv'
          BY <3>2, NewRows, HandFields DEF CreateFirstUser, Refuse, AccountInv, row, ghosts, HandsInv, WorkInv
        <4>3. WorkInv'
          BY <3>2, NewRows, PasswordExists DEF CreateFirstUser, Refuse, HandsInv, WorkInv, Go, Exists, Pc, row, ghosts
        <4>4. RestInv'
          BY <3>2 DEF CreateFirstUser, Refuse, RestInv, row, ghosts
        <4> QED
          BY <4>1, <4>2, <4>3, <4>4 DEF TypesInv
    <3>3. CASE Greet(c)
        <4>1. HandsInv'
          BY <3>3, SessionTyped, RequestTypes DEF Greet, Respond, HandsInv, Go, Pc, row, ghosts, AccountInv
        <4>2. AccountInv'
          BY <3>3 DEF Greet, Respond, AccountInv, row, ghosts
        <4>3. WorkInv'
          BY <3>3 DEF Greet, Respond, HandsInv, WorkInv, Go, Exists, Pc, row, ghosts
        <4>4. RestInv'
          BY <3>3 DEF Greet, Respond, RestInv, row, ghosts
        <4> QED
          BY <4>1, <4>2, <4>3, <4>4 DEF TypesInv
    <3>4. ASSUME NEW t \in BOOLEAN, Login(c, t) PROVE TypesInv'
        <4>1. HandsInv'
          <5>1. Session(user, TRUE) \in Sessions
            BY SessionTyped DEF AccountInv
          <5>2. [req EXCEPT ![c].sess = Session(user, TRUE), ![c].trust = TRUE] \in [Client -> Requests]
            BY <5>1, HandSessTrust DEF HandsInv
          <5> QED
            BY <3>4, <5>1, <5>2, NewSessions, RequestTypes DEF Login, Respond, HandsInv, Go, Pc
        <4>2. AccountInv'
          BY <3>4 DEF Login, Respond, AccountInv, row, ghosts
        <4>3. WorkInv'
          BY <3>4 DEF Login, Respond, HandsInv, WorkInv, Go, Exists, Pc, row, ghosts
        <4>4. RestInv'
          BY <3>4 DEF Login, Respond, RestInv, row, ghosts
        <4> QED
          BY <4>1, <4>2, <4>3, <4>4 DEF TypesInv
    <3>5. ASSUME NEW s \in Secret, NEW n \in Nat, NEW t \in BOOLEAN, SendCode(c, s, n, t) PROVE TypesInv'
        <4>1. HandsInv'
          <5>2. CASE user.secret = None
            BY <3>5, <5>2, NewSessions, RequestTypes DEF SendCode, Respond, HandsInv, Go, Pc
          <5>3. CASE user.secret # None
            <6>2. req' = [req EXCEPT ![c].row = user, ![c].secret = s, ![c].step = n, ![c].purpose = "mfa", ![c].trust = t]
              BY <3>5, <5>3 DEF SendCode
            <6>3. req \in [Client -> Requests]
              BY DEF HandsInv
            <6>4. user \in Rows
              BY DEF AccountInv
            <6>1. req' \in [Client -> Requests]
              <7> DEFINE code == [req EXCEPT ![c].row = user, ![c].secret = s, ![c].step = n, ![c].purpose = "mfa"]
              <7>1. code \in [Client -> Requests]
                BY <6>3, <6>4, HandSend, Zenon
              <7>2. [code EXCEPT ![c].trust = t] \in [Client -> Requests]
                <8> HIDE DEF code
                <8> QED  BY <7>1, HandTrust
              <7> QED  BY <6>2, <7>2
            <6> QED
              BY <3>5, <5>3, <6>1 DEF SendCode, HandsInv, Go, Pc
          <5> QED
            BY <5>2, <5>3
        <4>2. AccountInv'
          BY <3>5 DEF SendCode, Respond, AccountInv, row, ghosts
        <4>3. WorkInv'
          <5>2. CASE user.secret = None
            BY <3>5, <5>2 DEF SendCode, Respond, HandsInv, WorkInv, Go, Pc, row, Exists
          <5>3. CASE user.secret # None
            <6>3. req' = [req EXCEPT ![c].row = user, ![c].secret = s, ![c].step = n, ![c].purpose = "mfa", ![c].trust = t]
              BY <3>5, <5>3 DEF SendCode
            <6>4. req \in [Client -> Requests] /\ user \in Rows /\ t \in BOOLEAN
              BY DEF HandsInv, AccountInv
            <6>1. req'[c].secret \in Secret /\ \A d \in Client : d # c => req'[d] = req[d]
              BY <6>3, <6>4 DEF Requests
            <6>2. user # NoUser
              BY <5>3 DEF NoUser
            <6> QED
              BY <3>5, <5>3, <6>1, <6>2 DEF SendCode, HandsInv, WorkInv, Go, Pc, row, Exists
          <5> QED
            BY <5>2, <5>3
        <4>4. RestInv'
          BY <3>5 DEF SendCode, Respond, RestInv, row, ghosts
        <4> QED
          BY <4>1, <4>2, <4>3, <4>4 DEF TypesInv
    <3>6. CASE CheckCode(c)
        <4>1. HandsInv'
          BY <3>6, RequestTypes DEF CheckCode, Refuse, HandsInv, Go, Pc, row, ghosts
        <4>2. AccountInv'
          BY <3>6 DEF CheckCode, Refuse, AccountInv, row, ghosts
        <4>3. WorkInv'
          BY <3>6 DEF CheckCode, Refuse, HandsInv, WorkInv, Go, Exists, Pc, row, ghosts
        <4>4. RestInv'
          BY <3>6 DEF CheckCode, Refuse, RestInv, row, ghosts
        <4> QED
          BY <4>1, <4>2, <4>3, <4>4 DEF TypesInv
    <3>7. CASE ClaimTotpStep(c)
        <4>5. user' \in Rows /\ user'.password = user.password
          <5>1. user' \in {user, [user EXCEPT !.lastStep = req[c].step]}
            BY <3>7 DEF ClaimTotpStep
          <5>2. user \in Rows
            BY DEF AccountInv
          <5>3. req[c].step \in Nat
            BY HandFields DEF AccountInv, HandsInv
          <5>4. user' \in Rows
            BY <5>1, <5>2, <5>3, StepRow, Zenon
          <5>5. user'.password = user.password
            BY <5>1, <5>2 DEF Rows
          <5> QED  BY <5>4, <5>5
        <4>1. HandsInv'
          <5> DEFINE new   == Session(req[c].row, TRUE)
                       fresh == [req[c].sess EXCEPT !.fresh = TRUE]
          <5>1. new \in Sessions /\ fresh \in Sessions
            BY HandFields, SessionTyped, FreshTyped DEF HandsInv
          <5>2. [req EXCEPT ![c].sess = new] \in [Client -> Requests]
            BY <5>1, HandSess DEF HandsInv
          <5>3. \/ UNCHANGED cookie /\ req' \in {req, [req EXCEPT ![c].sess = new], [req EXCEPT ![c] = NoRequest]}
                \/ \E s \in {new, fresh} : cookie' = [cookie EXCEPT ![c] = s] /\ req' = [req EXCEPT ![c] = NoRequest]
            BY <3>7 DEF ClaimTotpStep, Accept, Respond, Refuse
          <5>4. pc' \in [Client -> Pc]
            BY <3>7 DEF ClaimTotpStep, Accept, Respond, Refuse, HandsInv, Go, Pc
          <5> HIDE DEF new, fresh
          <5> QED
            BY <5>1, <5>2, <5>3, <5>4, RequestTypes DEF HandsInv
        <4>2. AccountInv'
          BY <3>7, <4>5, PasswordExists DEF ClaimTotpStep, Accept, Respond, Refuse, AccountInv, row, ghosts, WorkInv, Exists
        <4>3. WorkInv'
          BY <3>7, <4>5, PasswordExists DEF ClaimTotpStep, Accept, Respond, Refuse, HandsInv, WorkInv, Go, Exists, Pc, row, ghosts, AccountInv
        <4>4. RestInv'
          <5>1. <<req[c].secret, req[c].step>> \in Secret \X Nat
            <6>1. req[c].secret \in Secret
              BY <3>7 DEF ClaimTotpStep, WorkInv
            <6>2. req[c].step \in Nat
              BY HandFields DEF HandsInv
            <6> QED  BY <6>1, <6>2
          <5>2. twice' \in BOOLEAN
            BY <3>7 DEF ClaimTotpStep, RestInv
          <5>3. spent' \subseteq Secret \X Nat
            BY <3>7, <5>1 DEF ClaimTotpStep, RestInv
          <5> QED
            BY <3>7, <5>2, <5>3 DEF ClaimTotpStep, RestInv
        <4> QED
          BY <4>1, <4>2, <4>3, <4>4 DEF TypesInv
    <3>8. ASSUME NEW d \in Device, InsertDevice(c, d) PROVE TypesInv'
        <4>1. HandsInv'
          BY <3>8, HandFields, RequestTypes DEF InsertDevice, Respond, CreateTrustedDevice, HandsInv, Go, Pc, row, ghosts
        <4>2. AccountInv'
          BY <3>8, SessionFields, HandFields DEF InsertDevice, Respond, CreateTrustedDevice, AccountInv, row, ghosts, HandsInv
        <4>3. WorkInv'
          BY <3>8 DEF InsertDevice, Respond, CreateTrustedDevice, HandsInv, WorkInv, Go, Exists, Pc, row, ghosts
        <4>4. RestInv'
          BY <3>8 DEF InsertDevice, Respond, CreateTrustedDevice, RestInv, row, ghosts
        <4> QED
          BY <4>1, <4>2, <4>3, <4>4 DEF TypesInv
    <3>9. ASSUME NEW d \in Device, DeleteDevice(c, d) PROVE TypesInv'
        <4>1. HandsInv'
          BY <3>9, HandFields, RequestTypes DEF DeleteDevice, Respond, DeleteTrustedDevice, Authed, HandsInv, Go, Pc, row, ghosts
        <4>2. AccountInv'
          BY <3>9 DEF DeleteDevice, Respond, DeleteTrustedDevice, Authed, AccountInv, row, ghosts
        <4>3. WorkInv'
          BY <3>9 DEF DeleteDevice, Respond, DeleteTrustedDevice, Authed, HandsInv, WorkInv, Go, Exists, Pc, row, ghosts
        <4>4. RestInv'
          BY <3>9 DEF DeleteDevice, Respond, DeleteTrustedDevice, Authed, RestInv, row, ghosts
        <4> QED
          BY <4>1, <4>2, <4>3, <4>4 DEF TypesInv
    <3>10. CASE Enter(c)
        <4>1. HandsInv'
          BY <3>10, NewSessions, HandSess, HandRow, RequestTypes DEF Enter, Respond, HandsInv, Go, Pc, row, ghosts, AccountInv
        <4>2. AccountInv'
          BY <3>10 DEF Enter, Respond, AccountInv, row, ghosts
        <4>3. WorkInv'
          BY <3>10 DEF Enter, Respond, HandsInv, WorkInv, Go, Exists, Pc, row, ghosts
        <4>4. RestInv'
          BY <3>10 DEF Enter, Respond, RestInv, row, ghosts
        <4> QED
          BY <4>1, <4>2, <4>3, <4>4 DEF TypesInv
    <3>11. CASE AutoLogin(c)
        <4>1. HandsInv'
          BY <3>11, SessionTyped, HandSess, HandRow DEF AutoLogin, HandsInv, Go, Pc, row, ghosts, AccountInv
        <4>2. AccountInv'
          BY <3>11 DEF AutoLogin, AccountInv, row, ghosts
        <4>3. WorkInv'
          BY <3>11 DEF AutoLogin, HandsInv, WorkInv, Go, Exists, Pc, row, ghosts
        <4>4. RestInv'
          BY <3>11 DEF AutoLogin, RestInv, row, ghosts
        <4> QED
          BY <4>1, <4>2, <4>3, <4>4 DEF TypesInv
    <3>12. CASE ViewPage(c)
        <4>1. HandsInv'
          BY <3>12, HandFields, RequestTypes DEF ViewPage, Respond, Authed, HandsInv, Go, Pc, row, ghosts
        <4>2. AccountInv'
          BY <3>12 DEF ViewPage, Respond, Authed, AccountInv, row, ghosts
        <4>3. WorkInv'
          BY <3>12 DEF ViewPage, Respond, Authed, HandsInv, WorkInv, Go, Exists, Pc, row, ghosts
        <4>4. RestInv'
          BY <3>12 DEF ViewPage, Respond, Authed, RestInv, row, ghosts
        <4> QED
          BY <4>1, <4>2, <4>3, <4>4 DEF TypesInv
    <3>13. CASE ReauthPassword(c)
        <4>1. HandsInv'
          BY <3>13, FreshTyped, HandFields, RequestTypes DEF ReauthPassword, Respond, Authed, HandsInv, Go, Pc, row, ghosts
        <4>2. AccountInv'
          BY <3>13 DEF ReauthPassword, Respond, Authed, AccountInv, row, ghosts
        <4>3. WorkInv'
          BY <3>13 DEF ReauthPassword, Respond, Authed, HandsInv, WorkInv, Go, Exists, Pc, row, ghosts
        <4>4. RestInv'
          BY <3>13 DEF ReauthPassword, Respond, Authed, RestInv, row, ghosts
        <4> QED
          BY <4>1, <4>2, <4>3, <4>4 DEF TypesInv
    <3>14. CASE ReauthLapses(c)
        <4>1. HandsInv'
          BY <3>14, FreshTyped DEF ReauthLapses, HandsInv, Go, Pc, row, ghosts
        <4>2. AccountInv'
          BY <3>14 DEF ReauthLapses, AccountInv, row, ghosts
        <4>3. WorkInv'
          BY <3>14 DEF ReauthLapses, HandsInv, WorkInv, Go, Exists, Pc, row, ghosts
        <4>4. RestInv'
          BY <3>14 DEF ReauthLapses, RestInv, row, ghosts
        <4> QED
          BY <4>1, <4>2, <4>3, <4>4 DEF TypesInv
    <3>15. ASSUME NEW s \in Secret, NEW n \in Nat, ReauthCode(c, s, n) PROVE TypesInv'
        <4>1. HandsInv'
          <5>2. req' \in [Client -> Requests]
            <6>1. req' = [req EXCEPT ![c].secret = s, ![c].step = n, ![c].purpose = "reauth"]
              BY <3>15 DEF ReauthCode
            <6>2. req \in [Client -> Requests]
              BY DEF HandsInv
            <6>3. "reauth" \in {"mfa", "reauth", "disable"}
              OBVIOUS
            <6> QED  BY <6>1, <6>2, <6>3, HandCode, Zenon
          <5> QED
            BY <3>15, <5>2 DEF ReauthCode, HandsInv, Go, Pc
        <4>2. AccountInv'
          BY <3>15 DEF ReauthCode, Authed, AccountInv, row, ghosts
        <4>3. WorkInv'
          <5>2. req'[c].secret \in Secret /\ \A d \in Client : d # c => req'[d] = req[d]
            <6>1. req' = [req EXCEPT ![c].secret = s, ![c].step = n, ![c].purpose = "reauth"]
              BY <3>15 DEF ReauthCode
            <6>2. req \in [Client -> Requests]
              BY DEF HandsInv
            <6> QED  BY <6>1, <6>2 DEF Requests
          <5> QED
            BY <3>15, <5>2 DEF ReauthCode, Authed, HandsInv, WorkInv, Go, Pc, row, Exists
        <4>4. RestInv'
          BY <3>15 DEF ReauthCode, Authed, RestInv, row, ghosts
        <4> QED
          BY <4>1, <4>2, <4>3, <4>4 DEF TypesInv
    <3>16. ASSUME NEW s \in Secret, NEW n \in Nat, MfaDisable(c, s, n) PROVE TypesInv'
        <4>1. HandsInv'
          <5>2. req' \in [Client -> Requests]
            <6>1. req' = [req EXCEPT ![c].secret = s, ![c].step = n, ![c].purpose = "disable"]
              BY <3>16 DEF MfaDisable
            <6>2. req \in [Client -> Requests]
              BY DEF HandsInv
            <6>3. "disable" \in {"mfa", "reauth", "disable"}
              OBVIOUS
            <6> QED  BY <6>1, <6>2, <6>3, HandCode, Zenon
          <5> QED
            BY <3>16, <5>2 DEF MfaDisable, HandsInv, Go, Pc
        <4>2. AccountInv'
          BY <3>16 DEF MfaDisable, Authed, Count, AccountInv, row, ghosts
        <4>3. WorkInv'
          <5>2. req'[c].secret \in Secret /\ \A d \in Client : d # c => req'[d] = req[d]
            <6>1. req' = [req EXCEPT ![c].secret = s, ![c].step = n, ![c].purpose = "disable"]
              BY <3>16 DEF MfaDisable
            <6>2. req \in [Client -> Requests]
              BY DEF HandsInv
            <6> QED  BY <6>1, <6>2 DEF Requests
          <5> QED
            BY <3>16, <5>2 DEF MfaDisable, Authed, HandsInv, WorkInv, Go, Pc, row, Exists
        <4>4. RestInv'
          BY <3>16 DEF MfaDisable, Authed, Count, RestInv, row, ghosts
        <4> QED
          BY <4>1, <4>2, <4>3, <4>4 DEF TypesInv
    <3>17. ASSUME NEW s \in Secret, MfaSetup(c, s) PROVE TypesInv'
        <4>1. HandsInv'
          BY <3>17, SetupTyped, HandFields, RequestTypes DEF MfaSetup, Respond, Authed, HandsInv, Go, Pc, row, ghosts
        <4>2. AccountInv'
          BY <3>17 DEF MfaSetup, Respond, Authed, AccountInv, row, ghosts
        <4>3. WorkInv'
          BY <3>17 DEF MfaSetup, Respond, Authed, HandsInv, WorkInv, Go, Exists, Pc, row, ghosts
        <4>4. RestInv'
          BY <3>17 DEF MfaSetup, Respond, Authed, RestInv, row, ghosts
        <4> QED
          BY <4>1, <4>2, <4>3, <4>4 DEF TypesInv
    <3>18. ASSUME NEW n \in Nat, MfaConfirm(c, n) PROVE TypesInv'
        <4>5. user' \in Rows /\ user'.password = user.password
          <5>1. user' = [user EXCEPT !.secret = req[c].sess.setup, !.lastStep = n]
            BY <3>18 DEF MfaConfirm, SetTotp
          <5>2. user \in Rows
            BY DEF AccountInv
          <5>3. req[c].sess.setup \in Secret \cup {None} /\ n \in Nat
            BY HandFields, SessionFields DEF AccountInv, HandsInv, RestInv
          <5>4. user' \in Rows
            BY <5>1, <5>2, <5>3, TotpRow, Zenon
          <5>5. user'.password = user.password
            BY <5>1, <5>2 DEF Rows
          <5> QED  BY <5>4, <5>5
        <4>1. HandsInv'
          BY <3>18 DEF MfaConfirm, Authed, Count, SetTotp, HandsInv, Go, Pc, row, ghosts
        <4>2. AccountInv'
          BY <3>18, <4>5, PasswordExists DEF MfaConfirm, Authed, Count, SetTotp, AccountInv, row, ghosts, WorkInv, Exists
        <4>3. WorkInv'
          BY <3>18, <4>5, PasswordExists DEF MfaConfirm, Authed, Count, SetTotp, HandsInv, WorkInv, Go, Exists, Pc, row, ghosts, AccountInv
        <4>4. RestInv'
          BY <3>18, SessionFields, HandFields, CodesTyped DEF MfaConfirm, Authed, Count, SetTotp, RestInv, row, ghosts, HandsInv, Lowered
        <4> QED
          BY <4>1, <4>2, <4>3, <4>4 DEF TypesInv
    <3>19. CASE TurnOff(c)
        <4>5. user' \in Rows /\ user'.password = user.password
          <5>1. user' = [user EXCEPT !.secret = None, !.lastStep = 0]
            BY <3>19 DEF TurnOff, SetTotp
          <5>2. user \in Rows
            BY DEF AccountInv
          <5>3. None \in Secret \cup {None} /\ 0 \in Nat
            BY DEF AccountInv
          <5>4. user' \in Rows
            BY <5>1, <5>2, <5>3, TotpRow, Zenon
          <5>5. user'.password = user.password
            BY <5>1, <5>2 DEF Rows
          <5> QED  BY <5>4, <5>5
        <4>1. HandsInv'
          BY <3>19 DEF TurnOff, SetTotp, HandsInv, Go, Pc, row, ghosts
        <4>2. AccountInv'
          BY <3>19, <4>5, PasswordExists DEF TurnOff, SetTotp, AccountInv, row, ghosts, WorkInv, Exists
        <4>3. WorkInv'
          BY <3>19, <4>5, PasswordExists DEF TurnOff, SetTotp, HandsInv, WorkInv, Go, Exists, Pc, row, ghosts, AccountInv
        <4>4. RestInv'
          BY <3>19 DEF TurnOff, SetTotp, RestInv, row, ghosts, Lowered
        <4> QED
          BY <4>1, <4>2, <4>3, <4>4 DEF TypesInv
    <3>20. CASE DeleteTrustedDevices(c)
        <4>1. HandsInv'
          <5>1. Overlap(c, req[c]) \in [Client -> Requests]
            BY HandLate DEF HandsInv
          <5> QED
            BY <3>20, <5>1 DEF DeleteTrustedDevices, Authed, HandsInv, Go, Pc
        <4>2. AccountInv'
          BY <3>20 DEF DeleteTrustedDevices, Overlap, AccountInv, row, ghosts
        <4>3. WorkInv'
          <5>1. \A d \in Client : req'[d].secret = req[d].secret /\ req'[d].password = req[d].password
            BY <3>20, LateSame DEF DeleteTrustedDevices, HandsInv
          <5> QED
            BY <3>20, <5>1 DEF DeleteTrustedDevices, Authed, HandsInv, WorkInv, Go, Pc, row, Exists
        <4>4. RestInv'
          BY <3>20 DEF DeleteTrustedDevices, Overlap, RestInv, row, ghosts
        <4> QED
          BY <4>1, <4>2, <4>3, <4>4 DEF TypesInv
    <3>21. CASE BumpSessionVersion(c)
        <4>5. user' \in Rows /\ user'.password = user.password
          <5>1. user' = [user EXCEPT !.version = user.version + 1]
            BY <3>21 DEF BumpSessionVersion, NewVersion
          <5>2. user \in Rows
            BY DEF AccountInv
          <5>3. user.version + 1 \in Nat
            BY CredTyped DEF AccountInv
          <5>4. user' \in Rows
            BY <5>1, <5>2, <5>3, VersionRow, Zenon
          <5>5. user'.password = user.password
            BY <5>1, <5>2 DEF Rows
          <5> QED  BY <5>4, <5>5
        <4>1. HandsInv'
          BY <3>21, CredTyped, KeptTyped, EndTyped, HandEnded, HandFields, RequestTypes DEF BumpSessionVersion, EndOthers, HandsInv, Go, Pc, row, ghosts, AccountInv, NewVersion
        <4>2. AccountInv'
          BY <3>21, <4>5, PasswordExists DEF BumpSessionVersion, EndOthers, AccountInv, row, ghosts, WorkInv, Exists
        <4>3. WorkInv'
          <5>1. \A d \in Client : End(req[d].sess) \in Sessions
            BY HandFields, EndTyped DEF HandsInv
          <5>2. \A d \in Client : d # c => pc'[d] = pc[d] /\ req'[d] = [req[d] EXCEPT !.sess = End(@)]
            BY <3>21 DEF BumpSessionVersion, Authed, EndOthers, HandsInv, Go
          <5>3. \A d \in Client : d # c => req'[d].secret = req[d].secret /\ req'[d].password = req[d].password
            <6> SUFFICES ASSUME NEW d \in Client, d # c
                         PROVE  req'[d].secret = req[d].secret /\ req'[d].password = req[d].password
              OBVIOUS
            <6> DEFINE e == End(req[d].sess)
            <6>1. req[d] \in Requests /\ req'[d] = [req[d] EXCEPT !.sess = e]
              BY <5>1, <5>2 DEF HandsInv
            <6> HIDE DEF e
            <6> QED  BY <6>1 DEF Requests
          <5>4. pc'[c] \notin {"create", "code", "claim"} /\ user # NoUser
            BY <3>21 DEF BumpSessionVersion, Authed, HandsInv, WorkInv, Go, Exists
          <5>5. user' # NoUser
            BY <4>5, <5>4, PasswordExists DEF AccountInv
          <5> QED
            BY <5>2, <5>3, <5>4, <5>5 DEF WorkInv, Exists
        <4>4. RestInv'
          BY <3>21 DEF BumpSessionVersion, EndOthers, RestInv, row, ghosts
        <4> QED
          BY <4>1, <4>2, <4>3, <4>4 DEF TypesInv
    <3>22. CASE MfaRevokeDevices(c)
        <4>1. HandsInv'
          <5>1. Overlap(c, req[c]) \in [Client -> Requests]
            BY HandLate DEF HandsInv
          <5> QED
            BY <3>22, <5>1 DEF MfaRevokeDevices, Authed, HandsInv, Go, Pc
        <4>2. AccountInv'
          BY <3>22 DEF MfaRevokeDevices, Authed, Count, Overlap, AccountInv, row, ghosts
        <4>3. WorkInv'
          <5>1. \A d \in Client : req'[d].secret = req[d].secret /\ req'[d].password = req[d].password
            BY <3>22, LateSame DEF MfaRevokeDevices, HandsInv
          <5> QED
            BY <3>22, <5>1 DEF MfaRevokeDevices, Authed, HandsInv, WorkInv, Go, Pc, row, Exists
        <4>4. RestInv'
          BY <3>22 DEF MfaRevokeDevices, Authed, Count, Overlap, RestInv, row, ghosts
        <4> QED
          BY <4>1, <4>2, <4>3, <4>4 DEF TypesInv
    <3>23. CASE Logout(c)
        <4>1. HandsInv'
          BY <3>23, NewSessions DEF Logout, DeleteTrustedDeviceByToken, HandsInv, Go, Pc, row, ghosts
        <4>2. AccountInv'
          BY <3>23 DEF Logout, DeleteTrustedDeviceByToken, AccountInv, row, ghosts
        <4>3. WorkInv'
          BY <3>23 DEF Logout, DeleteTrustedDeviceByToken, HandsInv, WorkInv, Go, Exists, Pc, row, ghosts
        <4>4. RestInv'
          BY <3>23 DEF Logout, DeleteTrustedDeviceByToken, RestInv, row, ghosts
        <4> QED
          BY <4>1, <4>2, <4>3, <4>4 DEF TypesInv
    <3>24. ASSUME NEW a \in BOOLEAN, RequirePassword(c, a) PROVE TypesInv'
        <4>5. user' \in Rows /\ user'.password = user.password
          <5>1. user' = [user EXCEPT !.ask = a]
            BY <3>24 DEF RequirePassword, UpdateUserRequirePassword
          <5>2. user \in Rows
            BY DEF AccountInv
          <5>3. a \in BOOLEAN
            BY DEF AccountInv
          <5>4. user' \in Rows
            BY <5>1, <5>2, <5>3, AskRow, Zenon
          <5>5. user'.password = user.password
            BY <5>1, <5>2 DEF Rows
          <5> QED  BY <5>4, <5>5
        <4>1. HandsInv'
          BY <3>24, HandFields, RequestTypes DEF RequirePassword, Respond, Authed, Count, UpdateUserRequirePassword, HandsInv, Go, Pc, row, ghosts
        <4>2. AccountInv'
          BY <3>24, <4>5, PasswordExists DEF RequirePassword, Respond, Authed, Count, UpdateUserRequirePassword, AccountInv, row, ghosts, WorkInv, Exists
        <4>3. WorkInv'
          BY <3>24, <4>5, PasswordExists DEF RequirePassword, Respond, Authed, Count, UpdateUserRequirePassword, HandsInv, WorkInv, Go, Exists, Pc, row, ghosts, AccountInv
        <4>4. RestInv'
          BY <3>24 DEF RequirePassword, Respond, Authed, Count, UpdateUserRequirePassword, RestInv, row, ghosts
        <4> QED
          BY <4>1, <4>2, <4>3, <4>4 DEF TypesInv
    <3>25. CASE Backup(c)
        <4>1. HandsInv'
          BY <3>25, HandFields, RequestTypes DEF Backup, Respond, Authed, HandsInv, Go, Pc, row, ghosts
        <4>2. AccountInv'
          BY <3>25 DEF Backup, Respond, Authed, AccountInv, row, ghosts, WorkInv, Exists, Rows
        <4>3. WorkInv'
          BY <3>25 DEF Backup, Respond, Authed, HandsInv, WorkInv, Go, Exists, Pc, row, ghosts
        <4>4. RestInv'
          BY <3>25 DEF Backup, Respond, Authed, RestInv, row, ghosts
        <4> QED
          BY <4>1, <4>2, <4>3, <4>4 DEF TypesInv
    <3>26. CASE RestoreUsers(c)
        <4>1. HandsInv'
          <5> DEFINE q == Overlap(c, req[c])
          <5>1. q \in [Client -> Requests]
            BY HandLate DEF HandsInv
          <5>2. req' = [d \in Client |-> IF d = c THEN q[d] ELSE [q[d] EXCEPT !.sess = End(@)]]
            BY <3>26 DEF RestoreUsers
          <5>3. req' \in [Client -> Requests]
            <6> HIDE DEF q
            <6> QED  BY <5>1, <5>2, HandEnded
          <5> QED
            BY <3>26, <5>3, EndTyped DEF RestoreUsers, HandsInv, Go, Pc
        <4>2. AccountInv'
          BY <3>26 DEF RestoreUsers, Authed, Count, Overlap, AccountInv, row, ghosts, Rows
        <4>3. WorkInv'
          <5> DEFINE q == Overlap(c, req[c])
          <5>1. q \in [Client -> Requests]
            BY HandLate DEF HandsInv
          <5>2. req' = [d \in Client |-> IF d = c THEN q[d] ELSE [q[d] EXCEPT !.sess = End(@)]]
            BY <3>26 DEF RestoreUsers
          <5>3. \A d \in Client : q[d].secret = req[d].secret /\ q[d].password = req[d].password
            BY LateSame DEF HandsInv
          <5>4. \A d \in Client : req'[d].secret = req[d].secret /\ req'[d].password = req[d].password
            <6>1. \A d \in Client : End(q[d].sess) \in Sessions
              BY <5>1, HandFields, EndTyped
            <6> HIDE DEF q
            <6> QED  BY <5>1, <5>2, <5>3, <6>1, EndedSame
          <5>5. user'.password = backup.password /\ backup.password \in Password
            BY <3>26 DEF RestoreUsers, AccountInv
          <5> QED
            BY <3>26, <5>4, <5>5, PasswordExists DEF RestoreUsers, Authed, HandsInv, WorkInv, Go, Pc, Exists
        <4>4. RestInv'
          <5>1. lowered' \in BOOLEAN
            BY <3>26 DEF RestoreUsers, Lowered
          <5> QED
            BY <3>26, <5>1 DEF RestoreUsers, Count, RestInv
        <4> QED
          BY <4>1, <4>2, <4>3, <4>4 DEF TypesInv
    <3>27. CASE RestoreOthers(c)
        <4>5. user' \in Rows /\ user'.password = user.password
          <5>1. user' = [user EXCEPT !.version = user.version + 1]
            BY <3>27 DEF RestoreOthers, NewVersion
          <5>2. user \in Rows
            BY DEF AccountInv
          <5>3. user.version + 1 \in Nat
            BY CredTyped DEF AccountInv
          <5>4. user' \in Rows
            BY <5>1, <5>2, <5>3, VersionRow, Zenon
          <5>5. user'.password = user.password
            BY <5>1, <5>2 DEF Rows
          <5> QED  BY <5>4, <5>5
        <4>1. HandsInv'
          BY <3>27, EndTyped, HandEnded DEF RestoreOthers, Authed, Count, HandsInv, Go, Pc, row, ghosts
        <4>2. AccountInv'
          BY <3>27, <4>5, PasswordExists DEF RestoreOthers, Authed, Count, AccountInv, row, ghosts, WorkInv, Exists
        <4>3. WorkInv'
          <5>1. \A d \in Client : End(req[d].sess) \in Sessions
            BY HandFields, EndTyped DEF HandsInv
          <5>2. \A d \in Client : d # c => pc'[d] = pc[d] /\ req'[d] = [req[d] EXCEPT !.sess = End(@)]
            BY <3>27 DEF RestoreOthers, Authed, EndOthers, HandsInv, Go
          <5>3. \A d \in Client : d # c => req'[d].secret = req[d].secret /\ req'[d].password = req[d].password
            <6> SUFFICES ASSUME NEW d \in Client, d # c
                         PROVE  req'[d].secret = req[d].secret /\ req'[d].password = req[d].password
              OBVIOUS
            <6> DEFINE e == End(req[d].sess)
            <6>1. req[d] \in Requests /\ req'[d] = [req[d] EXCEPT !.sess = e]
              BY <5>1, <5>2 DEF HandsInv
            <6> HIDE DEF e
            <6> QED  BY <6>1 DEF Requests
          <5>4. pc'[c] \notin {"create", "code", "claim"} /\ user # NoUser
            BY <3>27 DEF RestoreOthers, Authed, HandsInv, WorkInv, Go, Exists
          <5>5. user' # NoUser
            BY <4>5, <5>4, PasswordExists DEF AccountInv
          <5> QED
            BY <5>2, <5>3, <5>4, <5>5 DEF WorkInv, Exists
        <4>4. RestInv'
          BY <3>27 DEF RestoreOthers, Authed, Count, RestInv, row, ghosts
        <4> QED
          BY <4>1, <4>2, <4>3, <4>4 DEF TypesInv
    <3>28. CASE KeepSession(c)
        <4>1. HandsInv'
          BY <3>28, CredTyped, KeptTyped, HandFields, RequestTypes DEF KeepSession, Respond, HandsInv, Go, Pc, row, ghosts, AccountInv
        <4>2. AccountInv'
          BY <3>28 DEF KeepSession, Respond, AccountInv, row, ghosts
        <4>3. WorkInv'
          BY <3>28 DEF KeepSession, Respond, HandsInv, WorkInv, Go, Exists, Pc, row, ghosts
        <4>4. RestInv'
          BY <3>28 DEF KeepSession, Respond, RestInv, row, ghosts
        <4> QED
          BY <4>1, <4>2, <4>3, <4>4 DEF TypesInv
    <3>29. ASSUME NEW d \in Client, OpenTab(c, d) PROVE TypesInv'
        <4>1. HandsInv'
          BY <3>29 DEF OpenTab, HandsInv, Go, Pc, row, ghosts
        <4>2. AccountInv'
          BY <3>29 DEF OpenTab, AccountInv, row, ghosts
        <4>3. WorkInv'
          BY <3>29 DEF OpenTab, HandsInv, WorkInv, Go, Exists, Pc, row, ghosts
        <4>4. RestInv'
          BY <3>29 DEF OpenTab, RestInv, row, ghosts
        <4> QED
          BY <4>1, <4>2, <4>3, <4>4 DEF TypesInv
    <3>90. (\A x \in Codes : x[1] \in Secret /\ x[2] \in Nat) /\ Steps \subseteq Nat
      BY CodesTyped DEF RestInv
    <3> QED
      BY <2>1, <3>90, <3>1, <3>2, <3>3, <3>4, <3>5, <3>6, <3>7, <3>8, <3>9, <3>10, <3>11, <3>12, <3>13, <3>14, <3>15, <3>16, <3>17, <3>18, <3>19, <3>20, <3>21, <3>22, <3>23, <3>24, <3>25, <3>26, <3>27, <3>28, <3>29 DEF ClientStep
  <2>2. CASE Tick
      <3>1. HandsInv'
        BY <2>2 DEF Tick, HandsInv, Go, Pc, row, ghosts
      <3>2. AccountInv'
        BY <2>2 DEF Tick, AccountInv, row, ghosts
      <3>3. WorkInv'
        BY <2>2 DEF Tick, HandsInv, WorkInv, Go, Exists, Pc, row, ghosts
      <3>4. RestInv'
        BY <2>2 DEF Tick, RestInv, row, ghosts
      <3> QED
        BY <3>1, <3>2, <3>3, <3>4 DEF TypesInv
  <2>3. ASSUME NEW d \in Device, ExpireDevice(d) PROVE TypesInv'
      <3>1. HandsInv'
        BY <2>3 DEF ExpireDevice, HandsInv, Go, Pc, row, ghosts
      <3>2. AccountInv'
        BY <2>3 DEF ExpireDevice, AccountInv, row, ghosts
      <3>3. WorkInv'
        BY <2>3 DEF ExpireDevice, HandsInv, WorkInv, Go, Exists, Pc, row, ghosts
      <3>4. RestInv'
        BY <2>3 DEF ExpireDevice, RestInv, row, ghosts
      <3> QED
        BY <3>1, <3>2, <3>3, <3>4 DEF TypesInv
  <2>4. CASE Restart
      <3>1. HandsInv'
        BY <2>4, EndTyped, NewSessions, RequestTypes DEF Restart, StopAndStart, Cookies, Count, HandsInv, Go, Pc, row, ghosts
      <3>2. AccountInv'
        BY <2>4 DEF Restart, StopAndStart, Cookies, Count, AccountInv, row, ghosts
      <3>3. WorkInv'
        BY <2>4 DEF Restart, StopAndStart, Cookies, Count, HandsInv, WorkInv, Go, Exists, Pc, row, ghosts
      <3>4. RestInv'
        BY <2>4 DEF Restart, StopAndStart, Cookies, Count, RestInv, row, ghosts
      <3> QED
        BY <3>1, <3>2, <3>3, <3>4 DEF TypesInv
  <2>5. CASE ResetMfa
      <3>5. user' \in Rows /\ user'.password = user.password
        <4>1. user' = [user EXCEPT !.secret = None, !.lastStep = 0, !.ask = FALSE, !.version = user.version + 1]
          BY <2>5 DEF ResetMfa, NewVersion
        <4>2. user \in Rows
          BY DEF AccountInv
        <4>3. user.version + 1 \in Nat
          BY CredTyped DEF AccountInv
        <4>4. user' \in Rows
          BY <4>1, <4>2, <4>3, ResetRow, Zenon
        <4>5. user'.password = user.password
          BY <4>1, <4>2 DEF Rows
        <4> QED  BY <4>4, <4>5
      <3>1. HandsInv'
        BY <2>5, EndTyped, NewSessions, RequestTypes DEF ResetMfa, StopAndStart, Cookies, Count, HandsInv, Go, Pc, row, ghosts
      <3>2. AccountInv'
        BY <2>5, <3>5, PasswordExists DEF ResetMfa, StopAndStart, Cookies, Count, AccountInv, row, ghosts, WorkInv, Exists
      <3>3. WorkInv'
        BY <2>5, <3>5, PasswordExists DEF ResetMfa, StopAndStart, Cookies, Count, HandsInv, WorkInv, Go, Exists, Pc, row, ghosts, AccountInv
      <3>4. RestInv'
        BY <2>5 DEF ResetMfa, StopAndStart, Cookies, Count, RestInv, row, ghosts
      <3> QED
        BY <3>1, <3>2, <3>3, <3>4 DEF TypesInv
  <2>6. ASSUME NEW p \in Password, ResetPassword(p) PROVE TypesInv'
      <3>5. user' \in Rows /\ user'.password = p
        <4>1. user' = [user EXCEPT !.password = p, !.version = user.version + 1]
          BY <2>6 DEF ResetPassword, ResetUserPassword, NewVersion
        <4>2. user \in Rows
          BY DEF AccountInv
        <4>3. user.version + 1 \in Nat
          BY CredTyped DEF AccountInv
        <4>4. user' \in Rows
          BY <4>1, <4>2, <4>3, PasswordRow, Zenon
        <4>5. user'.password = p
          BY <4>1, <4>2 DEF Rows
        <4> QED  BY <4>4, <4>5
      <3>1. HandsInv'
        BY <2>6, EndTyped, NewSessions, RequestTypes DEF ResetPassword, StopAndStart, Cookies, Count, ResetUserPassword, HandsInv, Go, Pc, row, ghosts
      <3>2. AccountInv'
        BY <2>6, <3>5, PasswordExists DEF ResetPassword, StopAndStart, Cookies, Count, ResetUserPassword, AccountInv, row, ghosts, WorkInv, Exists
      <3>3. WorkInv'
        BY <2>6, <3>5, PasswordExists DEF ResetPassword, StopAndStart, Cookies, Count, ResetUserPassword, HandsInv, WorkInv, Go, Exists, Pc, row, ghosts, AccountInv
      <3>4. RestInv'
        BY <2>6 DEF ResetPassword, StopAndStart, Cookies, Count, ResetUserPassword, RestInv, row, ghosts
      <3> QED
        BY <3>1, <3>2, <3>3, <3>4 DEF TypesInv
  <2>7. CASE UNCHANGED vars
    BY <2>7 DEF vars, row, ghosts, TypesInv, HandsInv, AccountInv, WorkInv, RestInv, Exists
  <2> QED
    BY <2>1, <2>2, <2>3, <2>4, <2>5, <2>6, <2>7 DEF Next, ClientStep
<1> QED
  BY <1>1, <1>2, PTL DEF Spec

\* Every state the server, its clients and its administrator can reach has the
\* types the module declares (app/routes/auth.py, account.py, app/db.py).
THEOREM AccountsTypeCorrect == Spec => []TypeOK
<1>1. TypesInv => TypeOK
  BY DEF TypesInv, HandsInv, AccountInv, RestInv, TypeOK
<1> QED
  BY <1>1, TypesInvHolds, PTL

\* What the properties leave out stays left out.
LEMMA GhostsStay == [Next]_vars => (replaced => replaced') /\ (lowered => lowered')
<1> DEFINE Stay == (replaced => replaced') /\ (lowered => lowered')
<1>1. ASSUME NEW c, NEW p, SendSetup(c, p) PROVE Stay
  BY <1>1 DEF SendSetup, ghosts
<1>2. ASSUME NEW c, CreateFirstUser(c) PROVE Stay
  BY <1>2 DEF CreateFirstUser, ghosts
<1>3. ASSUME NEW c, Greet(c) PROVE Stay
  BY <1>3 DEF Greet, ghosts
<1>4. ASSUME NEW c, NEW t, Login(c, t) PROVE Stay
  BY <1>4 DEF Login, ghosts
<1>5. ASSUME NEW c, NEW s, NEW n, NEW t, SendCode(c, s, n, t) PROVE Stay
  BY <1>5 DEF SendCode, ghosts
<1>6. ASSUME NEW c, CheckCode(c) PROVE Stay
  BY <1>6 DEF CheckCode, ghosts
<1>7. ASSUME NEW c, ClaimTotpStep(c) PROVE Stay
  BY <1>7 DEF ClaimTotpStep, ghosts
<1>8. ASSUME NEW c, NEW d, InsertDevice(c, d) PROVE Stay
  BY <1>8 DEF InsertDevice, ghosts
<1>9. ASSUME NEW c, NEW d, DeleteDevice(c, d) PROVE Stay
  BY <1>9 DEF DeleteDevice, ghosts
<1>10. ASSUME NEW c, Enter(c) PROVE Stay
  BY <1>10 DEF Enter, ghosts
<1>11. ASSUME NEW c, AutoLogin(c) PROVE Stay
  BY <1>11 DEF AutoLogin, ghosts
<1>12. ASSUME NEW c, ViewPage(c) PROVE Stay
  BY <1>12 DEF ViewPage, ghosts
<1>13. ASSUME NEW c, ReauthPassword(c) PROVE Stay
  BY <1>13 DEF ReauthPassword, ghosts
<1>14. ASSUME NEW c, ReauthLapses(c) PROVE Stay
  BY <1>14 DEF ReauthLapses, ghosts
<1>15. ASSUME NEW c, NEW s, NEW n, ReauthCode(c, s, n) PROVE Stay
  BY <1>15 DEF ReauthCode, ghosts
<1>16. ASSUME NEW c, NEW s, NEW n, MfaDisable(c, s, n) PROVE Stay
  BY <1>16 DEF MfaDisable, ghosts
<1>17. ASSUME NEW c, NEW s, MfaSetup(c, s) PROVE Stay
  BY <1>17 DEF MfaSetup, ghosts
<1>18. ASSUME NEW c, NEW n, MfaConfirm(c, n) PROVE Stay
  BY <1>18 DEF MfaConfirm, ghosts, Lowered, SetTotp
<1>19. ASSUME NEW c, TurnOff(c) PROVE Stay
  BY <1>19 DEF TurnOff, ghosts, Lowered, SetTotp
<1>20. ASSUME NEW c, DeleteTrustedDevices(c) PROVE Stay
  BY <1>20 DEF DeleteTrustedDevices, ghosts
<1>21. ASSUME NEW c, BumpSessionVersion(c) PROVE Stay
  BY <1>21 DEF BumpSessionVersion, ghosts
<1>22. ASSUME NEW c, MfaRevokeDevices(c) PROVE Stay
  BY <1>22 DEF MfaRevokeDevices, ghosts
<1>23. ASSUME NEW c, Logout(c) PROVE Stay
  BY <1>23 DEF Logout, ghosts
<1>24. ASSUME NEW c, NEW a, RequirePassword(c, a) PROVE Stay
  BY <1>24 DEF RequirePassword, ghosts
<1>25. ASSUME NEW c, Backup(c) PROVE Stay
  BY <1>25 DEF Backup, ghosts
<1>26. ASSUME NEW c, RestoreUsers(c) PROVE Stay
  BY <1>26 DEF RestoreUsers, ghosts, Lowered, SetTotp
<1>27. ASSUME NEW c, RestoreOthers(c) PROVE Stay
  BY <1>27 DEF RestoreOthers, ghosts
<1>28. ASSUME NEW c, KeepSession(c) PROVE Stay
  BY <1>28 DEF KeepSession, ghosts
<1>29. ASSUME NEW c, NEW d, OpenTab(c, d) PROVE Stay
  BY <1>29 DEF OpenTab, ghosts
<1>30. ASSUME Tick PROVE Stay
  BY <1>30 DEF Tick, ghosts
<1>31. ASSUME NEW d, ExpireDevice(d) PROVE Stay
  BY <1>31 DEF ExpireDevice, ghosts
<1>32. ASSUME Restart PROVE Stay
  BY <1>32 DEF Restart, ghosts, StopAndStart
<1>33. ASSUME ResetMfa PROVE Stay
  BY <1>33 DEF ResetMfa, ghosts, StopAndStart
<1>34. ASSUME NEW p, ResetPassword(p) PROVE Stay
  BY <1>34 DEF ResetPassword, ghosts, StopAndStart
<1> QED
  BY <1>1, <1>2, <1>3, <1>4, <1>5, <1>6, <1>7, <1>8, <1>9, <1>10, <1>11, <1>12, <1>13, <1>14, <1>15, <1>16, <1>17, <1>18, <1>19, <1>20, <1>21, <1>22, <1>23, <1>24, <1>25, <1>26, <1>27, <1>28, <1>29, <1>30, <1>31, <1>32, <1>33, <1>34 DEF Next, vars, ghosts

-------------------------------------------------------------------------------
(* SessionsEnd *)

\* No session is of a version the row has not reached, and an ended one is of
\* an earlier one; so is what a request has in hand, which can still become a
\* cookie.
Dated(s, v) == s.kind = "user" => s.version <= v /\ (s.ended => s.version < v)

CookiesDated == \A c \in Client : Dated(cookie[c], user.version)
HandsDated   == \A c \in Client : Dated(req[c].sess, user.version) /\ req[c].row.version <= user.version
VersionsInv  == replaced \/ (CookiesDated /\ HandsDated)

LEMMA DatedNone == \A v : Dated(NoSession, v) /\ Dated([NoSession EXCEPT !.kind = "pending"], v)
  BY DEF Dated, NoSession

LEMMA DatedNew ==
    \A u \in Rows, v \in Nat, f \in BOOLEAN : u.version <= v => Dated(Session(u, f), v)
  BY DEF Dated, Session, NoSession, Rows

LEMMA DatedOwn == \A u \in Rows, f \in BOOLEAN : Dated(Session(u, f), u.version)
  BY DEF Dated, Session, NoSession, Rows

LEMMA DatedEdit ==
    \A s \in Sessions, v \in Nat : Dated(s, v) => /\ \A f \in BOOLEAN : Dated([s EXCEPT !.fresh = f], v)
                                                  /\ \A x \in Secret : Dated([s EXCEPT !.setup = x], v)
  BY DEF Dated, Sessions

LEMMA DatedGrows ==
    \A s \in Sessions, v \in Nat : Dated(s, v) => Dated(s, v + 1) /\ Dated(End(s), v + 1)
  BY DEF Dated, Sessions, End

LEMMA DatedKept ==
    ASSUME NEW s \in Sessions, NEW v \in Nat, NEW x \in Creds
    PROVE  /\ Dated([s EXCEPT !.version = v, !.cred = x, !.ended = FALSE], v)
           /\ Dated([s EXCEPT !.version = v, !.setup = None, !.cred = x, !.ended = FALSE], v)
<1>1. Dated([s EXCEPT !.version = v, !.cred = x, !.ended = FALSE], v)
  BY DEF Dated, Sessions
<1>2. Dated([s EXCEPT !.version = v, !.setup = None, !.cred = x, !.ended = FALSE], v)
  BY DEF Dated, Sessions
<1> QED
  BY <1>1, <1>2

LEMMA DatedNoRequest == \A v \in Nat : Dated(NoRequest.sess, v) /\ NoRequest.row.version <= v
  BY DatedNone DEF NoRequest, NoUser

LEMMA VersionsInvHolds == Spec => []VersionsInv
<1>1. ASSUME Init PROVE VersionsInv
  BY <1>1, DatedNone, DatedNoRequest DEF Init, VersionsInv, CookiesDated, HandsDated, NoUser
<1>2. TypesInv /\ VersionsInv /\ [Next]_vars => VersionsInv'
  <2> SUFFICES ASSUME HandsInv, AccountInv, WorkInv, RestInv, VersionsInv, [Next]_vars, ~replaced
               PROVE  VersionsInv'
    BY GhostsStay DEF TypesInv, VersionsInv
  <2>0. CookiesDated /\ HandsDated /\ user \in Rows /\ user.version \in Nat /\ user.version + 1 \in Nat
    BY CredTyped DEF VersionsInv, AccountInv
  <2>1. ASSUME NEW c \in Client, ClientStep(c) PROVE VersionsInv'
    <3>1. ASSUME NEW p \in Password, SendSetup(c, p) PROVE VersionsInv'
        <4>1. user'.version = user.version
          BY <3>1 DEF SendSetup, row
        <4>2. CookiesDated'
          BY <2>0, <3>1, <4>1 DEF SendSetup, Go, row, CookiesDated, HandsInv
        <4>3. HandsDated'
          BY <2>0, <3>1, <4>1 DEF SendSetup, Go, row, HandsDated, HandsInv, Requests
        <4> QED
          BY <4>2, <4>3 DEF VersionsInv
    <3>2. CASE CreateFirstUser(c)
        <4>1. user'.version = user.version
          BY <3>2 DEF CreateFirstUser, Refuse, row, AccountInv, Rows, Exists, NoUser
        <4>2. CookiesDated'
          BY <2>0, <3>2, <4>1 DEF CreateFirstUser, Refuse, Go, row, CookiesDated, HandsInv
        <4>3. HandsDated'
          BY <2>0, <3>2, <4>1, DatedNoRequest DEF CreateFirstUser, Refuse, Go, row, HandsDated, HandsInv
        <4> QED
          BY <4>2, <4>3 DEF VersionsInv
    <3>3. CASE Greet(c)
        <4>1. user'.version = user.version
          BY <3>3 DEF Greet, Respond, row
        <4>2. CookiesDated'
          <5>1. Dated(Session(user, TRUE), user.version)
            BY <2>0, DatedOwn
          <5> QED
            BY <2>0, <3>3, <4>1, <5>1 DEF Greet, Respond, Go, row, CookiesDated, HandsInv
        <4>3. HandsDated'
          BY <2>0, <3>3, <4>1, DatedNoRequest DEF Greet, Respond, Go, row, HandsDated, HandsInv
        <4> QED
          BY <4>2, <4>3 DEF VersionsInv
    <3>4. ASSUME NEW t \in BOOLEAN, Login(c, t) PROVE VersionsInv'
        <4>1. user'.version = user.version
          BY <3>4 DEF Login, Respond, row
        <4>2. CookiesDated'
          <5>1. Dated(Session(user, TRUE), user.version)
            BY <2>0, DatedOwn
          <5> QED
            BY <2>0, <3>4, <4>1, <5>1, DatedNone DEF Login, Respond, Go, row, CookiesDated, HandsInv
        <4>3. HandsDated'
          <5> DEFINE s == Session(user, TRUE)
          <5>1. Dated(s, user.version) /\ s \in Sessions
            BY <2>0, DatedOwn, SessionTyped
          <5>2. CASE req' = [req EXCEPT ![c].sess = s, ![c].trust = TRUE]
            <6>1. \A d \in Client : /\ req'[d].sess = (IF d = c THEN s ELSE req[d].sess)
                                     /\ req'[d].row = req[d].row
              <7> HIDE DEF s
              <7> QED  BY <5>1, <5>2 DEF HandsInv, Requests
            <6> QED
              BY <2>0, <4>1, <5>1, <6>1 DEF HandsDated
          <5>3. CASE req' = [req EXCEPT ![c] = NoRequest]
            BY <2>0, <4>1, <5>3, DatedNoRequest DEF HandsDated, HandsInv
          <5> QED
            BY <3>4, <5>2, <5>3 DEF Login, Respond
        <4> QED
          BY <4>2, <4>3 DEF VersionsInv
    <3>5. ASSUME NEW s \in Secret, NEW n \in Nat, NEW t \in BOOLEAN, SendCode(c, s, n, t) PROVE VersionsInv'
        <4>1. user'.version = user.version
          BY <3>5 DEF SendCode, Respond, row
        <4>2. CookiesDated'
          BY <2>0, <3>5, <4>1, DatedNone DEF SendCode, Respond, Go, row, CookiesDated, HandsInv
        <4>3. HandsDated'
          <5>1. CASE user.secret = None
            BY <2>0, <3>5, <4>1, <5>1, DatedNoRequest DEF SendCode, Respond, HandsDated, HandsInv
          <5>2. CASE user.secret # None
            <6>1. req' = [req EXCEPT ![c].row = user, ![c].secret = s, ![c].step = n, ![c].purpose = "mfa", ![c].trust = t]
              BY <3>5, <5>2 DEF SendCode
            <6>2. \A d \in Client : /\ req'[d].sess = req[d].sess
                                     /\ req'[d].row = (IF d = c THEN user ELSE req[d].row)
              BY <2>0, <6>1 DEF HandsInv, Requests
            <6> QED
              BY <2>0, <4>1, <6>2 DEF HandsDated
          <5> QED
            BY <5>1, <5>2
        <4> QED
          BY <4>2, <4>3 DEF VersionsInv
    <3>6. CASE CheckCode(c)
        <4>1. user'.version = user.version
          BY <3>6 DEF CheckCode, Refuse, row
        <4>2. CookiesDated'
          BY <2>0, <3>6, <4>1 DEF CheckCode, Refuse, Go, row, CookiesDated, HandsInv
        <4>3. HandsDated'
          BY <2>0, <3>6, <4>1, DatedNoRequest DEF CheckCode, Refuse, Go, row, HandsDated, HandsInv
        <4> QED
          BY <4>2, <4>3 DEF VersionsInv
    <3>7. CASE ClaimTotpStep(c)
        <4>1. user'.version = user.version
          BY <3>7 DEF ClaimTotpStep, Accept, Respond, Refuse, row, AccountInv, Rows
        <4>2. CookiesDated'
          <5>1. /\ Dated(Session(req[c].row, TRUE), user.version)
                 /\ Dated([req[c].sess EXCEPT !.fresh = TRUE], user.version)
            BY <2>0, DatedNew, DatedEdit, HandFields DEF HandsDated, HandsInv
          <5> QED
            BY <2>0, <3>7, <4>1, <5>1 DEF ClaimTotpStep, Accept, Respond, Refuse, Go, CookiesDated, HandsInv
        <4>3. HandsDated'
          <5> DEFINE s == Session(req[c].row, TRUE)
          <5>1. Dated(s, user.version) /\ s \in Sessions
            BY <2>0, DatedNew, SessionTyped, HandFields DEF HandsDated, HandsInv
          <5>2. CASE req' = [req EXCEPT ![c].sess = s]
            <6>1. \A d \in Client : /\ req'[d].sess = (IF d = c THEN s ELSE req[d].sess)
                                     /\ req'[d].row = req[d].row
              <7> HIDE DEF s
              <7> QED  BY <5>1, <5>2 DEF HandsInv, Requests
            <6> QED
              BY <2>0, <4>1, <5>1, <6>1 DEF HandsDated
          <5>3. CASE req' = [req EXCEPT ![c] = NoRequest]
            BY <2>0, <4>1, <5>3, DatedNoRequest DEF HandsDated, HandsInv
          <5>4. CASE req' = req
            BY <2>0, <4>1, <5>4 DEF HandsDated
          <5> QED
            BY <3>7, <5>2, <5>3, <5>4 DEF ClaimTotpStep, Accept, Respond, Refuse
        <4> QED
          BY <4>2, <4>3 DEF VersionsInv
    <3>8. ASSUME NEW d \in Device, InsertDevice(c, d) PROVE VersionsInv'
        <4>1. user'.version = user.version
          BY <3>8 DEF InsertDevice, Respond, CreateTrustedDevice, row
        <4>2. CookiesDated'
          BY <2>0, <3>8, <4>1 DEF InsertDevice, Respond, CreateTrustedDevice, Go, row, CookiesDated, HandsInv, HandsDated
        <4>3. HandsDated'
          BY <2>0, <3>8, <4>1, DatedNoRequest DEF InsertDevice, Respond, CreateTrustedDevice, Go, row, HandsDated, HandsInv
        <4> QED
          BY <4>2, <4>3 DEF VersionsInv
    <3>9. ASSUME NEW d \in Device, DeleteDevice(c, d) PROVE VersionsInv'
        <4>1. user'.version = user.version
          BY <3>9 DEF DeleteDevice, Respond, DeleteTrustedDevice, Authed, row
        <4>2. CookiesDated'
          BY <2>0, <3>9, <4>1 DEF DeleteDevice, Respond, DeleteTrustedDevice, Authed, Go, row, CookiesDated, HandsInv, HandsDated
        <4>3. HandsDated'
          BY <2>0, <3>9, <4>1, DatedNoRequest DEF DeleteDevice, Respond, DeleteTrustedDevice, Authed, Go, row, HandsDated, HandsInv
        <4> QED
          BY <4>2, <4>3 DEF VersionsInv
    <3>10. CASE Enter(c)
        <4>1. user'.version = user.version
          BY <3>10 DEF Enter, Respond, row
        <4>2. CookiesDated'
          BY <2>0, <3>10, <4>1, DatedNone DEF Enter, Respond, Go, row, CookiesDated, HandsInv
        <4>3. HandsDated'
          <5>1. CASE req' = [req EXCEPT ![c].sess = cookie[c], ![c].row = user]
            <6>1. \A d \in Client : /\ req'[d].sess = (IF d = c THEN cookie[c] ELSE req[d].sess)
                                     /\ req'[d].row = (IF d = c THEN user ELSE req[d].row)
              BY <2>0, <5>1 DEF HandsInv, Requests
            <6> QED
              BY <2>0, <4>1, <6>1 DEF HandsDated, CookiesDated
          <5>2. CASE req' = req \/ req' = [req EXCEPT ![c] = NoRequest]
            BY <2>0, <4>1, <5>2, DatedNoRequest DEF HandsDated, HandsInv
          <5> QED
            BY <3>10, <5>1, <5>2 DEF Enter, Respond
        <4> QED
          BY <4>2, <4>3 DEF VersionsInv
    <3>11. CASE AutoLogin(c)
        <4>1. user'.version = user.version
          BY <3>11 DEF AutoLogin, row
        <4>2. CookiesDated'
          BY <2>0, <3>11, <4>1 DEF AutoLogin, Go, row, CookiesDated, HandsInv
        <4>3. HandsDated'
          <5> DEFINE s == Session(user, FALSE)
          <5>1. Dated(s, user.version) /\ s \in Sessions
            BY <2>0, DatedOwn, SessionTyped
          <5>2. req' = [req EXCEPT ![c].sess = s, ![c].row = user]
            BY <3>11 DEF AutoLogin
          <5>3. \A d \in Client : /\ req'[d].sess = (IF d = c THEN s ELSE req[d].sess)
                                 /\ req'[d].row = (IF d = c THEN user ELSE req[d].row)
            <6> HIDE DEF s
            <6> QED  BY <2>0, <5>1, <5>2 DEF HandsInv, Requests
          <5> QED
            <6> HIDE DEF s
            <6> QED  BY <2>0, <4>1, <5>1, <5>3 DEF HandsDated
        <4> QED
          BY <4>2, <4>3 DEF VersionsInv
    <3>12. CASE ViewPage(c)
        <4>1. user'.version = user.version
          BY <3>12 DEF ViewPage, Respond, Authed, row
        <4>2. CookiesDated'
          BY <2>0, <3>12, <4>1 DEF ViewPage, Respond, Authed, Go, row, CookiesDated, HandsInv, HandsDated
        <4>3. HandsDated'
          BY <2>0, <3>12, <4>1, DatedNoRequest DEF ViewPage, Respond, Authed, Go, row, HandsDated, HandsInv
        <4> QED
          BY <4>2, <4>3 DEF VersionsInv
    <3>13. CASE ReauthPassword(c)
        <4>1. user'.version = user.version
          BY <3>13 DEF ReauthPassword, Respond, Authed, row
        <4>2. CookiesDated'
          <5>1. Dated([req[c].sess EXCEPT !.fresh = TRUE], user.version)
            BY <2>0, DatedEdit, HandFields DEF HandsDated, HandsInv
          <5> QED
            BY <2>0, <3>13, <4>1, <5>1 DEF ReauthPassword, Respond, CookiesDated, HandsInv
        <4>3. HandsDated'
          BY <2>0, <3>13, <4>1, DatedNoRequest DEF ReauthPassword, Respond, Authed, Go, row, HandsDated, HandsInv
        <4> QED
          BY <4>2, <4>3 DEF VersionsInv
    <3>14. CASE ReauthLapses(c)
        <4>1. user'.version = user.version
          BY <3>14 DEF ReauthLapses, row
        <4>2. CookiesDated'
          BY <2>0, <3>14, <4>1, DatedEdit DEF ReauthLapses, Go, row, CookiesDated, HandsInv
        <4>3. HandsDated'
          BY <2>0, <3>14, <4>1 DEF ReauthLapses, Go, row, HandsDated, HandsInv
        <4> QED
          BY <4>2, <4>3 DEF VersionsInv
    <3>15. ASSUME NEW s \in Secret, NEW n \in Nat, ReauthCode(c, s, n) PROVE VersionsInv'
        <4>1. user'.version = user.version
          BY <3>15 DEF ReauthCode, Authed, row
        <4>2. CookiesDated'
          BY <2>0, <3>15, <4>1 DEF ReauthCode, Authed, Go, row, CookiesDated, HandsInv
        <4>3. HandsDated'
          BY <2>0, <3>15, <4>1 DEF ReauthCode, Authed, Go, row, HandsDated, HandsInv, Requests
        <4> QED
          BY <4>2, <4>3 DEF VersionsInv
    <3>16. ASSUME NEW s \in Secret, NEW n \in Nat, MfaDisable(c, s, n) PROVE VersionsInv'
        <4>1. user'.version = user.version
          BY <3>16 DEF MfaDisable, Authed, Count, row
        <4>2. CookiesDated'
          BY <2>0, <3>16, <4>1 DEF MfaDisable, Authed, Count, Go, row, CookiesDated, HandsInv
        <4>3. HandsDated'
          BY <2>0, <3>16, <4>1 DEF MfaDisable, Authed, Count, Go, row, HandsDated, HandsInv, Requests
        <4> QED
          BY <4>2, <4>3 DEF VersionsInv
    <3>17. ASSUME NEW s \in Secret, MfaSetup(c, s) PROVE VersionsInv'
        <4>1. user'.version = user.version
          BY <3>17 DEF MfaSetup, Respond, Authed, row
        <4>2. CookiesDated'
          <5>1. Dated([req[c].sess EXCEPT !.setup = s], user.version)
            BY <2>0, DatedEdit, HandFields DEF HandsDated, HandsInv
          <5> QED
            BY <2>0, <3>17, <4>1, <5>1 DEF MfaSetup, Respond, CookiesDated, HandsInv
        <4>3. HandsDated'
          BY <2>0, <3>17, <4>1, DatedNoRequest DEF MfaSetup, Respond, Authed, Go, row, HandsDated, HandsInv
        <4> QED
          BY <4>2, <4>3 DEF VersionsInv
    <3>18. ASSUME NEW n \in Nat, MfaConfirm(c, n) PROVE VersionsInv'
        <4>1. user'.version = user.version
          BY <3>18 DEF MfaConfirm, Authed, Count, SetTotp, row, AccountInv, Rows
        <4>2. CookiesDated'
          BY <2>0, <3>18, <4>1 DEF MfaConfirm, Authed, Count, SetTotp, Go, row, CookiesDated, HandsInv
        <4>3. HandsDated'
          BY <2>0, <3>18, <4>1 DEF MfaConfirm, Authed, Count, SetTotp, Go, row, HandsDated, HandsInv, Requests
        <4> QED
          BY <4>2, <4>3 DEF VersionsInv
    <3>19. CASE TurnOff(c)
        <4>1. user'.version = user.version
          BY <3>19 DEF TurnOff, SetTotp, row, AccountInv, Rows
        <4>2. CookiesDated'
          BY <2>0, <3>19, <4>1 DEF TurnOff, SetTotp, Go, row, CookiesDated, HandsInv
        <4>3. HandsDated'
          BY <2>0, <3>19, <4>1 DEF TurnOff, SetTotp, Go, row, HandsDated, HandsInv, Requests
        <4> QED
          BY <4>2, <4>3 DEF VersionsInv
    <3>20. CASE DeleteTrustedDevices(c)
        <4>1. user'.version = user.version
          BY <3>20 DEF DeleteTrustedDevices, Overlap, row
        <4>2. CookiesDated'
          BY <2>0, <3>20, <4>1 DEF DeleteTrustedDevices, Overlap, Go, row, CookiesDated, HandsInv
        <4>3. HandsDated'
          BY <2>0, <3>20, <4>1 DEF DeleteTrustedDevices, Overlap, Go, row, HandsDated, HandsInv, Requests
        <4> QED
          BY <4>2, <4>3 DEF VersionsInv
    <3>21. CASE BumpSessionVersion(c)
        <4>1. user'.version = user.version + 1
          BY <3>21 DEF BumpSessionVersion, EndOthers, NewVersion, AccountInv, Rows
        <4>2. CookiesDated'
          <5> DEFINE mine == [req[c].sess EXCEPT !.version = NewVersion, !.setup = None, !.cred = Cred(user), !.ended = FALSE]
          <5>1. Dated(mine, user.version + 1)
            BY <2>0, DatedKept, CredTyped, HandFields DEF HandsInv, NewVersion
          <5>2. \A d \in Client : Dated(End(cookie[d]), user.version + 1)
            BY <2>0, DatedGrows DEF CookiesDated, HandsInv
          <5>3. cookie' = [d \in Client |-> IF d = c THEN mine ELSE End(cookie[d])]
            BY <3>21 DEF BumpSessionVersion, EndOthers
          <5> HIDE DEF mine
          <5> QED
            BY <4>1, <5>1, <5>2, <5>3 DEF CookiesDated
        <4>3. HandsDated'
          <5>1. \A d \in Client : d # c => req'[d] = [req[d] EXCEPT !.sess = End(@)]
            BY <3>21 DEF BumpSessionVersion, EndOthers
          <5>2. req'[c] = NoRequest
            BY <3>21 DEF BumpSessionVersion, EndOthers
          <5>3. \A d \in Client : Dated(req[d].sess, user.version + 1) /\ Dated(End(req[d].sess), user.version + 1)
            BY <2>0, DatedGrows, HandFields DEF HandsDated, HandsInv
          <5>4. \A d \in Client : d # c => req'[d].sess = End(req[d].sess) /\ req'[d].row = req[d].row
            <6> SUFFICES ASSUME NEW d \in Client, d # c
                         PROVE  req'[d].sess = End(req[d].sess) /\ req'[d].row = req[d].row
              OBVIOUS
            <6> DEFINE e == End(req[d].sess)
            <6>1. req[d] \in Requests /\ req'[d] = [req[d] EXCEPT !.sess = e]
              BY <5>1 DEF HandsInv
            <6>2. req'[d].sess = e /\ req'[d].row = req[d].row
              <7> HIDE DEF e
              <7> QED  BY <6>1 DEF Requests
            <6> QED  BY <6>2
          <5>5. \A d \in Client : req[d].row.version <= user.version + 1
            BY <2>0, HandFields, CredTyped DEF HandsDated, HandsInv
          <5> QED
            BY <2>0, <4>1, <5>2, <5>3, <5>4, <5>5, DatedNoRequest DEF HandsDated
        <4> QED
          BY <4>2, <4>3 DEF VersionsInv
    <3>22. CASE MfaRevokeDevices(c)
        <4>1. user'.version = user.version
          BY <3>22 DEF MfaRevokeDevices, Authed, Count, Overlap, row
        <4>2. CookiesDated'
          BY <2>0, <3>22, <4>1 DEF MfaRevokeDevices, Authed, Count, Overlap, Go, row, CookiesDated, HandsInv
        <4>3. HandsDated'
          BY <2>0, <3>22, <4>1 DEF MfaRevokeDevices, Authed, Count, Overlap, Go, row, HandsDated, HandsInv, Requests
        <4> QED
          BY <4>2, <4>3 DEF VersionsInv
    <3>23. CASE Logout(c)
        <4>1. user'.version = user.version
          BY <3>23 DEF Logout, DeleteTrustedDeviceByToken, row
        <4>2. CookiesDated'
          BY <2>0, <3>23, <4>1, DatedNone DEF Logout, DeleteTrustedDeviceByToken, Go, row, CookiesDated, HandsInv
        <4>3. HandsDated'
          BY <2>0, <3>23, <4>1 DEF Logout, DeleteTrustedDeviceByToken, Go, row, HandsDated, HandsInv
        <4> QED
          BY <4>2, <4>3 DEF VersionsInv
    <3>24. ASSUME NEW a \in BOOLEAN, RequirePassword(c, a) PROVE VersionsInv'
        <4>1. user'.version = user.version
          BY <3>24 DEF RequirePassword, Respond, Authed, Count, UpdateUserRequirePassword, row, AccountInv, Rows
        <4>2. CookiesDated'
          BY <2>0, <3>24, <4>1 DEF RequirePassword, Respond, Authed, Count, UpdateUserRequirePassword, Go, row, CookiesDated, HandsInv, HandsDated
        <4>3. HandsDated'
          BY <2>0, <3>24, <4>1, DatedNoRequest DEF RequirePassword, Respond, Authed, Count, UpdateUserRequirePassword, Go, row, HandsDated, HandsInv
        <4> QED
          BY <4>2, <4>3 DEF VersionsInv
    <3>25. CASE Backup(c)
        <4>1. user'.version = user.version
          BY <3>25 DEF Backup, Respond, Authed, row
        <4>2. CookiesDated'
          BY <2>0, <3>25, <4>1 DEF Backup, Respond, Authed, Go, row, CookiesDated, HandsInv, HandsDated
        <4>3. HandsDated'
          BY <2>0, <3>25, <4>1, DatedNoRequest DEF Backup, Respond, Authed, Go, row, HandsDated, HandsInv
        <4> QED
          BY <4>2, <4>3 DEF VersionsInv
    <3>26. CASE RestoreUsers(c)
        BY <3>26 DEF RestoreUsers, VersionsInv
    <3>27. CASE RestoreOthers(c)
        <4>1. user'.version = user.version + 1
          BY <3>27 DEF RestoreOthers, Authed, Count, NewVersion, AccountInv, Rows
        <4>2. CookiesDated'
          BY <2>0, <3>27, <4>1, DatedGrows, HandFields DEF RestoreOthers, Authed, Count, Go, row, CookiesDated, HandsInv
        <4>3. HandsDated'
          <5>1. \A d \in Client : d # c => req'[d] = [req[d] EXCEPT !.sess = End(@)]
            BY <3>27 DEF RestoreOthers
          <5>2. req'[c] = req[c]
            BY <3>27 DEF RestoreOthers
          <5>3. \A d \in Client : Dated(req[d].sess, user.version + 1) /\ Dated(End(req[d].sess), user.version + 1)
            BY <2>0, DatedGrows, HandFields DEF HandsDated, HandsInv
          <5>4. \A d \in Client : d # c => req'[d].sess = End(req[d].sess) /\ req'[d].row = req[d].row
            <6> SUFFICES ASSUME NEW d \in Client, d # c
                         PROVE  req'[d].sess = End(req[d].sess) /\ req'[d].row = req[d].row
              OBVIOUS
            <6> DEFINE e == End(req[d].sess)
            <6>1. req[d] \in Requests /\ req'[d] = [req[d] EXCEPT !.sess = e]
              BY <5>1 DEF HandsInv
            <6>2. req'[d].sess = e /\ req'[d].row = req[d].row
              <7> HIDE DEF e
              <7> QED  BY <6>1 DEF Requests
            <6> QED  BY <6>2
          <5>5. \A d \in Client : req[d].row.version <= user.version + 1
            BY <2>0, HandFields, CredTyped DEF HandsDated, HandsInv
          <5> QED
            BY <2>0, <4>1, <5>2, <5>3, <5>4, <5>5, DatedNoRequest DEF HandsDated
        <4> QED
          BY <4>2, <4>3 DEF VersionsInv
    <3>28. CASE KeepSession(c)
        <4>1. user'.version = user.version
          BY <3>28 DEF KeepSession, Respond, row
        <4>2. CookiesDated'
          BY <2>0, <3>28, <4>1, DatedKept, CredTyped, HandFields DEF KeepSession, Respond, Go, row, CookiesDated, HandsInv
        <4>3. HandsDated'
          BY <2>0, <3>28, <4>1, DatedNoRequest DEF KeepSession, Respond, Go, row, HandsDated, HandsInv
        <4> QED
          BY <4>2, <4>3 DEF VersionsInv
    <3>29. ASSUME NEW d \in Client, OpenTab(c, d) PROVE VersionsInv'
        <4>1. user'.version = user.version
          BY <3>29 DEF OpenTab, row
        <4>2. CookiesDated'
          BY <2>0, <3>29, <4>1 DEF OpenTab, Go, row, CookiesDated, HandsInv
        <4>3. HandsDated'
          BY <2>0, <3>29, <4>1 DEF OpenTab, Go, row, HandsDated, HandsInv
        <4> QED
          BY <4>2, <4>3 DEF VersionsInv
    <3>90. (\A x \in Codes : x[1] \in Secret /\ x[2] \in Nat) /\ Steps \subseteq Nat
      BY CodesTyped DEF RestInv
    <3> QED
      BY <2>1, <3>90, <3>1, <3>2, <3>3, <3>4, <3>5, <3>6, <3>7, <3>8, <3>9, <3>10, <3>11, <3>12, <3>13, <3>14, <3>15, <3>16, <3>17, <3>18, <3>19, <3>20, <3>21, <3>22, <3>23, <3>24, <3>25, <3>26, <3>27, <3>28, <3>29 DEF ClientStep
  <2>2. CASE Tick
      <3>1. user'.version = user.version
        BY <2>2 DEF Tick, row
      <3>2. CookiesDated'
        BY <2>0, <2>2, <3>1 DEF Tick, Go, row, CookiesDated, HandsInv
      <3>3. HandsDated'
        BY <2>0, <2>2, <3>1 DEF Tick, Go, row, HandsDated, HandsInv
      <3> QED
        BY <3>2, <3>3 DEF VersionsInv
  <2>3. ASSUME NEW d \in Device, ExpireDevice(d) PROVE VersionsInv'
      <3>1. user'.version = user.version
        BY <2>3 DEF ExpireDevice, row
      <3>2. CookiesDated'
        BY <2>0, <2>3, <3>1 DEF ExpireDevice, Go, row, CookiesDated, HandsInv
      <3>3. HandsDated'
        BY <2>0, <2>3, <3>1 DEF ExpireDevice, Go, row, HandsDated, HandsInv
      <3> QED
        BY <3>2, <3>3 DEF VersionsInv
  <2>4. CASE Restart
      <3>1. user'.version = user.version
        BY <2>4 DEF Restart, StopAndStart, Cookies, Count, row
      <3>2. CookiesDated'
        BY <2>0, <2>4, <3>1, DatedNone, DatedGrows DEF Restart, StopAndStart, Cookies, Count, Go, row, CookiesDated, HandsInv, AccountInv
      <3>3. HandsDated'
        BY <2>0, <2>4, <3>1, DatedNoRequest DEF Restart, StopAndStart, Cookies, Count, Go, row, HandsDated, HandsInv
      <3> QED
        BY <3>2, <3>3 DEF VersionsInv
  <2>5. CASE ResetMfa
      <3>1. user'.version = user.version + 1
        BY <2>5 DEF ResetMfa, StopAndStart, Cookies, Count, NewVersion, AccountInv, Rows
      <3>2. CookiesDated'
        BY <2>0, <2>5, <3>1, DatedNone, DatedGrows DEF ResetMfa, StopAndStart, Cookies, Count, Go, row, CookiesDated, HandsInv, AccountInv
      <3>3. HandsDated'
        BY <2>0, <2>5, <3>1, DatedNoRequest DEF ResetMfa, StopAndStart, Cookies, Count, Go, row, HandsDated, HandsInv
      <3> QED
        BY <3>2, <3>3 DEF VersionsInv
  <2>6. ASSUME NEW p \in Password, ResetPassword(p) PROVE VersionsInv'
      <3>1. user'.version = user.version + 1
        BY <2>6 DEF ResetPassword, StopAndStart, Cookies, Count, ResetUserPassword, NewVersion, AccountInv, Rows
      <3>2. CookiesDated'
        BY <2>0, <2>6, <3>1, DatedNone, DatedGrows DEF ResetPassword, StopAndStart, Cookies, Count, ResetUserPassword, Go, row, CookiesDated, HandsInv, AccountInv
      <3>3. HandsDated'
        BY <2>0, <2>6, <3>1, DatedNoRequest DEF ResetPassword, StopAndStart, Cookies, Count, ResetUserPassword, Go, row, HandsDated, HandsInv
      <3> QED
        BY <3>2, <3>3 DEF VersionsInv
  <2>7. CASE UNCHANGED vars
    BY <2>7, <2>0 DEF vars, row, ghosts, VersionsInv, CookiesDated, HandsDated
  <2> QED
    BY <2>1, <2>2, <2>3, <2>4, <2>5, <2>6, <2>7 DEF Next, ClientStep
<1> QED
  BY <1>1, <1>2, TypesInvHolds, PTL DEF Spec

\* Until a restore replaces the row, a session that a change of MFA, a revocation
\* or a reset has ended never counts again: the row's session_version only grows,
\* and no request in hand can bring back a session of the version it has now.
THEOREM SessionsEndHolds == Spec => []SessionsEnd
<1>1. TypesInv /\ VersionsInv => SessionsEnd
  BY DEF TypesInv, HandsInv, AccountInv, Rows, Sessions, VersionsInv, CookiesDated, Dated,
         SessionsEnd, EndedStaysEnded, Valid
<1> QED
  BY <1>1, TypesInvHolds, VersionsInvHolds, PTL

-------------------------------------------------------------------------------
(* CodesUsedOnce *)

\* A code that was accepted is not after the last step, while its secret is the
\* row's or that of a code which has passed the check and is still to be claimed.
Claiming(s) == \E c \in Client : pc[c] = "claim" /\ req[c].secret = s
CodesBehind == \A x \in spent : x[1] = user.secret \/ Claiming(x[1]) => x[2] <= user.lastStep
CodesInv    == lowered \/ (~twice /\ CodesBehind)

\* Steps that leave the account's codes alone, and claim none of another secret.
LEMMA CodesKept ==
    ASSUME ~twice, CodesBehind, spent' = spent, twice' = twice,
           user'.secret = user.secret, user'.lastStep = user.lastStep,
           \A d \in Client : pc'[d] = "claim" => \/ pc[d] = "claim" /\ req'[d].secret = req[d].secret
                                                 \/ req'[d].secret = user.secret
    PROVE  CodesInv'
  BY DEF CodesInv, CodesBehind, Claiming

\* Steps that write a secret and a last step, perhaps with the code that goes
\* with them.
LEMMA CodesWritten ==
    ASSUME ~twice, twice' = twice, RestInv, NEW s, NEW n \in Nat, Lowered(s, n),
           spent' = spent \/ spent' = spent \cup {<<s, n>>},
           user'.secret = s, user'.lastStep = n,
           \A d \in Client : pc'[d] = "claim" => pc[d] = "claim" /\ req'[d].secret = req[d].secret
    PROVE  CodesInv'
<1> SUFFICES ASSUME ~lowered', NEW x \in spent', x[1] = s \/ Claiming(x[1])'
             PROVE  x[2] <= n
  BY DEF CodesInv, CodesBehind
<1>1. CASE x = <<s, n>>
  BY <1>1
<1>2. CASE x \in spent
  <2>1. x[1] = s \/ \E c \in Client : pc[c] = "claim" /\ req[c].secret = x[1]
    BY DEF Claiming
  <2>2. ~(x[2] > n)
    BY <1>2, <2>1 DEF Lowered
  <2>3. x[2] \in Nat
    BY <1>2 DEF RestInv
  <2> QED
    BY <2>2, <2>3
<1> QED
  BY <1>1, <1>2

LEMMA CodesInvHolds == Spec => []CodesInv
<1>1. ASSUME Init PROVE CodesInv
  BY <1>1 DEF Init, CodesInv, CodesBehind
<1>2. TypesInv /\ CodesInv /\ [Next]_vars => CodesInv'
  <2> SUFFICES ASSUME HandsInv, AccountInv, WorkInv, RestInv, CodesInv, [Next]_vars, ~lowered
               PROVE  CodesInv'
    BY GhostsStay DEF TypesInv, CodesInv
  <2>0. ~twice /\ CodesBehind
    BY DEF CodesInv
  <2>1. ASSUME NEW c \in Client, ClientStep(c) PROVE CodesInv'
    <3>1. ASSUME NEW p \in Password, SendSetup(c, p) PROVE CodesInv'
        <4>1. user'.secret = user.secret /\ user'.lastStep = user.lastStep /\ spent' = spent /\ twice' = twice
          BY <3>1 DEF SendSetup, row, ghosts
        <4>2. \A k \in Client : pc'[k] = "claim" => \/ pc[k] = "claim" /\ req'[k].secret = req[k].secret
                                                   \/ req'[k].secret = user.secret
          BY <3>1 DEF SendSetup, Go, HandsInv, Requests
        <4> QED
          BY <2>0, <4>1, <4>2, CodesKept
    <3>2. CASE CreateFirstUser(c)
        <4>1. CASE Exists
          BY <2>0, <3>2, <4>1, CodesKept DEF CreateFirstUser, Refuse, Go, HandsInv, ghosts
        <4>2. CASE ~Exists
          <5>1. user'.secret = None /\ spent' = spent /\ twice' = twice /\ pc' = [pc EXCEPT ![c] = "greet"]
            BY <3>2, <4>2 DEF CreateFirstUser, ghosts, Go, NoUser
          <5>2. \A x \in spent : x[1] # None
            BY DEF RestInv
          <5>3. \A d \in Client : pc'[d] # "claim"
            BY <4>2, <5>1 DEF HandsInv, WorkInv
          <5> QED
            BY <2>0, <5>1, <5>2, <5>3 DEF CodesInv, CodesBehind, Claiming
        <4> QED
          BY <4>1, <4>2
    <3>3. CASE Greet(c)
        <4>1. user'.secret = user.secret /\ user'.lastStep = user.lastStep /\ spent' = spent /\ twice' = twice
          BY <3>3 DEF Greet, Respond, row, ghosts
        <4>2. \A k \in Client : pc'[k] = "claim" => \/ pc[k] = "claim" /\ req'[k].secret = req[k].secret
                                                   \/ req'[k].secret = user.secret
          BY <3>3 DEF Greet, Respond, Go, HandsInv
        <4> QED
          BY <2>0, <4>1, <4>2, CodesKept
    <3>4. ASSUME NEW t \in BOOLEAN, Login(c, t) PROVE CodesInv'
        <4>1. user'.secret = user.secret /\ user'.lastStep = user.lastStep /\ spent' = spent /\ twice' = twice
          BY <3>4 DEF Login, Respond, row, ghosts
        <4>2. \A k \in Client : pc'[k] = "claim" => \/ pc[k] = "claim" /\ req'[k].secret = req[k].secret
                                                   \/ req'[k].secret = user.secret
          BY <3>4 DEF Login, Respond, Go, HandsInv, Requests
        <4> QED
          BY <2>0, <4>1, <4>2, CodesKept
    <3>5. ASSUME NEW s \in Secret, NEW n \in Nat, NEW t \in BOOLEAN, SendCode(c, s, n, t) PROVE CodesInv'
        <4>1. user'.secret = user.secret /\ user'.lastStep = user.lastStep /\ spent' = spent /\ twice' = twice
          BY <3>5 DEF SendCode, Respond, row, ghosts
        <4>2. \A k \in Client : pc'[k] = "claim" => \/ pc[k] = "claim" /\ req'[k].secret = req[k].secret
                                                   \/ req'[k].secret = user.secret
          BY <3>5 DEF SendCode, Respond, Go, HandsInv, Requests
        <4> QED
          BY <2>0, <4>1, <4>2, CodesKept
    <3>6. CASE CheckCode(c)
        <4>1. user'.secret = user.secret /\ user'.lastStep = user.lastStep /\ spent' = spent /\ twice' = twice
          BY <3>6 DEF CheckCode, Refuse, row, ghosts
        <4>2. \A k \in Client : pc'[k] = "claim" => \/ pc[k] = "claim" /\ req'[k].secret = req[k].secret
                                                   \/ req'[k].secret = user.secret
          BY <3>6 DEF CheckCode, Refuse, Go, HandsInv, VerifyTotp, TotpSecret
        <4> QED
          BY <2>0, <4>1, <4>2, CodesKept
    <3>7. CASE ClaimTotpStep(c)
        <4>1. CASE ~Claimable(c)
          BY <2>0, <3>7, <4>1, CodesKept DEF ClaimTotpStep, Refuse, Go, HandsInv
        <4>2. CASE Claimable(c)
          <5> DEFINE code == <<req[c].secret, req[c].step>>
          <5>1. /\ user' = [user EXCEPT !.lastStep = req[c].step]
                 /\ spent' = spent \cup {code}
                 /\ twice' = (twice \/ code \in spent)
                 /\ pc[c] = "claim"
            BY <3>7, <4>2 DEF ClaimTotpStep
          <5>2. /\ user.lastStep \in Nat /\ req[c].step \in Nat /\ user.lastStep < req[c].step
                 /\ user'.secret = user.secret /\ user'.lastStep = req[c].step
            BY <4>2, <5>1, HandFields DEF Claimable, AccountInv, Rows, HandsInv
          <5>3. code \notin spent
            BY <2>0, <5>1, <5>2 DEF CodesBehind, Claiming
          <5>4. \A d \in Client : pc'[d] = "claim" => pc[d] = "claim" /\ req'[d].secret = req[d].secret
            BY <3>7 DEF ClaimTotpStep, Accept, Respond, Refuse, Go, HandsInv
          <5>5. \A x \in spent : x[2] \in Nat
            BY DEF RestInv
          <5>6. CodesBehind'
            <6> SUFFICES ASSUME NEW x \in spent', x[1] = user'.secret \/ Claiming(x[1])'
                         PROVE  x[2] <= req[c].step
              BY <5>2 DEF CodesBehind
            <6>1. CASE x = code
              BY <6>1, <5>2
            <6>2. CASE x \in spent
              <7>1. x[1] = user.secret \/ Claiming(x[1])
                BY <5>2, <5>4 DEF Claiming
              <7> QED
                BY <2>0, <6>2, <5>2, <5>5, <7>1 DEF CodesBehind
            <6> QED
              BY <5>1, <6>1, <6>2
          <5> QED
            BY <2>0, <5>1, <5>3, <5>6 DEF CodesInv
        <4> QED
          BY <4>1, <4>2
    <3>8. ASSUME NEW d \in Device, InsertDevice(c, d) PROVE CodesInv'
        <4>1. user'.secret = user.secret /\ user'.lastStep = user.lastStep /\ spent' = spent /\ twice' = twice
          BY <3>8 DEF InsertDevice, Respond, CreateTrustedDevice, row, ghosts
        <4>2. \A k \in Client : pc'[k] = "claim" => \/ pc[k] = "claim" /\ req'[k].secret = req[k].secret
                                                   \/ req'[k].secret = user.secret
          BY <3>8 DEF InsertDevice, Respond, CreateTrustedDevice, Go, HandsInv
        <4> QED
          BY <2>0, <4>1, <4>2, CodesKept
    <3>9. ASSUME NEW d \in Device, DeleteDevice(c, d) PROVE CodesInv'
        <4>1. user'.secret = user.secret /\ user'.lastStep = user.lastStep /\ spent' = spent /\ twice' = twice
          BY <3>9 DEF DeleteDevice, Respond, DeleteTrustedDevice, Authed, row, ghosts
        <4>2. \A k \in Client : pc'[k] = "claim" => \/ pc[k] = "claim" /\ req'[k].secret = req[k].secret
                                                   \/ req'[k].secret = user.secret
          BY <3>9 DEF DeleteDevice, Respond, DeleteTrustedDevice, Authed, Go, HandsInv
        <4> QED
          BY <2>0, <4>1, <4>2, CodesKept
    <3>10. CASE Enter(c)
        <4>1. user'.secret = user.secret /\ user'.lastStep = user.lastStep /\ spent' = spent /\ twice' = twice
          BY <3>10 DEF Enter, Respond, row, ghosts
        <4>2. \A k \in Client : pc'[k] = "claim" => \/ pc[k] = "claim" /\ req'[k].secret = req[k].secret
                                                   \/ req'[k].secret = user.secret
          BY <3>10 DEF Enter, Respond, Go, HandsInv, Requests
        <4> QED
          BY <2>0, <4>1, <4>2, CodesKept
    <3>11. CASE AutoLogin(c)
        <4>1. user'.secret = user.secret /\ user'.lastStep = user.lastStep /\ spent' = spent /\ twice' = twice
          BY <3>11 DEF AutoLogin, row, ghosts
        <4>2. \A k \in Client : pc'[k] = "claim" => \/ pc[k] = "claim" /\ req'[k].secret = req[k].secret
                                                   \/ req'[k].secret = user.secret
          BY <3>11 DEF AutoLogin, Go, HandsInv, Requests
        <4> QED
          BY <2>0, <4>1, <4>2, CodesKept
    <3>12. CASE ViewPage(c)
        <4>1. user'.secret = user.secret /\ user'.lastStep = user.lastStep /\ spent' = spent /\ twice' = twice
          BY <3>12 DEF ViewPage, Respond, Authed, row, ghosts
        <4>2. \A k \in Client : pc'[k] = "claim" => \/ pc[k] = "claim" /\ req'[k].secret = req[k].secret
                                                   \/ req'[k].secret = user.secret
          BY <3>12 DEF ViewPage, Respond, Authed, Go, HandsInv
        <4> QED
          BY <2>0, <4>1, <4>2, CodesKept
    <3>13. CASE ReauthPassword(c)
        <4>1. user'.secret = user.secret /\ user'.lastStep = user.lastStep /\ spent' = spent /\ twice' = twice
          BY <3>13 DEF ReauthPassword, Respond, Authed, row, ghosts
        <4>2. \A k \in Client : pc'[k] = "claim" => \/ pc[k] = "claim" /\ req'[k].secret = req[k].secret
                                                   \/ req'[k].secret = user.secret
          BY <3>13 DEF ReauthPassword, Respond, Authed, Go, HandsInv
        <4> QED
          BY <2>0, <4>1, <4>2, CodesKept
    <3>14. CASE ReauthLapses(c)
        <4>1. user'.secret = user.secret /\ user'.lastStep = user.lastStep /\ spent' = spent /\ twice' = twice
          BY <3>14 DEF ReauthLapses, row, ghosts
        <4>2. \A k \in Client : pc'[k] = "claim" => \/ pc[k] = "claim" /\ req'[k].secret = req[k].secret
                                                   \/ req'[k].secret = user.secret
          BY <3>14 DEF ReauthLapses, Go, HandsInv
        <4> QED
          BY <2>0, <4>1, <4>2, CodesKept
    <3>15. ASSUME NEW s \in Secret, NEW n \in Nat, ReauthCode(c, s, n) PROVE CodesInv'
        <4>1. user'.secret = user.secret /\ user'.lastStep = user.lastStep /\ spent' = spent /\ twice' = twice
          BY <3>15 DEF ReauthCode, Authed, row, ghosts
        <4>2. \A k \in Client : pc'[k] = "claim" => \/ pc[k] = "claim" /\ req'[k].secret = req[k].secret
                                                   \/ req'[k].secret = user.secret
          BY <3>15 DEF ReauthCode, Authed, Go, HandsInv, Requests
        <4> QED
          BY <2>0, <4>1, <4>2, CodesKept
    <3>16. ASSUME NEW s \in Secret, NEW n \in Nat, MfaDisable(c, s, n) PROVE CodesInv'
        <4>1. user'.secret = user.secret /\ user'.lastStep = user.lastStep /\ spent' = spent /\ twice' = twice
          BY <3>16 DEF MfaDisable, Authed, Count, row, ghosts
        <4>2. \A k \in Client : pc'[k] = "claim" => \/ pc[k] = "claim" /\ req'[k].secret = req[k].secret
                                                   \/ req'[k].secret = user.secret
          BY <3>16 DEF MfaDisable, Authed, Count, Go, HandsInv, Requests
        <4> QED
          BY <2>0, <4>1, <4>2, CodesKept
    <3>17. ASSUME NEW s \in Secret, MfaSetup(c, s) PROVE CodesInv'
        <4>1. user'.secret = user.secret /\ user'.lastStep = user.lastStep /\ spent' = spent /\ twice' = twice
          BY <3>17 DEF MfaSetup, Respond, Authed, row, ghosts
        <4>2. \A k \in Client : pc'[k] = "claim" => \/ pc[k] = "claim" /\ req'[k].secret = req[k].secret
                                                   \/ req'[k].secret = user.secret
          BY <3>17 DEF MfaSetup, Respond, Authed, Go, HandsInv
        <4> QED
          BY <2>0, <4>1, <4>2, CodesKept
    <3>18. ASSUME NEW n \in Nat, MfaConfirm(c, n) PROVE CodesInv'
        <4>1. Lowered(req[c].sess.setup, n) /\ twice' = twice
          BY <3>18 DEF MfaConfirm, SetTotp
        <4>2. spent' = spent \cup {<<req[c].sess.setup, n>>}
          BY <3>18 DEF MfaConfirm
        <4>3. user'.secret = req[c].sess.setup /\ user'.lastStep = n
          BY <3>18 DEF MfaConfirm, SetTotp, AccountInv, Rows
        <4>4. \A d \in Client : pc'[d] = "claim" => pc[d] = "claim" /\ req'[d].secret = req[d].secret
          BY <3>18 DEF MfaConfirm, Go, HandsInv
        <4> QED
          BY <2>0, <4>1, <4>2, <4>3, <4>4, CodesWritten
    <3>19. CASE TurnOff(c)
        <4>1. Lowered(None, 0) /\ twice' = twice
          BY <3>19 DEF TurnOff, SetTotp
        <4>2. spent' = spent
          BY <3>19 DEF TurnOff
        <4>3. user'.secret = None /\ user'.lastStep = 0
          BY <3>19 DEF TurnOff, SetTotp, AccountInv, Rows
        <4>4. \A d \in Client : pc'[d] = "claim" => pc[d] = "claim" /\ req'[d].secret = req[d].secret
          BY <3>19 DEF TurnOff, Go, HandsInv
        <4> QED
          BY <2>0, <4>1, <4>2, <4>3, <4>4, CodesWritten
    <3>20. CASE DeleteTrustedDevices(c)
        <4>1. user'.secret = user.secret /\ user'.lastStep = user.lastStep /\ spent' = spent /\ twice' = twice
          BY <3>20 DEF DeleteTrustedDevices, Overlap, row, ghosts
        <4>2. \A k \in Client : pc'[k] = "claim" => \/ pc[k] = "claim" /\ req'[k].secret = req[k].secret
                                                   \/ req'[k].secret = user.secret
          BY <3>20 DEF DeleteTrustedDevices, Overlap, Go, HandsInv, Requests
        <4> QED
          BY <2>0, <4>1, <4>2, CodesKept
    <3>21. CASE BumpSessionVersion(c)
        <4>1. user'.secret = user.secret /\ user'.lastStep = user.lastStep /\ spent' = spent /\ twice' = twice
          BY <3>21 DEF BumpSessionVersion, EndOthers, NewVersion, row, ghosts, AccountInv, Rows
        <4>2. \A k \in Client : pc'[k] = "claim" => \/ pc[k] = "claim" /\ req'[k].secret = req[k].secret
                                                   \/ req'[k].secret = user.secret
          <5>1. \A d \in Client : d # c => pc'[d] = pc[d] /\ req'[d] = [req[d] EXCEPT !.sess = End(@)]
            BY <3>21 DEF BumpSessionVersion, EndOthers, Go, HandsInv
          <5>2. \A d \in Client : d # c => req'[d].secret = req[d].secret
            <6> SUFFICES ASSUME NEW d \in Client, d # c PROVE req'[d].secret = req[d].secret
              OBVIOUS
            <6> DEFINE e == End(req[d].sess)
            <6>1. req[d] \in Requests /\ req'[d] = [req[d] EXCEPT !.sess = e]
              BY <5>1 DEF HandsInv
            <6> HIDE DEF e
            <6> QED  BY <6>1 DEF Requests
          <5>3. pc'[c] # "claim"
            BY <3>21 DEF BumpSessionVersion, EndOthers, Go, HandsInv
          <5> QED
            BY <5>1, <5>2, <5>3
        <4> QED
          BY <2>0, <4>1, <4>2, CodesKept
    <3>22. CASE MfaRevokeDevices(c)
        <4>1. user'.secret = user.secret /\ user'.lastStep = user.lastStep /\ spent' = spent /\ twice' = twice
          BY <3>22 DEF MfaRevokeDevices, Authed, Count, Overlap, row, ghosts
        <4>2. \A k \in Client : pc'[k] = "claim" => \/ pc[k] = "claim" /\ req'[k].secret = req[k].secret
                                                   \/ req'[k].secret = user.secret
          BY <3>22 DEF MfaRevokeDevices, Authed, Count, Overlap, Go, HandsInv, Requests
        <4> QED
          BY <2>0, <4>1, <4>2, CodesKept
    <3>23. CASE Logout(c)
        <4>1. user'.secret = user.secret /\ user'.lastStep = user.lastStep /\ spent' = spent /\ twice' = twice
          BY <3>23 DEF Logout, DeleteTrustedDeviceByToken, row, ghosts
        <4>2. \A k \in Client : pc'[k] = "claim" => \/ pc[k] = "claim" /\ req'[k].secret = req[k].secret
                                                   \/ req'[k].secret = user.secret
          BY <3>23 DEF Logout, DeleteTrustedDeviceByToken, Go, HandsInv
        <4> QED
          BY <2>0, <4>1, <4>2, CodesKept
    <3>24. ASSUME NEW a \in BOOLEAN, RequirePassword(c, a) PROVE CodesInv'
        <4>1. user'.secret = user.secret /\ user'.lastStep = user.lastStep /\ spent' = spent /\ twice' = twice
          BY <3>24 DEF RequirePassword, Respond, Authed, Count, UpdateUserRequirePassword, row, ghosts, AccountInv, Rows
        <4>2. \A k \in Client : pc'[k] = "claim" => \/ pc[k] = "claim" /\ req'[k].secret = req[k].secret
                                                   \/ req'[k].secret = user.secret
          BY <3>24 DEF RequirePassword, Respond, Authed, Count, UpdateUserRequirePassword, Go, HandsInv
        <4> QED
          BY <2>0, <4>1, <4>2, CodesKept
    <3>25. CASE Backup(c)
        <4>1. user'.secret = user.secret /\ user'.lastStep = user.lastStep /\ spent' = spent /\ twice' = twice
          BY <3>25 DEF Backup, Respond, Authed, row, ghosts
        <4>2. \A k \in Client : pc'[k] = "claim" => \/ pc[k] = "claim" /\ req'[k].secret = req[k].secret
                                                   \/ req'[k].secret = user.secret
          BY <3>25 DEF Backup, Respond, Authed, Go, HandsInv
        <4> QED
          BY <2>0, <4>1, <4>2, CodesKept
    <3>26. CASE RestoreUsers(c)
        <4>1. Lowered(backup.secret, 0) /\ twice' = twice
          BY <3>26 DEF RestoreUsers, SetTotp
        <4>2. spent' = spent
          BY <3>26 DEF RestoreUsers
        <4>3. user'.secret = backup.secret /\ user'.lastStep = 0
          BY <3>26 DEF RestoreUsers, SetTotp, AccountInv, Rows
        <4>4. \A d \in Client : pc'[d] = "claim" => pc[d] = "claim" /\ req'[d].secret = req[d].secret
          <5> DEFINE q == Overlap(c, req[c])
          <5>1. q \in [Client -> Requests]
            BY HandLate DEF HandsInv
          <5>2. req' = [d \in Client |-> IF d = c THEN q[d] ELSE [q[d] EXCEPT !.sess = End(@)]]
            BY <3>26 DEF RestoreUsers
          <5>3. \A d \in Client : q[d].secret = req[d].secret
            BY LateSame DEF HandsInv
          <5>4. \A d \in Client : req'[d].secret = req[d].secret
            <6>1. \A d \in Client : End(q[d].sess) \in Sessions
              BY <5>1, HandFields, EndTyped
            <6> HIDE DEF q
            <6> QED  BY <5>1, <5>2, <5>3, <6>1, EndedSame
          <5> QED
            BY <3>26, <5>4 DEF RestoreUsers, Go, HandsInv
        <4> QED
          BY <2>0, <4>1, <4>2, <4>3, <4>4, CodesWritten
    <3>27. CASE RestoreOthers(c)
        <4>1. user'.secret = user.secret /\ user'.lastStep = user.lastStep /\ spent' = spent /\ twice' = twice
          BY <3>27 DEF RestoreOthers, Authed, Count, NewVersion, row, ghosts, AccountInv, Rows
        <4>2. \A k \in Client : pc'[k] = "claim" => \/ pc[k] = "claim" /\ req'[k].secret = req[k].secret
                                                   \/ req'[k].secret = user.secret
          <5>1. \A d \in Client : d # c => pc'[d] = pc[d] /\ req'[d] = [req[d] EXCEPT !.sess = End(@)]
            BY <3>27 DEF RestoreOthers, Go, HandsInv
          <5>2. \A d \in Client : d # c => req'[d].secret = req[d].secret
            <6> SUFFICES ASSUME NEW d \in Client, d # c PROVE req'[d].secret = req[d].secret
              OBVIOUS
            <6> DEFINE e == End(req[d].sess)
            <6>1. req[d] \in Requests /\ req'[d] = [req[d] EXCEPT !.sess = e]
              BY <5>1 DEF HandsInv
            <6> HIDE DEF e
            <6> QED  BY <6>1 DEF Requests
          <5>3. pc'[c] # "claim"
            BY <3>27 DEF RestoreOthers, Go, HandsInv
          <5> QED
            BY <5>1, <5>2, <5>3
        <4> QED
          BY <2>0, <4>1, <4>2, CodesKept
    <3>28. CASE KeepSession(c)
        <4>1. user'.secret = user.secret /\ user'.lastStep = user.lastStep /\ spent' = spent /\ twice' = twice
          BY <3>28 DEF KeepSession, Respond, row, ghosts
        <4>2. \A k \in Client : pc'[k] = "claim" => \/ pc[k] = "claim" /\ req'[k].secret = req[k].secret
                                                   \/ req'[k].secret = user.secret
          BY <3>28 DEF KeepSession, Respond, Go, HandsInv
        <4> QED
          BY <2>0, <4>1, <4>2, CodesKept
    <3>29. ASSUME NEW d \in Client, OpenTab(c, d) PROVE CodesInv'
        <4>1. user'.secret = user.secret /\ user'.lastStep = user.lastStep /\ spent' = spent /\ twice' = twice
          BY <3>29 DEF OpenTab, row, ghosts
        <4>2. \A k \in Client : pc'[k] = "claim" => \/ pc[k] = "claim" /\ req'[k].secret = req[k].secret
                                                   \/ req'[k].secret = user.secret
          BY <3>29 DEF OpenTab, Go, HandsInv
        <4> QED
          BY <2>0, <4>1, <4>2, CodesKept
    <3>90. (\A x \in Codes : x[1] \in Secret /\ x[2] \in Nat) /\ Steps \subseteq Nat
      BY CodesTyped DEF RestInv
    <3> QED
      BY <2>1, <3>90, <3>1, <3>2, <3>3, <3>4, <3>5, <3>6, <3>7, <3>8, <3>9, <3>10, <3>11, <3>12, <3>13, <3>14, <3>15, <3>16, <3>17, <3>18, <3>19, <3>20, <3>21, <3>22, <3>23, <3>24, <3>25, <3>26, <3>27, <3>28, <3>29 DEF ClientStep
  <2>2. CASE Tick
      <3>1. user'.secret = user.secret /\ user'.lastStep = user.lastStep /\ spent' = spent /\ twice' = twice
        BY <2>2 DEF Tick, row, ghosts
      <3>2. \A k \in Client : pc'[k] = "claim" => \/ pc[k] = "claim" /\ req'[k].secret = req[k].secret
                                                 \/ req'[k].secret = user.secret
        BY <2>2 DEF Tick, Go, HandsInv
      <3> QED
        BY <2>0, <3>1, <3>2, CodesKept
  <2>3. ASSUME NEW d \in Device, ExpireDevice(d) PROVE CodesInv'
      <3>1. user'.secret = user.secret /\ user'.lastStep = user.lastStep /\ spent' = spent /\ twice' = twice
        BY <2>3 DEF ExpireDevice, row, ghosts
      <3>2. \A k \in Client : pc'[k] = "claim" => \/ pc[k] = "claim" /\ req'[k].secret = req[k].secret
                                                 \/ req'[k].secret = user.secret
        BY <2>3 DEF ExpireDevice, Go, HandsInv
      <3> QED
        BY <2>0, <3>1, <3>2, CodesKept
  <2>4. CASE Restart
      <3>1. user'.secret = user.secret /\ user'.lastStep = user.lastStep /\ spent' = spent /\ twice' = twice
        BY <2>4 DEF Restart, StopAndStart, Cookies, Count, row, ghosts
      <3>2. \A k \in Client : pc'[k] = "claim" => \/ pc[k] = "claim" /\ req'[k].secret = req[k].secret
                                                 \/ req'[k].secret = user.secret
        BY <2>4 DEF Restart, StopAndStart, Cookies, Count, Go, HandsInv
      <3> QED
        BY <2>0, <3>1, <3>2, CodesKept
  <2>5. CASE ResetMfa
      <3>1. user'.secret = None /\ spent' = spent /\ twice' = twice /\ \A d \in Client : pc'[d] # "claim"
        BY <2>5 DEF ResetMfa, StopAndStart, AccountInv, Rows
      <3>2. \A x \in spent : x[1] # None
        BY DEF RestInv
      <3> QED
        BY <2>0, <3>1, <3>2 DEF CodesInv, CodesBehind, Claiming
  <2>6. ASSUME NEW p \in Password, ResetPassword(p) PROVE CodesInv'
      <3>1. user'.secret = user.secret /\ user'.lastStep = user.lastStep /\ spent' = spent /\ twice' = twice
        BY <2>6 DEF ResetPassword, StopAndStart, Cookies, Count, ResetUserPassword, NewVersion, row, ghosts, AccountInv, Rows
      <3>2. \A k \in Client : pc'[k] = "claim" => \/ pc[k] = "claim" /\ req'[k].secret = req[k].secret
                                                 \/ req'[k].secret = user.secret
        BY <2>6 DEF ResetPassword, StopAndStart, Cookies, Count, ResetUserPassword, Go, HandsInv
      <3> QED
        BY <2>0, <3>1, <3>2, CodesKept
  <2>7. CASE UNCHANGED vars
    BY <2>7 DEF vars, row, ghosts, CodesInv, CodesBehind, Claiming
  <2> QED
    BY <2>1, <2>2, <2>3, <2>4, <2>5, <2>6, <2>7 DEF Next, ClientStep
<1> QED
  BY <1>1, <1>2, TypesInvHolds, PTL DEF Spec

\* claim_totp_step decides between requests that all passed verify_totp: unless a
\* confirmation or a restore has lowered totp_last_step, no one-time code is
\* accepted twice.
THEOREM CodesUsedOnceHolds == Spec => []CodesUsedOnce
<1>1. CodesInv => CodesUsedOnce
  BY DEF CodesInv, CodesUsedOnce
<1> QED
  BY <1>1, CodesInvHolds, PTL

-------------------------------------------------------------------------------
(* Before the account, and who signs in *)

\* The account stays once it is there, and before that there is no session
\* and no trusted device.
LEMMA ExistsStays == ASSUME TypesInv, [Next]_vars, Exists PROVE Exists'
<1>0. user' = NoUser => user'.password = None
  BY DEF NoUser
<1>01. user.password \in Password /\ None \notin Password /\ user \in Rows
  <2>1. user.password \in Password /\ user \in Rows
    BY DEF TypesInv, AccountInv, Exists
  <2> QED  BY <2>1
<1>02. user'.password = user.password \/ user'.password \in Password => Exists'
  BY <1>0, <1>01 DEF Exists
<1>1. ASSUME NEW c \in Client, NEW p, SendSetup(c, p) PROVE Exists'
  BY <1>1 DEF SendSetup, Exists, row
<1>2. ASSUME NEW c \in Client, CreateFirstUser(c) PROVE Exists'
  BY <1>2 DEF CreateFirstUser, Exists
<1>3. ASSUME NEW c \in Client, Greet(c) PROVE Exists'
  BY <1>3 DEF Greet, Exists, row
<1>4. ASSUME NEW c \in Client, NEW t, Login(c, t) PROVE Exists'
  BY <1>4 DEF Login, Exists, row
<1>5. ASSUME NEW c \in Client, NEW s, NEW n, NEW t, SendCode(c, s, n, t) PROVE Exists'
  BY <1>5 DEF SendCode, Exists, row
<1>6. ASSUME NEW c \in Client, CheckCode(c) PROVE Exists'
  BY <1>6 DEF CheckCode, Exists, row
<1>7. ASSUME NEW c \in Client, ClaimTotpStep(c) PROVE Exists'
  BY <1>7, <1>01, <1>02 DEF ClaimTotpStep, Rows
<1>8. ASSUME NEW c \in Client, NEW d, InsertDevice(c, d) PROVE Exists'
  BY <1>8 DEF InsertDevice, Exists, row
<1>9. ASSUME NEW c \in Client, NEW d, DeleteDevice(c, d) PROVE Exists'
  BY <1>9 DEF DeleteDevice, Exists, row
<1>10. ASSUME NEW c \in Client, Enter(c) PROVE Exists'
  BY <1>10 DEF Enter, Exists, row
<1>11. ASSUME NEW c \in Client, AutoLogin(c) PROVE Exists'
  BY <1>11 DEF AutoLogin, Exists, row
<1>12. ASSUME NEW c \in Client, ViewPage(c) PROVE Exists'
  BY <1>12 DEF ViewPage, Exists, row
<1>13. ASSUME NEW c \in Client, ReauthPassword(c) PROVE Exists'
  BY <1>13 DEF ReauthPassword, Exists, row
<1>14. ASSUME NEW c \in Client, ReauthLapses(c) PROVE Exists'
  BY <1>14 DEF ReauthLapses, Exists, row
<1>15. ASSUME NEW c \in Client, NEW s, NEW n, ReauthCode(c, s, n) PROVE Exists'
  BY <1>15 DEF ReauthCode, Exists, row
<1>16. ASSUME NEW c \in Client, NEW s, NEW n, MfaDisable(c, s, n) PROVE Exists'
  BY <1>16 DEF MfaDisable, Exists, row
<1>17. ASSUME NEW c \in Client, NEW s, MfaSetup(c, s) PROVE Exists'
  BY <1>17 DEF MfaSetup, Exists, row
<1>18. ASSUME NEW c \in Client, NEW n, MfaConfirm(c, n) PROVE Exists'
  BY <1>18, <1>01, <1>02 DEF MfaConfirm, SetTotp, Rows
<1>19. ASSUME NEW c \in Client, TurnOff(c) PROVE Exists'
  BY <1>19, <1>01, <1>02 DEF TurnOff, SetTotp, Rows
<1>20. ASSUME NEW c \in Client, DeleteTrustedDevices(c) PROVE Exists'
  BY <1>20 DEF DeleteTrustedDevices, Exists, row
<1>21. ASSUME NEW c \in Client, BumpSessionVersion(c) PROVE Exists'
  BY <1>21, <1>01, <1>02 DEF BumpSessionVersion, Rows
<1>22. ASSUME NEW c \in Client, MfaRevokeDevices(c) PROVE Exists'
  BY <1>22 DEF MfaRevokeDevices, Exists, row
<1>23. ASSUME NEW c \in Client, Logout(c) PROVE Exists'
  BY <1>23 DEF Logout, Exists, row
<1>24. ASSUME NEW c \in Client, NEW a, RequirePassword(c, a) PROVE Exists'
  BY <1>24, <1>01, <1>02 DEF RequirePassword, UpdateUserRequirePassword, Rows
<1>25. ASSUME NEW c \in Client, Backup(c) PROVE Exists'
  BY <1>25 DEF Backup, Exists, row
<1>26. ASSUME NEW c \in Client, RestoreUsers(c) PROVE Exists'
  BY <1>26, <1>01, <1>02 DEF RestoreUsers, Rows, TypesInv, AccountInv
<1>27. ASSUME NEW c \in Client, RestoreOthers(c) PROVE Exists'
  BY <1>27, <1>01, <1>02 DEF RestoreOthers, Rows
<1>28. ASSUME NEW c \in Client, KeepSession(c) PROVE Exists'
  BY <1>28 DEF KeepSession, Exists, row
<1>29. ASSUME NEW c \in Client, NEW d \in Client, OpenTab(c, d) PROVE Exists'
  BY <1>29 DEF OpenTab, Exists, row
<1>30. ASSUME Tick PROVE Exists'
  BY <1>30 DEF Tick, Exists, row
<1>31. ASSUME NEW d, ExpireDevice(d) PROVE Exists'
  BY <1>31 DEF ExpireDevice, Exists, row
<1>32. ASSUME Restart PROVE Exists'
  BY <1>32 DEF Restart, Exists, row
<1>33. ASSUME ResetMfa PROVE Exists'
  BY <1>33, <1>01, <1>02 DEF ResetMfa, Rows
<1>34. ASSUME NEW p \in Password, ResetPassword(p) PROVE Exists'
  BY <1>34, <1>01, <1>02 DEF ResetPassword, ResetUserPassword, Rows
<1>90. CASE UNCHANGED vars
  BY <1>90 DEF vars, row, Exists
<1> QED
  BY <1>90, <1>1, <1>2, <1>3, <1>4, <1>5, <1>6, <1>7, <1>8, <1>9, <1>10, <1>11, <1>12, <1>13, <1>14, <1>15, <1>16, <1>17, <1>18, <1>19, <1>20, <1>21, <1>22, <1>23, <1>24, <1>25, <1>26, <1>27, <1>28, <1>29, <1>30, <1>31, <1>32, <1>33, <1>34 DEF Next

\* What a restore does to the requests in hand
LEMMA RestoredHands ==
    ASSUME HandsInv, NEW c \in Client, RestoreUsers(c), NEW d \in Client
    PROVE  /\ req'[d] \in Requests
           /\ req'[d].row = req[d].row /\ req'[d].trust = req[d].trust /\ req'[d].purpose = req[d].purpose
           /\ req'[d].sess = (IF d = c THEN req[d].sess ELSE End(req[d].sess))
           /\ req'[d].late = (req[d].late \/ (d # c /\ req[d].trust))
<1> DEFINE e == End(req[d].sess)
           q == [req[d] EXCEPT !.late = @ \/ req[d].trust]
<1>1. req[d] \in Requests /\ e \in Sessions
  BY HandFields, EndTyped DEF HandsInv
<1>2. /\ q \in Requests /\ q.row = req[d].row /\ q.trust = req[d].trust /\ q.purpose = req[d].purpose
      /\ q.sess = req[d].sess /\ q.late = (req[d].late \/ req[d].trust)
  BY <1>1 DEF Requests
<1>3. req'[d] = IF d = c THEN req[d] ELSE [q EXCEPT !.sess = e]
  BY <1>2 DEF RestoreUsers, Overlap
<1> HIDE DEF e, q
<1>4. CASE d = c
  BY <1>1, <1>3, <1>4, HandFields
<1>5. CASE d # c
  <2>1. /\ [q EXCEPT !.sess = e] \in Requests
        /\ [q EXCEPT !.sess = e].row = q.row /\ [q EXCEPT !.sess = e].trust = q.trust
        /\ [q EXCEPT !.sess = e].purpose = q.purpose
        /\ [q EXCEPT !.sess = e].sess = e /\ [q EXCEPT !.sess = e].late = q.late
    BY <1>1, <1>2 DEF Requests
  <2> QED  BY <1>2, <1>3, <1>5, <2>1 DEF e
<1> QED
  BY <1>4, <1>5

NobodyInv == Exists \/ /\ devices = {}
                       /\ \A c \in Client : /\ cookie[c].kind # "user" /\ req[c].sess.kind # "user"
                                            /\ req[c].row = NoUser

LEMMA NobodyInvHolds == Spec => []NobodyInv
<1>1. ASSUME Init PROVE NobodyInv
  BY <1>1 DEF Init, NobodyInv, NoSession, NoRequest
<1>2. TypesInv /\ NobodyInv /\ [Next]_vars => NobodyInv'
  <2> SUFFICES ASSUME TypesInv, NobodyInv, [Next]_vars, ~Exists'
               PROVE  NobodyInv'
    BY DEF NobodyInv
  <2>0. HandsInv /\ WorkInv /\ user = NoUser /\ user.secret = None /\ ~Exists
    BY ExistsStays DEF TypesInv, Exists, NoUser
  <2>1. devices = {} /\ \A c \in Client : /\ cookie[c].kind # "user" /\ req[c].sess.kind # "user"
                                         /\ req[c].row = NoUser
    BY <2>0 DEF NobodyInv
  <2>2. NoSession.kind # "user" /\ NoRequest.sess.kind # "user" /\ NoRequest.row = NoUser
    BY DEF NoSession, NoRequest
  <2>3. \A s \in Sessions : End(s).kind = s.kind /\ [s EXCEPT !.fresh = FALSE].kind = s.kind
    BY DEF End, Sessions
  <2>4. ASSUME NEW c \in Client, pc[c] \notin {"idle", "create"} PROVE FALSE
    BY <2>0, <2>4 DEF WorkInv
  <2>5. ASSUME NEW c \in Client, NEW p, SendSetup(c, p) PROVE NobodyInv'
    <3>1. \A d \in Client : req'[d].sess = req[d].sess /\ req'[d].row = req[d].row
      BY <2>0, <2>5 DEF SendSetup, HandsInv, Requests
    <3> QED  BY <2>1, <2>5, <3>1 DEF SendSetup, NobodyInv, row
  <2>6. ASSUME NEW c \in Client, CreateFirstUser(c) PROVE NobodyInv'
    <3>1. user' = [NoUser EXCEPT !.password = req[c].password] /\ req[c].password \in Password
      BY <2>0, <2>6 DEF CreateFirstUser, WorkInv
    <3> QED  BY <2>0, <3>1, NewRows, PasswordExists DEF Exists
  <2>7. ASSUME NEW c \in Client, NEW s, NEW n, NEW t, SendCode(c, s, n, t) PROVE NobodyInv'
    BY <2>0, <2>1, <2>2, <2>7 DEF SendCode, Respond, HandsInv, NobodyInv, row
  <2>8. ASSUME NEW c \in Client, ReauthLapses(c) PROVE NobodyInv'
    BY <2>0, <2>1, <2>3, <2>8 DEF ReauthLapses, HandsInv, NobodyInv, row
  <2>9. ASSUME NEW c \in Client, Logout(c) PROVE NobodyInv'
    BY <2>0, <2>1, <2>2, <2>9 DEF Logout, DeleteTrustedDeviceByToken, HandsInv, NobodyInv
  <2>10. ASSUME NEW c \in Client, NEW d \in Client, OpenTab(c, d) PROVE NobodyInv'
    BY <2>0, <2>1, <2>10 DEF OpenTab, HandsInv, NobodyInv, row
  <2>11. CASE Tick
    BY <2>1, <2>11 DEF Tick, NobodyInv, row
  <2>12. CASE Restart
    BY <2>0, <2>1, <2>2, <2>12 DEF Restart, StopAndStart, Cookies, NobodyInv, row
  <2>13. CASE UNCHANGED vars
    BY <2>1, <2>13 DEF vars, row, NobodyInv
  <2>14. ASSUME NEW d, ExpireDevice(d) PROVE FALSE
    BY <2>1, <2>14 DEF ExpireDevice
  <2>15. ASSUME NEW c \in Client, Greet(c) PROVE FALSE
    BY <2>0, <2>4, <2>15 DEF Greet
  <2>16. ASSUME NEW c \in Client, NEW t, Login(c, t) PROVE FALSE
    BY <2>0, <2>4, <2>16 DEF Login
  <2>17. ASSUME NEW c \in Client, CheckCode(c) PROVE FALSE
    BY <2>0, <2>4, <2>17 DEF CheckCode
  <2>18. ASSUME NEW c \in Client, ClaimTotpStep(c) PROVE FALSE
    BY <2>0, <2>4, <2>18 DEF ClaimTotpStep
  <2>19. ASSUME NEW c \in Client, NEW d, InsertDevice(c, d) PROVE FALSE
    BY <2>0, <2>4, <2>19 DEF InsertDevice
  <2>20. ASSUME NEW c \in Client, NEW d, DeleteDevice(c, d) PROVE FALSE
    BY <2>0, <2>4, <2>20 DEF DeleteDevice, Authed
  <2>21. ASSUME NEW c \in Client, Enter(c) PROVE FALSE
    BY <2>0, <2>4, <2>21 DEF Enter
  <2>22. ASSUME NEW c \in Client, AutoLogin(c) PROVE FALSE
    BY <2>0, <2>4, <2>22 DEF AutoLogin
  <2>23. ASSUME NEW c \in Client, ViewPage(c) PROVE FALSE
    BY <2>0, <2>4, <2>23 DEF ViewPage, Authed
  <2>24. ASSUME NEW c \in Client, ReauthPassword(c) PROVE FALSE
    BY <2>0, <2>4, <2>24 DEF ReauthPassword, Authed
  <2>25. ASSUME NEW c \in Client, NEW s, NEW n, ReauthCode(c, s, n) PROVE FALSE
    BY <2>0, <2>4, <2>25 DEF ReauthCode, Authed
  <2>26. ASSUME NEW c \in Client, NEW s, NEW n, MfaDisable(c, s, n) PROVE FALSE
    BY <2>0, <2>4, <2>26 DEF MfaDisable, Authed
  <2>27. ASSUME NEW c \in Client, NEW s, MfaSetup(c, s) PROVE FALSE
    BY <2>0, <2>4, <2>27 DEF MfaSetup, Authed
  <2>28. ASSUME NEW c \in Client, NEW n, MfaConfirm(c, n) PROVE FALSE
    BY <2>0, <2>4, <2>28 DEF MfaConfirm, Authed
  <2>29. ASSUME NEW c \in Client, TurnOff(c) PROVE FALSE
    BY <2>0, <2>4, <2>29 DEF TurnOff
  <2>30. ASSUME NEW c \in Client, DeleteTrustedDevices(c) PROVE FALSE
    BY <2>0, <2>4, <2>30 DEF DeleteTrustedDevices
  <2>31. ASSUME NEW c \in Client, BumpSessionVersion(c) PROVE FALSE
    BY <2>0, <2>4, <2>31 DEF BumpSessionVersion
  <2>32. ASSUME NEW c \in Client, MfaRevokeDevices(c) PROVE FALSE
    BY <2>0, <2>4, <2>32 DEF MfaRevokeDevices, Authed
  <2>33. ASSUME NEW c \in Client, NEW a, RequirePassword(c, a) PROVE FALSE
    BY <2>0, <2>4, <2>33 DEF RequirePassword, Authed
  <2>34. ASSUME NEW c \in Client, Backup(c) PROVE FALSE
    BY <2>0, <2>4, <2>34 DEF Backup, Authed
  <2>35. ASSUME NEW c \in Client, RestoreUsers(c) PROVE FALSE
    BY <2>0, <2>4, <2>35 DEF RestoreUsers, Authed
  <2>36. ASSUME NEW c \in Client, RestoreOthers(c) PROVE FALSE
    BY <2>0, <2>4, <2>36 DEF RestoreOthers, Authed
  <2>37. ASSUME NEW c \in Client, KeepSession(c) PROVE FALSE
    BY <2>0, <2>4, <2>37 DEF KeepSession
  <2>38. ASSUME ResetMfa PROVE FALSE
    BY <2>0, <2>4, <2>38 DEF ResetMfa
  <2>39. ASSUME NEW p, ResetPassword(p) PROVE FALSE
    BY <2>0, <2>4, <2>39 DEF ResetPassword
  <2> QED
    BY <2>5, <2>6, <2>7, <2>8, <2>9, <2>10, <2>11, <2>12, <2>13, <2>14, <2>15, <2>16, <2>17, <2>18, <2>19, <2>20, <2>21, <2>22, <2>23, <2>24, <2>25, <2>26, <2>27, <2>28, <2>29, <2>30, <2>31, <2>32, <2>33, <2>34, <2>35, <2>36, <2>37, <2>38, <2>39 DEF Next
<1> QED
  BY <1>1, <1>2, TypesInvHolds, PTL DEF Spec

\* Who has a code to check, or a page to serve, has read the account's row.
RowsRead == \A c \in Client : pc[c] \in {"code", "claim", "authed"} => req[c].row # NoUser

LEMMA RowsReadHolds == Spec => []RowsRead
<1>1. ASSUME Init PROVE RowsRead
  BY <1>1 DEF Init, RowsRead
<1>2. TypesInv /\ RowsRead /\ [Next]_vars => RowsRead'
  <2> SUFFICES ASSUME HandsInv, WorkInv, AccountInv, RowsRead, [Next]_vars
               PROVE  RowsRead'
    BY DEF TypesInv
  <2> USE DEF HandsInv
  <2>1. ASSUME NEW c \in Client, NEW p, SendSetup(c, p) PROVE RowsRead'
    BY <2>1 DEF SendSetup, Go, RowsRead, Requests
  <2>2. ASSUME NEW c \in Client, CreateFirstUser(c) PROVE RowsRead'
    BY <2>2 DEF CreateFirstUser, Refuse, Go, RowsRead
  <2>3. ASSUME NEW c \in Client, Greet(c) PROVE RowsRead'
    BY <2>3 DEF Greet, Respond, Go, RowsRead
  <2>4. ASSUME NEW c \in Client, NEW t, Login(c, t) PROVE RowsRead'
    BY <2>4 DEF Login, Respond, Go, RowsRead, Requests
  <2>5. ASSUME NEW c \in Client, NEW s, NEW n, NEW t, SendCode(c, s, n, t) PROVE RowsRead'
    <3>1. CASE user.secret = None
      BY <2>5, <3>1 DEF SendCode, Respond, Go, RowsRead
    <3>2. CASE user.secret # None
      <4>1. user # NoUser /\ user \in Rows
        BY <3>2 DEF NoUser, AccountInv, TypesInv
      <4>2. \A d \in Client : req'[d].row = IF d = c THEN user ELSE req[d].row
        BY <2>5, <3>2 DEF SendCode, Requests
      <4> QED  BY <2>5, <3>2, <4>1, <4>2 DEF SendCode, RowsRead, Go
    <3> QED  BY <3>1, <3>2
  <2>6. ASSUME NEW c \in Client, CheckCode(c) PROVE RowsRead'
    BY <2>6 DEF CheckCode, Refuse, Go, RowsRead
  <2>7. ASSUME NEW c \in Client, ClaimTotpStep(c) PROVE RowsRead'
    BY <2>7 DEF ClaimTotpStep, Accept, Respond, Refuse, Go, RowsRead, Requests
  <2>8. ASSUME NEW c \in Client, NEW d, InsertDevice(c, d) PROVE RowsRead'
    BY <2>8 DEF InsertDevice, Respond, Go, RowsRead
  <2>9. ASSUME NEW c \in Client, NEW d, DeleteDevice(c, d) PROVE RowsRead'
    BY <2>9 DEF DeleteDevice, Respond, Go, Authed, RowsRead
  <2>10. ASSUME NEW c \in Client, Enter(c) PROVE RowsRead'
    BY <2>10 DEF Enter, Respond, Go, RowsRead, Requests, Exists, WorkInv
  <2>11. ASSUME NEW c \in Client, AutoLogin(c) PROVE RowsRead'
    BY <2>11 DEF AutoLogin, Go, RowsRead, Requests, Exists, WorkInv
  <2>12. ASSUME NEW c \in Client, ViewPage(c) PROVE RowsRead'
    BY <2>12 DEF ViewPage, Respond, Go, Authed, RowsRead
  <2>13. ASSUME NEW c \in Client, ReauthPassword(c) PROVE RowsRead'
    BY <2>13 DEF ReauthPassword, Respond, Go, Authed, RowsRead
  <2>14. ASSUME NEW c \in Client, ReauthLapses(c) PROVE RowsRead'
    BY <2>14 DEF ReauthLapses, RowsRead
  <2>15. ASSUME NEW c \in Client, NEW s, NEW n, ReauthCode(c, s, n) PROVE RowsRead'
    BY <2>15 DEF ReauthCode, Go, Authed, RowsRead, Requests
  <2>16. ASSUME NEW c \in Client, NEW s, NEW n, MfaDisable(c, s, n) PROVE RowsRead'
    BY <2>16 DEF MfaDisable, Go, Authed, RowsRead, Requests
  <2>17. ASSUME NEW c \in Client, NEW s, MfaSetup(c, s) PROVE RowsRead'
    BY <2>17 DEF MfaSetup, Respond, Go, Authed, RowsRead
  <2>18. ASSUME NEW c \in Client, NEW n, MfaConfirm(c, n) PROVE RowsRead'
    BY <2>18 DEF MfaConfirm, Go, Authed, RowsRead
  <2>19. ASSUME NEW c \in Client, TurnOff(c) PROVE RowsRead'
    BY <2>19 DEF TurnOff, Go, RowsRead
  <2>20. ASSUME NEW c \in Client, DeleteTrustedDevices(c) PROVE RowsRead'
    BY <2>20 DEF DeleteTrustedDevices, Overlap, Go, RowsRead, Requests
  <2>21. ASSUME NEW c \in Client, BumpSessionVersion(c) PROVE RowsRead'
    BY <2>21 DEF BumpSessionVersion, EndOthers, Go, RowsRead, Requests
  <2>22. ASSUME NEW c \in Client, MfaRevokeDevices(c) PROVE RowsRead'
    BY <2>22 DEF MfaRevokeDevices, Overlap, Go, Authed, RowsRead, Requests
  <2>23. ASSUME NEW c \in Client, Logout(c) PROVE RowsRead'
    BY <2>23 DEF Logout, RowsRead
  <2>24. ASSUME NEW c \in Client, NEW a, RequirePassword(c, a) PROVE RowsRead'
    BY <2>24 DEF RequirePassword, Respond, Go, Authed, RowsRead
  <2>25. ASSUME NEW c \in Client, Backup(c) PROVE RowsRead'
    BY <2>25 DEF Backup, Respond, Go, Authed, RowsRead
  <2>26. ASSUME NEW c \in Client, RestoreUsers(c) PROVE RowsRead'
    BY <2>26, RestoredHands DEF RestoreUsers, Go, Authed, RowsRead
  <2>27. ASSUME NEW c \in Client, RestoreOthers(c) PROVE RowsRead'
    BY <2>27 DEF RestoreOthers, Go, Authed, RowsRead, Requests
  <2>28. ASSUME NEW c \in Client, KeepSession(c) PROVE RowsRead'
    BY <2>28 DEF KeepSession, Respond, Go, RowsRead
  <2>29. ASSUME NEW c \in Client, NEW d \in Client, OpenTab(c, d) PROVE RowsRead'
    BY <2>29 DEF OpenTab, RowsRead
  <2>30. ASSUME Tick PROVE RowsRead'
    BY <2>30 DEF Tick, RowsRead
  <2>31. ASSUME NEW d, ExpireDevice(d) PROVE RowsRead'
    BY <2>31 DEF ExpireDevice, RowsRead
  <2>32. ASSUME Restart PROVE RowsRead'
    BY <2>32 DEF Restart, StopAndStart, RowsRead
  <2>33. ASSUME ResetMfa PROVE RowsRead'
    BY <2>33 DEF ResetMfa, StopAndStart, RowsRead
  <2>34. ASSUME NEW p, ResetPassword(p) PROVE RowsRead'
    BY <2>34 DEF ResetPassword, StopAndStart, RowsRead
  <2>90. CASE UNCHANGED vars
    BY <2>90 DEF vars, RowsRead
  <2> QED
    BY <2>90, <2>1, <2>2, <2>3, <2>4, <2>5, <2>6, <2>7, <2>8, <2>9, <2>10, <2>11, <2>12, <2>13, <2>14, <2>15, <2>16, <2>17, <2>18, <2>19, <2>20, <2>21, <2>22, <2>23, <2>24, <2>25, <2>26, <2>27, <2>28, <2>29, <2>30, <2>31, <2>32, <2>33, <2>34 DEF Next
<1> QED
  BY <1>1, <1>2, TypesInvHolds, PTL DEF Spec

\* Who asks to be trusted is signing in, and only such a sign-in adds a device.
TrustInv ==
    \A c \in Client : /\ req[c].trust => \/ pc[c] \in {"code", "claim"} /\ req[c].purpose = "mfa"
                                        \/ pc[c] = "insert"
                      /\ pc[c] = "insert" => req[c].trust

LEMMA TrustInvHolds == Spec => []TrustInv
<1>1. ASSUME Init PROVE TrustInv
  BY <1>1 DEF Init, TrustInv, NoRequest
<1>2. TypesInv /\ TrustInv /\ [Next]_vars => TrustInv'
  <2> SUFFICES ASSUME HandsInv, TrustInv, [Next]_vars
               PROVE  TrustInv'
    BY DEF TypesInv
  <2>0. ~NoRequest.trust
    BY DEF NoRequest
  <2> USE DEF HandsInv
  <2>1. ASSUME NEW c \in Client, NEW p, SendSetup(c, p) PROVE TrustInv'
    BY <2>0, <2>1 DEF SendSetup, Go, TrustInv, Requests
  <2>2. ASSUME NEW c \in Client, CreateFirstUser(c) PROVE TrustInv'
    BY <2>0, <2>2 DEF CreateFirstUser, Refuse, Go, TrustInv
  <2>3. ASSUME NEW c \in Client, Greet(c) PROVE TrustInv'
    BY <2>0, <2>3 DEF Greet, Respond, Go, TrustInv
  <2>4. ASSUME NEW c \in Client, NEW t, Login(c, t) PROVE TrustInv'
    <3>1. CASE req' = [req EXCEPT ![c].sess = Session(user, TRUE), ![c].trust = TRUE] /\ pc' = [pc EXCEPT ![c] = "insert"]
      <4>1. req'[c].trust /\ \A d \in Client : d # c => req'[d] = req[d]
        BY <3>1 DEF Requests
      <4> QED  BY <3>1, <4>1 DEF TrustInv
    <3>2. CASE req' = [req EXCEPT ![c] = NoRequest] /\ pc' = [pc EXCEPT ![c] = "idle"]
      BY <2>0, <3>2 DEF TrustInv
    <3> QED  BY <2>4, <3>1, <3>2 DEF Login, Respond, Go
  <2>5. ASSUME NEW c \in Client, NEW s, NEW n, NEW t, SendCode(c, s, n, t) PROVE TrustInv'
    BY <2>0, <2>5 DEF SendCode, Respond, Go, TrustInv, Requests
  <2>6. ASSUME NEW c \in Client, CheckCode(c) PROVE TrustInv'
    BY <2>0, <2>6 DEF CheckCode, Refuse, Go, TrustInv
  <2>7. ASSUME NEW c \in Client, ClaimTotpStep(c) PROVE TrustInv'
    <3>1. CASE req[c].trust /\ req' = [req EXCEPT ![c].sess = Session(req[c].row, TRUE)] /\ pc' = [pc EXCEPT ![c] = "insert"]
      BY <2>7, <3>1 DEF TrustInv, Requests
    <3>2. CASE req' = [req EXCEPT ![c] = NoRequest] /\ pc' = [pc EXCEPT ![c] = "idle"]
      BY <2>0, <3>2 DEF TrustInv
    <3>3. CASE req' = req /\ ~req[c].trust /\ pc' = [pc EXCEPT ![c] = "turnOff"]
      BY <3>3 DEF TrustInv
    <3> QED  BY <2>7, <3>1, <3>2, <3>3 DEF ClaimTotpStep, Accept, Respond, Refuse, Go, TrustInv
  <2>8. ASSUME NEW c \in Client, NEW d, InsertDevice(c, d) PROVE TrustInv'
    BY <2>0, <2>8 DEF InsertDevice, Respond, Go, TrustInv
  <2>9. ASSUME NEW c \in Client, NEW d, DeleteDevice(c, d) PROVE TrustInv'
    BY <2>0, <2>9 DEF DeleteDevice, Respond, Go, Authed, TrustInv
  <2>10. ASSUME NEW c \in Client, Enter(c) PROVE TrustInv'
    BY <2>0, <2>10 DEF Enter, Respond, Go, TrustInv, Requests
  <2>11. ASSUME NEW c \in Client, AutoLogin(c) PROVE TrustInv'
    BY <2>0, <2>11 DEF AutoLogin, Go, TrustInv, Requests
  <2>12. ASSUME NEW c \in Client, ViewPage(c) PROVE TrustInv'
    BY <2>0, <2>12 DEF ViewPage, Respond, Go, Authed, TrustInv
  <2>13. ASSUME NEW c \in Client, ReauthPassword(c) PROVE TrustInv'
    BY <2>0, <2>13 DEF ReauthPassword, Respond, Go, Authed, TrustInv
  <2>14. ASSUME NEW c \in Client, ReauthLapses(c) PROVE TrustInv'
    BY <2>0, <2>14 DEF ReauthLapses, TrustInv
  <2>15. ASSUME NEW c \in Client, NEW s, NEW n, ReauthCode(c, s, n) PROVE TrustInv'
    BY <2>0, <2>15 DEF ReauthCode, Go, Authed, TrustInv, Requests
  <2>16. ASSUME NEW c \in Client, NEW s, NEW n, MfaDisable(c, s, n) PROVE TrustInv'
    BY <2>0, <2>16 DEF MfaDisable, Go, Authed, TrustInv, Requests
  <2>17. ASSUME NEW c \in Client, NEW s, MfaSetup(c, s) PROVE TrustInv'
    BY <2>0, <2>17 DEF MfaSetup, Respond, Go, Authed, TrustInv
  <2>18. ASSUME NEW c \in Client, NEW n, MfaConfirm(c, n) PROVE TrustInv'
    BY <2>0, <2>18 DEF MfaConfirm, Go, Authed, TrustInv
  <2>19. ASSUME NEW c \in Client, TurnOff(c) PROVE TrustInv'
    BY <2>0, <2>19 DEF TurnOff, Go, TrustInv
  <2>20. ASSUME NEW c \in Client, DeleteTrustedDevices(c) PROVE TrustInv'
    BY <2>0, <2>20 DEF DeleteTrustedDevices, Overlap, Go, TrustInv, Requests
  <2>21. ASSUME NEW c \in Client, BumpSessionVersion(c) PROVE TrustInv'
    BY <2>0, <2>21 DEF BumpSessionVersion, EndOthers, Go, TrustInv, Requests
  <2>22. ASSUME NEW c \in Client, MfaRevokeDevices(c) PROVE TrustInv'
    BY <2>0, <2>22 DEF MfaRevokeDevices, Overlap, Go, Authed, TrustInv, Requests
  <2>23. ASSUME NEW c \in Client, Logout(c) PROVE TrustInv'
    BY <2>0, <2>23 DEF Logout, TrustInv
  <2>24. ASSUME NEW c \in Client, NEW a, RequirePassword(c, a) PROVE TrustInv'
    BY <2>0, <2>24 DEF RequirePassword, Respond, Go, Authed, TrustInv
  <2>25. ASSUME NEW c \in Client, Backup(c) PROVE TrustInv'
    BY <2>0, <2>25 DEF Backup, Respond, Go, Authed, TrustInv
  <2>26. ASSUME NEW c \in Client, RestoreUsers(c) PROVE TrustInv'
    <3>1. \A d \in Client : pc'[d] = IF d = c THEN "restored" ELSE pc[d]
      BY <2>26 DEF RestoreUsers, Go
    <3>2. \A d \in Client : (req'[d].trust <=> req[d].trust) /\ req'[d].purpose = req[d].purpose
      BY <2>26, RestoredHands
    <3>3. pc[c] = "authed"
      BY <2>26 DEF RestoreUsers, Authed
    <3> QED  BY <3>1, <3>2, <3>3 DEF TrustInv
  <2>27. ASSUME NEW c \in Client, RestoreOthers(c) PROVE TrustInv'
    BY <2>0, <2>27 DEF RestoreOthers, Go, Authed, TrustInv, Requests
  <2>28. ASSUME NEW c \in Client, KeepSession(c) PROVE TrustInv'
    BY <2>0, <2>28 DEF KeepSession, Respond, Go, TrustInv
  <2>29. ASSUME NEW c \in Client, NEW d \in Client, OpenTab(c, d) PROVE TrustInv'
    BY <2>0, <2>29 DEF OpenTab, TrustInv
  <2>30. ASSUME Tick PROVE TrustInv'
    BY <2>0, <2>30 DEF Tick, TrustInv
  <2>31. ASSUME NEW d, ExpireDevice(d) PROVE TrustInv'
    BY <2>0, <2>31 DEF ExpireDevice, TrustInv
  <2>32. ASSUME Restart PROVE TrustInv'
    BY <2>0, <2>32 DEF Restart, StopAndStart, TrustInv
  <2>33. ASSUME ResetMfa PROVE TrustInv'
    BY <2>0, <2>33 DEF ResetMfa, StopAndStart, TrustInv
  <2>34. ASSUME NEW p, ResetPassword(p) PROVE TrustInv'
    BY <2>0, <2>34 DEF ResetPassword, StopAndStart, TrustInv
  <2>90. CASE UNCHANGED vars
    BY <2>90 DEF vars, TrustInv
  <2> QED
    BY <2>90, <2>1, <2>2, <2>3, <2>4, <2>5, <2>6, <2>7, <2>8, <2>9, <2>10, <2>11, <2>12, <2>13, <2>14, <2>15, <2>16, <2>17, <2>18, <2>19, <2>20, <2>21, <2>22, <2>23, <2>24, <2>25, <2>26, <2>27, <2>28, <2>29, <2>30, <2>31, <2>32, <2>33, <2>34 DEF Next
<1> QED
  BY <1>1, <1>2, TypesInvHolds, PTL DEF Spec

-------------------------------------------------------------------------------
(* SessionsMatch                                                           *)

\* Nothing of a change of credentials is still to be done.
Settled == Quiet /\ ~cut /\ ~replaced

\* A session, or a row that a request has read, of version v is of credentials x.
Matches(s, v, x) == s.kind = "user" /\ s.version = v => s.cred = x
Fits(u, v, x)    == u # NoUser /\ u.version = v => Cred(u) = x

CookiesMatch == \A c \in Client : Matches(cookie[c], user.version, Cred(user))
HandsMatch   == \A c \in Client : /\ Matches(req[c].sess, user.version, Cred(user))
                                  /\ Fits(req[c].row, user.version, Cred(user))
MatchInv     == Settled => CookiesMatch /\ HandsMatch

LEMMA MatchesNone == \A v, x : Matches(NoSession, v, x) /\ Matches([NoSession EXCEPT !.kind = "pending"], v, x)
  BY DEF Matches, NoSession

LEMMA MatchesNew ==
    \A u \in Rows, v \in Nat, x \in Creds, f \in BOOLEAN : u # NoUser /\ Fits(u, v, x) => Matches(Session(u, f), v, x)
  BY DEF Matches, Fits, Session, NoSession

LEMMA MatchesOwn == \A u \in Rows, f \in BOOLEAN : Matches(Session(u, f), u.version, Cred(u))
  BY DEF Matches, Session, NoSession

LEMMA FitsOwn == \A u \in Rows : Fits(u, u.version, Cred(u))
  BY DEF Fits

LEMMA MatchesEdit ==
    \A s \in Sessions, v \in Nat, x \in Creds :
        Matches(s, v, x) => /\ \A f \in BOOLEAN : Matches([s EXCEPT !.fresh = f], v, x)
                            /\ \A y \in Secret : Matches([s EXCEPT !.setup = y], v, x)
  BY DEF Matches, Sessions

\* What is of an earlier version matches whatever comes after.
LEMMA MatchesOlder ==
    ASSUME NEW v \in Nat, NEW x
    PROVE  /\ \A s \in Sessions : Dated(s, v) => Matches(s, v + 1, x) /\ Matches(End(s), v + 1, x)
           /\ \A u \in Rows : u.version <= v => Fits(u, v + 1, x)
<1>1. \A s \in Sessions : End(s).version = s.version /\ End(s).kind = s.kind
  BY DEF Sessions, End
<1>2. \A s \in Sessions : Dated(s, v) => Matches(s, v + 1, x) /\ Matches(End(s), v + 1, x)
  BY <1>1 DEF Dated, Matches, Sessions
<1>3. \A u \in Rows : u.version <= v => Fits(u, v + 1, x)
  BY DEF Fits, Rows
<1> QED
  BY <1>2, <1>3

LEMMA MatchesKept ==
    ASSUME NEW s \in Sessions, NEW v \in Nat, NEW x \in Creds
    PROVE  /\ Matches([s EXCEPT !.version = v, !.cred = x, !.ended = FALSE], v, x)
           /\ Matches([s EXCEPT !.version = v, !.setup = None, !.cred = x, !.ended = FALSE], v, x)
<1>1. Matches([s EXCEPT !.version = v, !.cred = x, !.ended = FALSE], v, x)
  BY DEF Matches, Sessions
<1>2. Matches([s EXCEPT !.version = v, !.setup = None, !.cred = x, !.ended = FALSE], v, x)
  BY DEF Matches, Sessions
<1> QED
  BY <1>1, <1>2

LEMMA MatchesNoRequest == \A v, x : Matches(NoRequest.sess, v, x) /\ Fits(NoRequest.row, v, x)
  BY MatchesNone DEF NoRequest, Fits

LEMMA EndedHand ==
    \A q \in Requests : LET e == [q EXCEPT !.sess = End(@)] IN e.sess = End(q.sess) /\ e.row = q.row
<1> SUFFICES ASSUME NEW q \in Requests PROVE [q EXCEPT !.sess = End(@)].sess = End(q.sess) /\ [q EXCEPT !.sess = End(@)].row = q.row
  OBVIOUS
<1> DEFINE e == End(q.sess)
<1>1. [q EXCEPT !.sess = e].sess = e /\ [q EXCEPT !.sess = e].row = q.row
  <2> HIDE DEF e
  <2> QED  BY DEF Requests
<1> QED
  BY <1>1

\* A change of credentials leaves off being done only when its session is kept
\* (_revoke_other_sessions), unless the process stops.
LEMMA SettledBack ==
    ASSUME HandsInv, [Next]_vars, Settled'
    PROVE  Settled \/ \E c \in Client : BumpSessionVersion(c)
<1> SUFFICES ASSUME ~\E c \in Client : BumpSessionVersion(c) PROVE Settled
  OBVIOUS
<1>0. pc \in [Client -> Pc] /\ Quiet'
  BY DEF HandsInv, Settled
<1>1. ASSUME NEW c \in Client, NEW p, SendSetup(c, p) PROVE Settled
  BY <1>0, <1>1 DEF SendSetup, Go, Quiet, Settled, ghosts
<1>2. ASSUME NEW c \in Client, CreateFirstUser(c) PROVE Settled
  BY <1>0, <1>2 DEF CreateFirstUser, Refuse, Go, Quiet, Settled, ghosts
<1>3. ASSUME NEW c \in Client, Greet(c) PROVE Settled
  BY <1>0, <1>3 DEF Greet, Respond, Go, Quiet, Settled, ghosts
<1>4. ASSUME NEW c \in Client, NEW t, Login(c, t) PROVE Settled
  BY <1>0, <1>4 DEF Login, Respond, Go, Quiet, Settled, ghosts
<1>5. ASSUME NEW c \in Client, NEW s, NEW n, NEW t, SendCode(c, s, n, t) PROVE Settled
  BY <1>0, <1>5 DEF SendCode, Respond, Go, Quiet, Settled, ghosts
<1>6. ASSUME NEW c \in Client, CheckCode(c) PROVE Settled
  BY <1>0, <1>6 DEF CheckCode, Refuse, Go, Quiet, Settled, ghosts
<1>7. ASSUME NEW c \in Client, ClaimTotpStep(c) PROVE Settled
  BY <1>0, <1>7 DEF ClaimTotpStep, Accept, Respond, Refuse, Go, Quiet, Settled, ghosts
<1>8. ASSUME NEW c \in Client, NEW d, InsertDevice(c, d) PROVE Settled
  BY <1>0, <1>8 DEF InsertDevice, Respond, Go, Quiet, Settled, ghosts
<1>9. ASSUME NEW c \in Client, NEW d, DeleteDevice(c, d) PROVE Settled
  BY <1>0, <1>9 DEF DeleteDevice, Respond, Go, Authed, Quiet, Settled, ghosts
<1>10. ASSUME NEW c \in Client, Enter(c) PROVE Settled
  BY <1>0, <1>10 DEF Enter, Respond, Go, Quiet, Settled, ghosts
<1>11. ASSUME NEW c \in Client, AutoLogin(c) PROVE Settled
  BY <1>0, <1>11 DEF AutoLogin, Go, Quiet, Settled, ghosts
<1>12. ASSUME NEW c \in Client, ViewPage(c) PROVE Settled
  BY <1>0, <1>12 DEF ViewPage, Respond, Go, Authed, Quiet, Settled, ghosts
<1>13. ASSUME NEW c \in Client, ReauthPassword(c) PROVE Settled
  BY <1>0, <1>13 DEF ReauthPassword, Respond, Go, Authed, Quiet, Settled, ghosts
<1>14. ASSUME NEW c \in Client, ReauthLapses(c) PROVE Settled
  BY <1>0, <1>14 DEF ReauthLapses, Quiet, Settled, ghosts
<1>15. ASSUME NEW c \in Client, NEW s, NEW n, ReauthCode(c, s, n) PROVE Settled
  BY <1>0, <1>15 DEF ReauthCode, Go, Authed, Quiet, Settled, ghosts
<1>16. ASSUME NEW c \in Client, NEW s, NEW n, MfaDisable(c, s, n) PROVE Settled
  BY <1>0, <1>16 DEF MfaDisable, Go, Authed, Count, Quiet, Settled, ghosts
<1>17. ASSUME NEW c \in Client, NEW s, MfaSetup(c, s) PROVE Settled
  BY <1>0, <1>17 DEF MfaSetup, Respond, Go, Authed, Quiet, Settled, ghosts
<1>18. ASSUME NEW c \in Client, NEW n, MfaConfirm(c, n) PROVE Settled
  BY <1>0, <1>18 DEF MfaConfirm, SetTotp, Go, Authed, Count, Quiet, Settled, ghosts
<1>19. ASSUME NEW c \in Client, TurnOff(c) PROVE Settled
  BY <1>0, <1>19 DEF TurnOff, SetTotp, Go, Quiet, Settled, ghosts
<1>20. ASSUME NEW c \in Client, DeleteTrustedDevices(c) PROVE Settled
  BY <1>0, <1>20 DEF DeleteTrustedDevices, Overlap, Go, Quiet, Settled, ghosts
<1>21. ASSUME NEW c \in Client, MfaRevokeDevices(c) PROVE Settled
  BY <1>0, <1>21 DEF MfaRevokeDevices, Overlap, Go, Authed, Count, Quiet, Settled, ghosts
<1>22. ASSUME NEW c \in Client, Logout(c) PROVE Settled
  BY <1>0, <1>22 DEF Logout, Quiet, Settled, ghosts
<1>23. ASSUME NEW c \in Client, NEW a, RequirePassword(c, a) PROVE Settled
  BY <1>0, <1>23 DEF RequirePassword, UpdateUserRequirePassword, Respond, Go, Authed, Count, Quiet, Settled, ghosts
<1>24. ASSUME NEW c \in Client, Backup(c) PROVE Settled
  BY <1>0, <1>24 DEF Backup, Respond, Go, Authed, Quiet, Settled, ghosts
<1>25. ASSUME NEW c \in Client, RestoreUsers(c) PROVE Settled
  BY <1>0, <1>25 DEF RestoreUsers, Go, Authed, Count, Quiet, Settled, ghosts
<1>26. ASSUME NEW c \in Client, RestoreOthers(c) PROVE Settled
  BY <1>0, <1>26 DEF RestoreOthers, Go, Authed, Count, Quiet, Settled, ghosts
<1>27. ASSUME NEW c \in Client, KeepSession(c) PROVE Settled
  BY <1>0, <1>27 DEF KeepSession, Respond, Go, Quiet, Settled, ghosts
<1>28. ASSUME NEW c \in Client, NEW d \in Client, OpenTab(c, d) PROVE Settled
  BY <1>0, <1>28 DEF OpenTab, Quiet, Settled, ghosts
<1>29. ASSUME Tick PROVE Settled
  BY <1>0, <1>29 DEF Tick, Quiet, Settled, ghosts
<1>30. ASSUME NEW d, ExpireDevice(d) PROVE Settled
  BY <1>0, <1>30 DEF ExpireDevice, Quiet, Settled, ghosts
<1>31. ASSUME Restart PROVE Settled
  BY <1>0, <1>31 DEF Restart, StopAndStart, Count, Quiet, Settled, ghosts
<1>32. ASSUME ResetMfa PROVE Settled
  BY <1>0, <1>32 DEF ResetMfa, StopAndStart, Count, Quiet, Settled, ghosts
<1>33. ASSUME NEW p, ResetPassword(p) PROVE Settled
  BY <1>0, <1>33 DEF ResetPassword, StopAndStart, Count, ResetUserPassword, Quiet, Settled, ghosts
<1>90. CASE UNCHANGED vars
  BY <1>90 DEF vars, ghosts, Settled, Quiet
<1> QED
  BY <1>90, <1>1, <1>2, <1>3, <1>4, <1>5, <1>6, <1>7, <1>8, <1>9, <1>10, <1>11, <1>12, <1>13, <1>14, <1>15, <1>16, <1>17, <1>18, <1>19, <1>20, <1>21, <1>22, <1>23, <1>24, <1>25, <1>26, <1>27, <1>28, <1>29, <1>30, <1>31, <1>32, <1>33 DEF Next

LEMMA MatchInvHolds == Spec => []MatchInv
<1>1. ASSUME Init PROVE MatchInv
  BY <1>1, MatchesNone, MatchesNoRequest DEF Init, MatchInv, CookiesMatch, HandsMatch
<1>2. TypesInv /\ VersionsInv /\ NobodyInv /\ RowsRead /\ MatchInv /\ [Next]_vars => MatchInv'
  <2> SUFFICES ASSUME HandsInv, AccountInv, WorkInv, RestInv, VersionsInv, NobodyInv, RowsRead, MatchInv,
                      [Next]_vars, Settled'
               PROVE  MatchInv'
    BY DEF TypesInv, MatchInv
  <2>8. ~replaced /\ CookiesDated /\ HandsDated /\ user \in Rows /\ user.version \in Nat
    BY GhostsStay, CredTyped DEF Settled, VersionsInv, AccountInv
  <2>9. ASSUME NEW x, NEW c \in Client
        PROVE  /\ Matches(cookie[c], user.version + 1, x) /\ Matches(End(cookie[c]), user.version + 1, x)
               /\ Matches(req[c].sess, user.version + 1, x) /\ Matches(End(req[c].sess), user.version + 1, x)
               /\ Fits(req[c].row, user.version + 1, x)
    BY <2>8, MatchesOlder, HandFields DEF CookiesDated, HandsDated, HandsInv
  <2>10. ASSUME NEW c \in Client, BumpSessionVersion(c) PROVE MatchInv'
    <3> DEFINE mine == [req[c].sess EXCEPT !.version = NewVersion, !.setup = None, !.cred = Cred(user), !.ended = FALSE]
    <3>1. user'.version = user.version + 1 /\ Cred(user') = Cred(user)
      BY <2>8, <2>10 DEF BumpSessionVersion, NewVersion, Rows, Cred
    <3>2. Matches(mine, user.version + 1, Cred(user))
      BY <2>8, MatchesKept, CredTyped, HandFields DEF HandsInv, NewVersion
    <3>3. cookie' = [d \in Client |-> IF d = c THEN mine ELSE End(cookie[d])]
      BY <2>10 DEF BumpSessionVersion, EndOthers
    <3>4. \A d \in Client : \/ d = c /\ req'[d] = NoRequest
                            \/ req'[d].sess = End(req[d].sess) /\ req'[d].row = req[d].row
      BY <2>10, EndedHand DEF BumpSessionVersion, EndOthers, HandsInv
    <3> HIDE DEF mine
    <3>5. CookiesMatch'
      BY <2>9, <3>1, <3>2, <3>3 DEF CookiesMatch
    <3>6. HandsMatch'
      BY <2>9, <3>1, <3>4, MatchesNoRequest DEF HandsMatch
    <3> QED
      BY <3>5, <3>6 DEF MatchInv
  <2> SUFFICES ASSUME ~\E c \in Client : BumpSessionVersion(c)
               PROVE  MatchInv'
    BY <2>10
  <2>0. /\ CookiesMatch /\ HandsMatch /\ ~\E c \in Client : BumpSessionVersion(c)
        /\ user \in Rows /\ user.version \in Nat /\ user.version + 1 \in Nat /\ Cred(user) \in Creds
    BY <2>8, SettledBack, CredTyped DEF MatchInv
  <2>1. ASSUME NEW c \in Client, ClientStep(c) PROVE MatchInv'
    <3>1. ASSUME NEW p \in Password, SendSetup(c, p) PROVE MatchInv'
        <4>1. user'.version = user.version /\ Cred(user') = Cred(user)
          BY <3>1 DEF SendSetup, row, Cred
        <4>2. CookiesMatch'
          BY <2>0, <3>1, <4>1 DEF SendSetup, Go, row, CookiesMatch, HandsInv
        <4>3. HandsMatch'
          BY <2>0, <3>1, <4>1 DEF SendSetup, Go, row, HandsMatch, HandsInv, Requests
        <4> QED
          BY <4>2, <4>3 DEF MatchInv
    <3>2. CASE CreateFirstUser(c)
        <4>1. CASE Exists
          <5>1. user' = user /\ cookie' = cookie /\ req' = [req EXCEPT ![c] = NoRequest]
            BY <3>2, <4>1 DEF CreateFirstUser, Refuse
          <5>2. CookiesMatch'
            BY <2>0, <5>1 DEF CookiesMatch
          <5>3. HandsMatch'
            BY <2>0, <5>1, MatchesNoRequest DEF HandsMatch, HandsInv
          <5> QED
            BY <5>2, <5>3 DEF MatchInv
        <4>2. CASE ~Exists
          <5>1. \A d \in Client : cookie'[d].kind # "user" /\ req'[d].sess.kind # "user" /\ req'[d].row = NoUser
            BY <3>2, <4>2 DEF CreateFirstUser, NobodyInv
          <5>2. CookiesMatch' /\ HandsMatch'
            BY <5>1 DEF CookiesMatch, HandsMatch, Matches, Fits
          <5> QED
            BY <5>2 DEF MatchInv
        <4> QED
          BY <4>1, <4>2
    <3>3. CASE Greet(c)
        <4>1. user'.version = user.version /\ Cred(user') = Cred(user)
          BY <3>3 DEF Greet, Respond, row, Cred
        <4>2. CookiesMatch'
          <5>1. Matches(Session(user, TRUE), user.version, Cred(user))
            BY <2>0, MatchesOwn
          <5> QED
            BY <2>0, <3>3, <4>1, <5>1 DEF Greet, Respond, Go, row, CookiesMatch, HandsInv
        <4>3. HandsMatch'
          BY <2>0, <3>3, <4>1, MatchesNoRequest DEF Greet, Respond, Go, row, HandsMatch, HandsInv
        <4> QED
          BY <4>2, <4>3 DEF MatchInv
    <3>4. ASSUME NEW t \in BOOLEAN, Login(c, t) PROVE MatchInv'
        <4>1. user'.version = user.version /\ Cred(user') = Cred(user)
          BY <3>4 DEF Login, Respond, row, Cred
        <4>2. CookiesMatch'
          <5>1. Matches(Session(user, TRUE), user.version, Cred(user))
            BY <2>0, MatchesOwn
          <5> DEFINE s == Session(user, TRUE)
                     p == [NoSession EXCEPT !.kind = "pending"]
          <5>2. cookie' \in {cookie, [cookie EXCEPT ![c] = s], [cookie EXCEPT ![c] = p]}
            BY <3>4 DEF Login, Respond
          <5> HIDE DEF s, p
          <5>3. Matches(s, user.version, Cred(user)) /\ Matches(p, user.version, Cred(user))
            BY <5>1, MatchesNone DEF s, p
          <5> QED
            BY <2>0, <4>1, <5>2, <5>3 DEF CookiesMatch, HandsInv
        <4>3. HandsMatch'
          <5> DEFINE s == Session(user, TRUE)
          <5>1. Matches(s, user.version, Cred(user)) /\ s \in Sessions
            BY <2>0, MatchesOwn, SessionTyped
          <5>2. CASE req' = [req EXCEPT ![c].sess = s, ![c].trust = TRUE]
            <6>1. \A d \in Client : /\ req'[d].sess = (IF d = c THEN s ELSE req[d].sess)
                                     /\ req'[d].row = req[d].row
              <7> HIDE DEF s
              <7> QED  BY <5>1, <5>2 DEF HandsInv, Requests
            <6> QED
              BY <2>0, <4>1, <5>1, <6>1 DEF HandsMatch
          <5>3. CASE req' = [req EXCEPT ![c] = NoRequest]
            BY <2>0, <4>1, <5>3, MatchesNoRequest DEF HandsMatch, HandsInv
          <5> QED
            BY <3>4, <5>2, <5>3 DEF Login, Respond
        <4> QED
          BY <4>2, <4>3 DEF MatchInv
    <3>5. ASSUME NEW s \in Secret, NEW n \in Nat, NEW t \in BOOLEAN, SendCode(c, s, n, t) PROVE MatchInv'
        <4>1. user'.version = user.version /\ Cred(user') = Cred(user)
          BY <3>5 DEF SendCode, Respond, row, Cred
        <4>2. CookiesMatch'
          BY <2>0, <3>5, <4>1, MatchesNone DEF SendCode, Respond, Go, row, CookiesMatch, HandsInv
        <4>3. HandsMatch'
          <5>1. CASE user.secret = None
            BY <2>0, <3>5, <4>1, <5>1, MatchesNoRequest DEF SendCode, Respond, HandsMatch, HandsInv
          <5>2. CASE user.secret # None
            <6>1. req' = [req EXCEPT ![c].row = user, ![c].secret = s, ![c].step = n, ![c].purpose = "mfa", ![c].trust = t]
              BY <3>5, <5>2 DEF SendCode
            <6>2. \A d \in Client : /\ req'[d].sess = req[d].sess
                                     /\ req'[d].row = (IF d = c THEN user ELSE req[d].row)
              BY <2>0, <6>1 DEF HandsInv, Requests
            <6> QED
              BY <2>0, FitsOwn, <4>1, <6>2 DEF HandsMatch
          <5> QED
            BY <5>1, <5>2
        <4> QED
          BY <4>2, <4>3 DEF MatchInv
    <3>6. CASE CheckCode(c)
        <4>1. user'.version = user.version /\ Cred(user') = Cred(user)
          BY <3>6 DEF CheckCode, Refuse, row, Cred
        <4>2. CookiesMatch'
          BY <2>0, <3>6, <4>1 DEF CheckCode, Refuse, Go, row, CookiesMatch, HandsInv
        <4>3. HandsMatch'
          BY <2>0, <3>6, <4>1, MatchesNoRequest DEF CheckCode, Refuse, Go, row, HandsMatch, HandsInv
        <4> QED
          BY <4>2, <4>3 DEF MatchInv
    <3>7. CASE ClaimTotpStep(c)
        <4>1. user'.version = user.version /\ Cred(user') = Cred(user)
          BY <3>7 DEF ClaimTotpStep, Accept, Respond, Refuse, row, AccountInv, Rows, Cred
        <4>2. CookiesMatch'
          <5>1. /\ Matches(Session(req[c].row, TRUE), user.version, Cred(user))
                 /\ Matches([req[c].sess EXCEPT !.fresh = TRUE], user.version, Cred(user))
            BY <2>0, <3>7, MatchesNew, MatchesEdit, HandFields DEF HandsMatch, HandsInv, RowsRead, ClaimTotpStep
          <5> QED
            BY <2>0, <3>7, <4>1, <5>1 DEF ClaimTotpStep, Accept, Respond, Refuse, Go, CookiesMatch, HandsInv
        <4>3. HandsMatch'
          <5> DEFINE s == Session(req[c].row, TRUE)
          <5>1. Matches(s, user.version, Cred(user)) /\ s \in Sessions
            BY <2>0, <3>7, MatchesNew, SessionTyped, HandFields DEF HandsMatch, HandsInv, RowsRead, ClaimTotpStep
          <5>2. CASE req' = [req EXCEPT ![c].sess = s]
            <6>1. \A d \in Client : /\ req'[d].sess = (IF d = c THEN s ELSE req[d].sess)
                                     /\ req'[d].row = req[d].row
              <7> HIDE DEF s
              <7> QED  BY <5>1, <5>2 DEF HandsInv, Requests
            <6> QED
              BY <2>0, <4>1, <5>1, <6>1 DEF HandsMatch
          <5>3. CASE req' = [req EXCEPT ![c] = NoRequest]
            BY <2>0, <4>1, <5>3, MatchesNoRequest DEF HandsMatch, HandsInv
          <5>4. CASE req' = req
            BY <2>0, <4>1, <5>4 DEF HandsMatch
          <5> QED
            BY <3>7, <5>2, <5>3, <5>4 DEF ClaimTotpStep, Accept, Respond, Refuse
        <4> QED
          BY <4>2, <4>3 DEF MatchInv
    <3>8. ASSUME NEW d \in Device, InsertDevice(c, d) PROVE MatchInv'
        <4>1. user'.version = user.version /\ Cred(user') = Cred(user)
          BY <3>8 DEF InsertDevice, Respond, CreateTrustedDevice, row, Cred
        <4>2. CookiesMatch'
          BY <2>0, <3>8, <4>1 DEF InsertDevice, Respond, CreateTrustedDevice, Go, row, CookiesMatch, HandsInv, HandsMatch
        <4>3. HandsMatch'
          BY <2>0, <3>8, <4>1, MatchesNoRequest DEF InsertDevice, Respond, CreateTrustedDevice, Go, row, HandsMatch, HandsInv
        <4> QED
          BY <4>2, <4>3 DEF MatchInv
    <3>9. ASSUME NEW d \in Device, DeleteDevice(c, d) PROVE MatchInv'
        <4>1. user'.version = user.version /\ Cred(user') = Cred(user)
          BY <3>9 DEF DeleteDevice, Respond, DeleteTrustedDevice, Authed, row, Cred
        <4>2. CookiesMatch'
          BY <2>0, <3>9, <4>1 DEF DeleteDevice, Respond, DeleteTrustedDevice, Authed, Go, row, CookiesMatch, HandsInv, HandsMatch
        <4>3. HandsMatch'
          BY <2>0, <3>9, <4>1, MatchesNoRequest DEF DeleteDevice, Respond, DeleteTrustedDevice, Authed, Go, row, HandsMatch, HandsInv
        <4> QED
          BY <4>2, <4>3 DEF MatchInv
    <3>10. CASE Enter(c)
        <4>1. user'.version = user.version /\ Cred(user') = Cred(user)
          BY <3>10 DEF Enter, Respond, row, Cred
        <4>2. CookiesMatch'
          BY <2>0, <3>10, <4>1, MatchesNone DEF Enter, Respond, Go, row, CookiesMatch, HandsInv
        <4>3. HandsMatch'
          <5>1. CASE req' = [req EXCEPT ![c].sess = cookie[c], ![c].row = user]
            <6>1. \A d \in Client : /\ req'[d].sess = (IF d = c THEN cookie[c] ELSE req[d].sess)
                                     /\ req'[d].row = (IF d = c THEN user ELSE req[d].row)
              BY <2>0, <5>1 DEF HandsInv, Requests
            <6> QED
              BY <2>0, FitsOwn, <4>1, <6>1 DEF HandsMatch, CookiesMatch
          <5>2. CASE req' = req \/ req' = [req EXCEPT ![c] = NoRequest]
            BY <2>0, <4>1, <5>2, MatchesNoRequest DEF HandsMatch, HandsInv
          <5> QED
            BY <3>10, <5>1, <5>2 DEF Enter, Respond
        <4> QED
          BY <4>2, <4>3 DEF MatchInv
    <3>11. CASE AutoLogin(c)
        <4>1. user'.version = user.version /\ Cred(user') = Cred(user)
          BY <3>11 DEF AutoLogin, row, Cred
        <4>2. CookiesMatch'
          BY <2>0, <3>11, <4>1 DEF AutoLogin, Go, row, CookiesMatch, HandsInv
        <4>3. HandsMatch'
          <5> DEFINE s == Session(user, FALSE)
          <5>1. Matches(s, user.version, Cred(user)) /\ s \in Sessions
            BY <2>0, MatchesOwn, SessionTyped
          <5>2. req' = [req EXCEPT ![c].sess = s, ![c].row = user]
            BY <3>11 DEF AutoLogin
          <5>3. \A d \in Client : /\ req'[d].sess = (IF d = c THEN s ELSE req[d].sess)
                                 /\ req'[d].row = (IF d = c THEN user ELSE req[d].row)
            <6> HIDE DEF s
            <6> QED  BY <2>0, <5>1, <5>2 DEF HandsInv, Requests
          <5> QED
            <6> HIDE DEF s
            <6> QED  BY <2>0, FitsOwn, <4>1, <5>1, <5>3 DEF HandsMatch
        <4> QED
          BY <4>2, <4>3 DEF MatchInv
    <3>12. CASE ViewPage(c)
        <4>1. user'.version = user.version /\ Cred(user') = Cred(user)
          BY <3>12 DEF ViewPage, Respond, Authed, row, Cred
        <4>2. CookiesMatch'
          BY <2>0, <3>12, <4>1 DEF ViewPage, Respond, Authed, Go, row, CookiesMatch, HandsInv, HandsMatch
        <4>3. HandsMatch'
          BY <2>0, <3>12, <4>1, MatchesNoRequest DEF ViewPage, Respond, Authed, Go, row, HandsMatch, HandsInv
        <4> QED
          BY <4>2, <4>3 DEF MatchInv
    <3>13. CASE ReauthPassword(c)
        <4>1. user'.version = user.version /\ Cred(user') = Cred(user)
          BY <3>13 DEF ReauthPassword, Respond, Authed, row, Cred
        <4>2. CookiesMatch'
          <5>1. Matches([req[c].sess EXCEPT !.fresh = TRUE], user.version, Cred(user))
            BY <2>0, MatchesEdit, HandFields DEF HandsMatch, HandsInv
          <5> QED
            BY <2>0, <3>13, <4>1, <5>1 DEF ReauthPassword, Respond, CookiesMatch, HandsInv
        <4>3. HandsMatch'
          BY <2>0, <3>13, <4>1, MatchesNoRequest DEF ReauthPassword, Respond, Authed, Go, row, HandsMatch, HandsInv
        <4> QED
          BY <4>2, <4>3 DEF MatchInv
    <3>14. CASE ReauthLapses(c)
        <4>1. user'.version = user.version /\ Cred(user') = Cred(user)
          BY <3>14 DEF ReauthLapses, row, Cred
        <4>2. CookiesMatch'
          BY <2>0, <3>14, <4>1, MatchesEdit DEF ReauthLapses, Go, row, CookiesMatch, HandsInv
        <4>3. HandsMatch'
          BY <2>0, <3>14, <4>1 DEF ReauthLapses, Go, row, HandsMatch, HandsInv
        <4> QED
          BY <4>2, <4>3 DEF MatchInv
    <3>15. ASSUME NEW s \in Secret, NEW n \in Nat, ReauthCode(c, s, n) PROVE MatchInv'
        <4>1. user'.version = user.version /\ Cred(user') = Cred(user)
          BY <3>15 DEF ReauthCode, Authed, row, Cred
        <4>2. CookiesMatch'
          BY <2>0, <3>15, <4>1 DEF ReauthCode, Authed, Go, row, CookiesMatch, HandsInv
        <4>3. HandsMatch'
          BY <2>0, <3>15, <4>1 DEF ReauthCode, Authed, Go, row, HandsMatch, HandsInv, Requests
        <4> QED
          BY <4>2, <4>3 DEF MatchInv
    <3>16. ASSUME NEW s \in Secret, NEW n \in Nat, MfaDisable(c, s, n) PROVE MatchInv'
        <4>1. user'.version = user.version /\ Cred(user') = Cred(user)
          BY <3>16 DEF MfaDisable, Authed, Count, row, Cred
        <4>2. CookiesMatch'
          BY <2>0, <3>16, <4>1 DEF MfaDisable, Authed, Count, Go, row, CookiesMatch, HandsInv
        <4>3. HandsMatch'
          BY <2>0, <3>16, <4>1 DEF MfaDisable, Authed, Count, Go, row, HandsMatch, HandsInv, Requests
        <4> QED
          BY <4>2, <4>3 DEF MatchInv
    <3>17. ASSUME NEW s \in Secret, MfaSetup(c, s) PROVE MatchInv'
        <4>1. user'.version = user.version /\ Cred(user') = Cred(user)
          BY <3>17 DEF MfaSetup, Respond, Authed, row, Cred
        <4>2. CookiesMatch'
          <5>1. Matches([req[c].sess EXCEPT !.setup = s], user.version, Cred(user))
            BY <2>0, MatchesEdit, HandFields DEF HandsMatch, HandsInv
          <5> QED
            BY <2>0, <3>17, <4>1, <5>1 DEF MfaSetup, Respond, CookiesMatch, HandsInv
        <4>3. HandsMatch'
          BY <2>0, <3>17, <4>1, MatchesNoRequest DEF MfaSetup, Respond, Authed, Go, row, HandsMatch, HandsInv
        <4> QED
          BY <4>2, <4>3 DEF MatchInv
    <3>18. ASSUME NEW n \in Nat, MfaConfirm(c, n) PROVE MatchInv'
        BY <3>18 DEF MfaConfirm, Go, Settled, Quiet, HandsInv
    <3>19. CASE TurnOff(c)
        BY <3>19 DEF TurnOff, Go, Settled, Quiet, HandsInv
    <3>20. CASE DeleteTrustedDevices(c)
        BY <3>20 DEF DeleteTrustedDevices, Go, Settled, Quiet, HandsInv
    <3>21. CASE BumpSessionVersion(c)
        BY <2>0, <3>21
    <3>22. CASE MfaRevokeDevices(c)
        BY <3>22 DEF MfaRevokeDevices, Go, Settled, Quiet, HandsInv
    <3>23. CASE Logout(c)
        <4>1. user'.version = user.version /\ Cred(user') = Cred(user)
          BY <3>23 DEF Logout, DeleteTrustedDeviceByToken, row, Cred
        <4>2. CookiesMatch'
          BY <2>0, <3>23, <4>1, MatchesNone DEF Logout, DeleteTrustedDeviceByToken, Go, row, CookiesMatch, HandsInv
        <4>3. HandsMatch'
          BY <2>0, <3>23, <4>1 DEF Logout, DeleteTrustedDeviceByToken, Go, row, HandsMatch, HandsInv
        <4> QED
          BY <4>2, <4>3 DEF MatchInv
    <3>24. ASSUME NEW a \in BOOLEAN, RequirePassword(c, a) PROVE MatchInv'
        <4>1. user'.version = user.version /\ Cred(user') = Cred(user)
          BY <3>24 DEF RequirePassword, Respond, Authed, Count, UpdateUserRequirePassword, row, AccountInv, Rows, Cred
        <4>2. CookiesMatch'
          BY <2>0, <3>24, <4>1 DEF RequirePassword, Respond, Authed, Count, UpdateUserRequirePassword, Go, row, CookiesMatch, HandsInv, HandsMatch
        <4>3. HandsMatch'
          BY <2>0, <3>24, <4>1, MatchesNoRequest DEF RequirePassword, Respond, Authed, Count, UpdateUserRequirePassword, Go, row, HandsMatch, HandsInv
        <4> QED
          BY <4>2, <4>3 DEF MatchInv
    <3>25. CASE Backup(c)
        <4>1. user'.version = user.version /\ Cred(user') = Cred(user)
          BY <3>25 DEF Backup, Respond, Authed, row, Cred
        <4>2. CookiesMatch'
          BY <2>0, <3>25, <4>1 DEF Backup, Respond, Authed, Go, row, CookiesMatch, HandsInv, HandsMatch
        <4>3. HandsMatch'
          BY <2>0, <3>25, <4>1, MatchesNoRequest DEF Backup, Respond, Authed, Go, row, HandsMatch, HandsInv
        <4> QED
          BY <4>2, <4>3 DEF MatchInv
    <3>26. CASE RestoreUsers(c)
        BY <3>26 DEF RestoreUsers, Settled
    <3>27. CASE RestoreOthers(c)
        <4>1. user'.version = user.version + 1
          BY <2>0, <3>27 DEF RestoreOthers, NewVersion, Rows
        <4>2. CookiesMatch'
          BY <2>9, <3>27, <4>1 DEF RestoreOthers, CookiesMatch
        <4>3. \A d \in Client : /\ req'[d].sess \in {req[d].sess, End(req[d].sess)}
                                /\ req'[d].row = req[d].row
          BY <3>27, EndedHand DEF RestoreOthers, HandsInv
        <4>4. HandsMatch'
          BY <2>9, <4>1, <4>3 DEF HandsMatch
        <4> QED
          BY <4>2, <4>4 DEF MatchInv
    <3>28. CASE KeepSession(c)
        <4>1. user'.version = user.version /\ Cred(user') = Cred(user)
          BY <3>28 DEF KeepSession, Respond, row, Cred
        <4>2. CookiesMatch'
          BY <2>0, <3>28, <4>1, MatchesKept, CredTyped, HandFields DEF KeepSession, Respond, Go, row, CookiesMatch, HandsInv
        <4>3. HandsMatch'
          BY <2>0, <3>28, <4>1, MatchesNoRequest DEF KeepSession, Respond, Go, row, HandsMatch, HandsInv
        <4> QED
          BY <4>2, <4>3 DEF MatchInv
    <3>29. ASSUME NEW d \in Client, OpenTab(c, d) PROVE MatchInv'
        <4>1. user'.version = user.version /\ Cred(user') = Cred(user)
          BY <3>29 DEF OpenTab, row, Cred
        <4>2. CookiesMatch'
          BY <2>0, <3>29, <4>1 DEF OpenTab, Go, row, CookiesMatch, HandsInv
        <4>3. HandsMatch'
          BY <2>0, <3>29, <4>1 DEF OpenTab, Go, row, HandsMatch, HandsInv
        <4> QED
          BY <4>2, <4>3 DEF MatchInv
    <3>90. (\A x \in Codes : x[1] \in Secret /\ x[2] \in Nat) /\ Steps \subseteq Nat
      BY CodesTyped DEF RestInv
    <3> QED
      BY <2>1, <3>90, <3>1, <3>2, <3>3, <3>4, <3>5, <3>6, <3>7, <3>8, <3>9, <3>10, <3>11, <3>12, <3>13, <3>14, <3>15, <3>16, <3>17, <3>18, <3>19, <3>20, <3>21, <3>22, <3>23, <3>24, <3>25, <3>26, <3>27, <3>28, <3>29 DEF ClientStep
  <2>2. CASE Tick
      <3>1. user'.version = user.version /\ Cred(user') = Cred(user)
        BY <2>2 DEF Tick, row, Cred
      <3>2. CookiesMatch'
        BY <2>0, <2>2, <3>1 DEF Tick, Go, row, CookiesMatch, HandsInv
      <3>3. HandsMatch'
        BY <2>0, <2>2, <3>1 DEF Tick, Go, row, HandsMatch, HandsInv
      <3> QED
        BY <3>2, <3>3 DEF MatchInv
  <2>3. ASSUME NEW d \in Device, ExpireDevice(d) PROVE MatchInv'
      <3>1. user'.version = user.version /\ Cred(user') = Cred(user)
        BY <2>3 DEF ExpireDevice, row, Cred
      <3>2. CookiesMatch'
        BY <2>0, <2>3, <3>1 DEF ExpireDevice, Go, row, CookiesMatch, HandsInv
      <3>3. HandsMatch'
        BY <2>0, <2>3, <3>1 DEF ExpireDevice, Go, row, HandsMatch, HandsInv
      <3> QED
        BY <3>2, <3>3 DEF MatchInv
  <2>4. CASE Restart
      <3>1. user'.version = user.version /\ Cred(user') = Cred(user)
        BY <2>4 DEF Restart, StopAndStart, Cookies, Count, row, Cred
      <3>2. CookiesMatch'
        BY <2>0, <2>4, <3>1, MatchesNone DEF Restart, StopAndStart, Cookies, Count, Go, row, CookiesMatch, HandsInv, AccountInv
      <3>3. HandsMatch'
        BY <2>0, <2>4, <3>1, MatchesNoRequest DEF Restart, StopAndStart, Cookies, Count, Go, row, HandsMatch, HandsInv
      <3> QED
        BY <3>2, <3>3 DEF MatchInv
  <2>5. CASE ResetMfa
      <3>1. user'.version = user.version + 1
        BY <2>0, <2>5 DEF ResetMfa, NewVersion, Rows
      <3>2. CookiesMatch'
        BY <2>9, <2>5, <3>1, MatchesNone DEF ResetMfa, Cookies, CookiesMatch
      <3>3. HandsMatch'
        BY <2>5, MatchesNoRequest DEF ResetMfa, StopAndStart, HandsMatch
      <3> QED
        BY <3>2, <3>3 DEF MatchInv
  <2>6. ASSUME NEW p \in Password, ResetPassword(p) PROVE MatchInv'
      <3>1. user'.version = user.version + 1
        BY <2>0, <2>6 DEF ResetPassword, ResetUserPassword, NewVersion, Rows
      <3>2. CookiesMatch'
        BY <2>9, <2>6, <3>1, MatchesNone DEF ResetPassword, Cookies, CookiesMatch
      <3>3. HandsMatch'
        BY <2>6, MatchesNoRequest DEF ResetPassword, StopAndStart, HandsMatch
      <3> QED
        BY <3>2, <3>3 DEF MatchInv
  <2>7. CASE UNCHANGED vars
    BY <2>7, <2>0 DEF vars, row, MatchInv, CookiesMatch, HandsMatch, Settled
  <2> QED
    BY <2>1, <2>2, <2>3, <2>4, <2>5, <2>6, <2>7 DEF Next, ClientStep
<1> QED
  BY <1>1, <1>2, TypesInvHolds, VersionsInvHolds, NobodyInvHolds, RowsReadHolds, PTL DEF Spec

\* Outside a change of password or MFA, every session that counts was signed in,
\* or kept by the change, under what is needed to sign in now; until a restore
\* replaces the row, or the process stops within such a change.
THEOREM SessionsMatchHolds == Spec => []SessionsMatch
<1>1. TypesInv /\ MatchInv => SessionsMatch
  BY DEF MatchInv, CookiesMatch, Matches, SessionsMatch, Settled, Valid
<1> QED
  BY <1>1, TypesInvHolds, MatchInvHolds, PTL

-------------------------------------------------------------------------------
(* DevicesMatch                                                            *)

Forgetting == \E c \in Client : pc[c] = "forget"

\* What a sign-in that asks to be trusted will note of its device.
Pending(c) ==
    req[c].trust /\ ~req[c].late =>
        /\ pc[c] = "insert" => req[c].sess.cred = Cred(user)
        /\ pc[c] \in {"code", "claim"} => Cred(req[c].row) = Cred(user)

DevicesNow == \A d \in devices \ strays : made[d] = Cred(user)
DevicesInv == Forgetting \/ cut \/ (DevicesNow /\ \A c \in Client : Pending(c))

\* One client's request moves on, and asks for no trust.
LEMMA DevicesKept ==
    ASSUME HandsInv, DevicesInv, NEW c \in Client,
           \A d \in Client : d # c => pc'[d] = pc[d] /\ req'[d] = req[d],
           Cred(user') = Cred(user), devices' \subseteq devices, UNCHANGED <<made, strays, cut>>,
           pc[c] # "forget", Pending(c)'
    PROVE  DevicesInv'
<1>1. CASE Forgetting \/ cut
  BY <1>1 DEF Forgetting, DevicesInv
<1>2. CASE DevicesNow /\ \A d \in Client : Pending(d)
  <2>1. DevicesNow'
    BY <1>2 DEF DevicesNow
  <2>2. \A d \in Client : Pending(d)'
    BY <1>2 DEF Pending
  <2> QED  BY <2>1, <2>2 DEF DevicesInv
<1> QED
  BY <1>1, <1>2 DEF DevicesInv

\* The devices are forgotten, and who was about to add one is marked late.
LEMMA DevicesGone ==
    ASSUME devices' = {},
           \A d \in Client : \/ ~req'[d].trust \/ req'[d].late
                             \/ pc'[d] \notin {"code", "claim", "insert"}
    PROVE  DevicesInv'
  BY DEF DevicesInv, DevicesNow, Pending

LEMMA OverlapHand ==
    ASSUME HandsInv, NEW c \in Client, NEW d \in Client
    PROVE  Overlap(c, req[c])[d].late \/ ~Overlap(c, req[c])[d].trust \/ d = c
  BY DEF HandsInv, Requests, Overlap

LEMMA EndedTrust ==
    \A q \in Requests : LET e == [q EXCEPT !.sess = End(@)]
                        IN e.trust = q.trust /\ e.late = q.late /\ e.row = q.row /\ e.sess.cred = q.sess.cred
<1> SUFFICES ASSUME NEW q \in Requests, NEW e, e = [q EXCEPT !.sess = End(@)]
             PROVE  e.trust = q.trust /\ e.late = q.late /\ e.row = q.row /\ e.sess.cred = q.sess.cred
  BY Zenon
<1> DEFINE s == End(q.sess)
<1>1. s.cred = q.sess.cred
  BY HandFields DEF End, Sessions
<1>2. e = [q EXCEPT !.sess = s]
  OBVIOUS
<1> HIDE DEF s
<1>3. e.trust = q.trust /\ e.late = q.late /\ e.row = q.row /\ e.sess = s
  BY <1>2 DEF Requests
<1> QED
  BY <1>1, <1>3

LEMMA DevicesInvHolds == Spec => []DevicesInv
<1>1. ASSUME Init PROVE DevicesInv
  BY <1>1 DEF Init, DevicesInv, DevicesNow, Pending, NoRequest
<1>2. TypesInv /\ NobodyInv /\ TrustInv /\ TrustInv' /\ DevicesInv /\ [Next]_vars => DevicesInv'
  <2> SUFFICES ASSUME HandsInv, AccountInv, WorkInv, NobodyInv, TrustInv, TrustInv', DevicesInv, [Next]_vars
               PROVE  DevicesInv'
    BY DEF TypesInv
  <2> USE DEF HandsInv
  <2>0. ~NoRequest.trust /\ user \in Rows
    BY DEF NoRequest, AccountInv
  <2>00. ASSUME NEW c \in Client, pc'[c] \notin {"code", "claim", "insert"} PROVE Pending(c)'
    BY <2>00 DEF Pending
  <2>1. ASSUME NEW c \in Client, NEW p, SendSetup(c, p) PROVE DevicesInv'
    <3>1. \A d \in Client : d # c => req'[d] = req[d]
      BY <2>1 DEF SendSetup
    <3> QED
      BY <2>1, <2>00, <3>1, DevicesKept DEF SendSetup, Go, row, ghosts
  <2>2. ASSUME NEW c \in Client, CreateFirstUser(c) PROVE DevicesInv'
    <3>1. CASE Exists
      <4>1. user' = user /\ pc' = [pc EXCEPT ![c] = "idle"] /\ req' = [req EXCEPT ![c] = NoRequest]
        BY <2>2, <3>1 DEF CreateFirstUser, Refuse, Go
      <4> QED
        BY <2>2, <2>00, <4>1, DevicesKept DEF CreateFirstUser, ghosts
    <3>2. CASE ~Exists
      <4>1. devices = {} /\ devices' = {} /\ pc' = [pc EXCEPT ![c] = "greet"] /\ req' = req
        BY <2>2, <3>2 DEF CreateFirstUser, NobodyInv, Go
      <4>2. \A d \in Client : pc[d] \notin {"code", "claim", "insert"}
        BY <3>2 DEF WorkInv
      <4> QED
        BY <4>1, <4>2, DevicesGone
    <3> QED
      BY <3>1, <3>2
  <2>3. ASSUME NEW c \in Client, Greet(c) PROVE DevicesInv'
    BY <2>0, <2>00, <2>3, DevicesKept DEF Greet, Respond, Go, row, ghosts
  <2>4. ASSUME NEW c \in Client, NEW t, Login(c, t) PROVE DevicesInv'
    <3>1. CASE req' = [req EXCEPT ![c].sess = Session(user, TRUE), ![c].trust = TRUE] /\ pc' = [pc EXCEPT ![c] = "insert"]
      <4>1. Session(user, TRUE).cred = Cred(user)
        BY DEF Session, NoSession
      <4>2. req'[c].sess = Session(user, TRUE)
        BY <3>1 DEF Requests
      <4>3. Pending(c)'
        BY <2>4, <3>1, <4>1, <4>2 DEF Pending, Login, row
      <4> QED
        BY <2>4, <3>1, <4>3, DevicesKept DEF Login, row, ghosts
    <3>2. CASE req' = [req EXCEPT ![c] = NoRequest] /\ pc' = [pc EXCEPT ![c] = "idle"]
      BY <2>4, <2>00, <3>2, DevicesKept DEF Login, row, ghosts
    <3> QED
      BY <2>4, <3>1, <3>2 DEF Login, Respond, Go
  <2>5. ASSUME NEW c \in Client, NEW s, NEW n, NEW t, SendCode(c, s, n, t) PROVE DevicesInv'
    <3>1. CASE user.secret = None
      BY <2>5, <2>00, <3>1, DevicesKept DEF SendCode, Respond, Go, row, ghosts
    <3>2. CASE user.secret # None
      <4>1. req'[c].row = user /\ \A d \in Client : d # c => req'[d] = req[d]
        BY <2>5, <3>2 DEF SendCode, Requests
      <4>2. pc' = [pc EXCEPT ![c] = "code"]
        BY <2>5, <3>2 DEF SendCode, Go
      <4>3. Pending(c)'
        BY <2>5, <4>1, <4>2 DEF Pending, SendCode, row
      <4> QED
        BY <2>5, <4>1, <4>2, <4>3, DevicesKept DEF SendCode, row, ghosts
    <3> QED
      BY <3>1, <3>2
  <2>6. ASSUME NEW c \in Client, CheckCode(c) PROVE DevicesInv'
    <3>1. CASE req' = req /\ pc' = [pc EXCEPT ![c] = "claim"]
      BY <2>6, <3>1 DEF CheckCode, DevicesInv, DevicesNow, Pending, Forgetting, row, ghosts
    <3>2. CASE req' = [req EXCEPT ![c] = NoRequest] /\ pc' = [pc EXCEPT ![c] = "idle"]
      BY <2>6, <2>00, <3>2, DevicesKept DEF CheckCode, row, ghosts
    <3> QED
      BY <2>6, <3>1, <3>2 DEF CheckCode, Refuse, Go
  <2>7. ASSUME NEW c \in Client, ClaimTotpStep(c) PROVE DevicesInv'
    <3>1. Cred(user') = Cred(user) /\ UNCHANGED <<devices, made, strays, cut>> /\ pc[c] = "claim"
      BY <2>0, <2>7 DEF ClaimTotpStep, Cred, Rows
    <3>2. CASE req' = [req EXCEPT ![c].sess = Session(req[c].row, TRUE)] /\ pc' = [pc EXCEPT ![c] = "insert"]
      <4>1. Session(req[c].row, TRUE).cred = Cred(req[c].row)
        BY DEF Session, NoSession
      <4>2. /\ req'[c].sess = Session(req[c].row, TRUE) /\ req'[c].trust = req[c].trust
            /\ req'[c].late = req[c].late /\ \A d \in Client : d # c => req'[d] = req[d]
        BY <3>2 DEF Requests
      <4>3. CASE Forgetting \/ cut
        BY <3>1, <3>2, <4>3 DEF Forgetting, DevicesInv
      <4>4. CASE \A d \in Client : Pending(d)
        <5>1. Pending(c)'
          BY <3>1, <3>2, <4>1, <4>2, <4>4 DEF Pending
        <5> QED
          BY <3>1, <3>2, <4>2, <5>1, DevicesKept
      <4> QED
        BY <4>3, <4>4 DEF DevicesInv
    <3>3. CASE req' = [req EXCEPT ![c] = NoRequest] /\ pc' = [pc EXCEPT ![c] = "idle"]
      BY <2>00, <3>1, <3>3, DevicesKept
    <3>4. CASE req' = req /\ pc' = [pc EXCEPT ![c] = "turnOff"]
      BY <2>00, <3>1, <3>4, DevicesKept
    <3> QED
      BY <2>7, <3>2, <3>3, <3>4 DEF ClaimTotpStep, Accept, Respond, Refuse, Go
  <2>8. ASSUME NEW c \in Client, NEW d \in Device, InsertDevice(c, d) PROVE DevicesInv'
    <3>1. /\ user' = user /\ cut' = cut /\ pc[c] = "insert" /\ devices' = devices \cup {d}
          /\ made' = [made EXCEPT ![d] = req[c].sess.cred]
          /\ strays' = IF req[c].late THEN strays \cup {d} ELSE strays
          /\ pc' = [pc EXCEPT ![c] = "idle"] /\ req' = [req EXCEPT ![c] = NoRequest]
      BY <2>8 DEF InsertDevice, CreateTrustedDevice, Respond, Go
    <3>2. CASE Forgetting \/ cut
      BY <3>1, <3>2 DEF Forgetting, DevicesInv
    <3>3. CASE DevicesNow /\ \A e \in Client : Pending(e)
      <4>1. req[c].late \/ req[c].sess.cred = Cred(user)
        BY <3>1, <3>3 DEF Pending, TrustInv
      <4>2. DevicesNow'
        BY <3>1, <3>3, <4>1 DEF DevicesNow, AccountInv
      <4>3. \A e \in Client : Pending(e)'
        BY <3>1, <3>3 DEF Pending
      <4> QED
        BY <4>2, <4>3 DEF DevicesInv
    <3> QED
      BY <3>2, <3>3 DEF DevicesInv
  <2>9. ASSUME NEW c \in Client, NEW d, DeleteDevice(c, d) PROVE DevicesInv'
    BY <2>0, <2>00, <2>9, DevicesKept DEF DeleteDevice, Respond, Go, Authed, row, ghosts, DeleteTrustedDevice
  <2>10. ASSUME NEW c \in Client, Enter(c) PROVE DevicesInv'
    BY <2>0, <2>00, <2>10, DevicesKept DEF Enter, Respond, Go, row, ghosts
  <2>11. ASSUME NEW c \in Client, AutoLogin(c) PROVE DevicesInv'
    BY <2>0, <2>00, <2>11, DevicesKept DEF AutoLogin, Go, row, ghosts
  <2>12. ASSUME NEW c \in Client, ViewPage(c) PROVE DevicesInv'
    BY <2>0, <2>00, <2>12, DevicesKept DEF ViewPage, Respond, Go, Authed, row, ghosts
  <2>13. ASSUME NEW c \in Client, ReauthPassword(c) PROVE DevicesInv'
    BY <2>0, <2>00, <2>13, DevicesKept DEF ReauthPassword, Respond, Go, Authed, row, ghosts
  <2>14. ASSUME NEW c \in Client, ReauthLapses(c) PROVE DevicesInv'
    BY <2>14 DEF ReauthLapses, DevicesInv, DevicesNow, Pending, Forgetting, row, ghosts
  <2>15. ASSUME NEW c \in Client, NEW s, NEW n, ReauthCode(c, s, n) PROVE DevicesInv'
    <3>1. ~req'[c].trust /\ \A d \in Client : d # c => req'[d] = req[d]
      BY <2>15 DEF ReauthCode, Authed, TrustInv, Requests
    <3>2. Pending(c)'
      BY <3>1 DEF Pending
    <3> QED
      BY <2>15, <3>1, <3>2, DevicesKept DEF ReauthCode, Authed, Go, row, ghosts
  <2>16. ASSUME NEW c \in Client, NEW s, NEW n, MfaDisable(c, s, n) PROVE DevicesInv'
    <3>1. ~req'[c].trust /\ \A d \in Client : d # c => req'[d] = req[d]
      BY <2>16 DEF MfaDisable, Authed, TrustInv, Requests
    <3>2. Pending(c)'
      BY <3>1 DEF Pending
    <3> QED
      BY <2>16, <3>1, <3>2, DevicesKept DEF MfaDisable, Authed, Go, row, ghosts
  <2>17. ASSUME NEW c \in Client, NEW s, MfaSetup(c, s) PROVE DevicesInv'
    BY <2>0, <2>00, <2>17, DevicesKept DEF MfaSetup, Respond, Go, Authed, row, ghosts
  <2>18. ASSUME NEW c \in Client, NEW n, MfaConfirm(c, n) PROVE DevicesInv'
    BY <2>18 DEF MfaConfirm, Go, DevicesInv, Forgetting
  <2>19. ASSUME NEW c \in Client, TurnOff(c) PROVE DevicesInv'
    BY <2>19 DEF TurnOff, Go, DevicesInv, Forgetting
  <2>20. ASSUME NEW c \in Client, DeleteTrustedDevices(c) PROVE DevicesInv'
    BY <2>20, OverlapHand, DevicesGone DEF DeleteTrustedDevices, Go
  <2>21. ASSUME NEW c \in Client, BumpSessionVersion(c) PROVE DevicesInv'
    <3>1. /\ Cred(user') = Cred(user) /\ UNCHANGED <<devices, made, strays, cut>> /\ pc[c] # "forget"
          /\ pc'[c] \notin {"code", "claim", "insert"} /\ \A d \in Client : d # c => pc'[d] = pc[d]
      BY <2>0, <2>21 DEF BumpSessionVersion, Authed, Go, ghosts, Cred, Rows
    <3>2. \A d \in Client : d # c => /\ req'[d].trust = req[d].trust /\ req'[d].late = req[d].late
                                     /\ req'[d].row = req[d].row /\ req'[d].sess.cred = req[d].sess.cred
      BY <2>21, EndedTrust DEF BumpSessionVersion, EndOthers, Requests
    <3>3. CASE Forgetting \/ cut
      BY <3>1, <3>3 DEF Forgetting, DevicesInv
    <3>4. CASE DevicesNow /\ \A d \in Client : Pending(d)
      <4>1. DevicesNow'
        BY <3>1, <3>4 DEF DevicesNow
      <4>2. \A d \in Client : Pending(d)'
        BY <2>00, <3>1, <3>2, <3>4 DEF Pending
      <4> QED
        BY <4>1, <4>2 DEF DevicesInv
    <3> QED
      BY <3>3, <3>4 DEF DevicesInv
  <2>22. ASSUME NEW c \in Client, MfaRevokeDevices(c) PROVE DevicesInv'
    BY <2>22, OverlapHand, DevicesGone DEF MfaRevokeDevices, Go
  <2>23. ASSUME NEW c \in Client, Logout(c) PROVE DevicesInv'
    BY <2>23 DEF Logout, DeleteTrustedDeviceByToken, DevicesInv, DevicesNow, Pending, Forgetting, ghosts
  <2>24. ASSUME NEW c \in Client, NEW a, RequirePassword(c, a) PROVE DevicesInv'
    BY <2>0, <2>00, <2>24, DevicesKept DEF RequirePassword, UpdateUserRequirePassword, Respond, Go, Authed, row, ghosts, Cred, Rows
  <2>25. ASSUME NEW c \in Client, Backup(c) PROVE DevicesInv'
    BY <2>0, <2>00, <2>25, DevicesKept DEF Backup, Respond, Go, Authed, row, ghosts
  <2>26. ASSUME NEW c \in Client, RestoreUsers(c) PROVE DevicesInv'
    <3>1. \A d \in Client : d # c => req'[d].late \/ ~req'[d].trust
      BY <2>26, RestoredHands DEF Requests
    <3> QED
      BY <2>26, <3>1, DevicesGone DEF RestoreUsers, Go
  <2>27. ASSUME NEW c \in Client, RestoreOthers(c) PROVE DevicesInv'
    <3>1. /\ Cred(user') = Cred(user) /\ UNCHANGED <<devices, made, strays, cut>> /\ pc[c] # "forget"
          /\ pc'[c] \notin {"code", "claim", "insert"} /\ \A d \in Client : d # c => pc'[d] = pc[d]
      BY <2>0, <2>27 DEF RestoreOthers, Authed, Go, ghosts, Cred, Rows
    <3>2. \A d \in Client : d # c => /\ req'[d].trust = req[d].trust /\ req'[d].late = req[d].late
                                     /\ req'[d].row = req[d].row /\ req'[d].sess.cred = req[d].sess.cred
      BY <2>27, EndedTrust DEF RestoreOthers, Requests
    <3>3. CASE Forgetting \/ cut
      BY <3>1, <3>3 DEF Forgetting, DevicesInv
    <3>4. CASE DevicesNow /\ \A d \in Client : Pending(d)
      <4>1. DevicesNow'
        BY <3>1, <3>4 DEF DevicesNow
      <4>2. \A d \in Client : Pending(d)'
        BY <2>00, <3>1, <3>2, <3>4 DEF Pending
      <4> QED
        BY <4>1, <4>2 DEF DevicesInv
    <3> QED
      BY <3>3, <3>4 DEF DevicesInv
  <2>28. ASSUME NEW c \in Client, KeepSession(c) PROVE DevicesInv'
    BY <2>0, <2>00, <2>28, DevicesKept DEF KeepSession, Respond, Go, row, ghosts
  <2>29. ASSUME NEW c \in Client, NEW d \in Client, OpenTab(c, d) PROVE DevicesInv'
    BY <2>29 DEF OpenTab, DevicesInv, DevicesNow, Pending, Forgetting, row, ghosts
  <2>30. ASSUME Tick PROVE DevicesInv'
    BY <2>30 DEF Tick, DevicesInv, DevicesNow, Pending, Forgetting, row, ghosts
  <2>31. ASSUME NEW d, ExpireDevice(d) PROVE DevicesInv'
    BY <2>31 DEF ExpireDevice, DevicesInv, DevicesNow, Pending, Forgetting, ghosts
  <2>32. ASSUME Restart PROVE DevicesInv'
    BY <2>32, <2>0 DEF Restart, StopAndStart, DevicesInv, DevicesNow, Pending, Forgetting, Quiet, row
  <2>33. ASSUME ResetMfa PROVE DevicesInv'
    BY <2>33, <2>0, DevicesGone DEF ResetMfa, StopAndStart
  <2>34. ASSUME NEW p, ResetPassword(p) PROVE DevicesInv'
    BY <2>34, <2>0, DevicesGone DEF ResetPassword, ResetUserPassword, StopAndStart
  <2>90. CASE UNCHANGED vars
    BY <2>90 DEF vars, row, ghosts, DevicesInv, DevicesNow, Pending, Forgetting
  <2> QED
    BY <2>90, <2>1, <2>2, <2>3, <2>4, <2>5, <2>6, <2>7, <2>8, <2>9, <2>10, <2>11, <2>12, <2>13, <2>14, <2>15, <2>16, <2>17, <2>18, <2>19, <2>20, <2>21, <2>22, <2>23, <2>24, <2>25, <2>26, <2>27, <2>28, <2>29, <2>30, <2>31, <2>32, <2>33, <2>34 DEF Next
<1> QED
  BY <1>1, <1>2, TypesInvHolds, NobodyInvHolds, TrustInvHolds, PTL DEF Spec

\* Outside a change of password or MFA, a trusted device was made under what is
\* needed to sign in now, unless its sign-in overlapped the forgetting of the
\* devices (account.py, delete_trusted_devices), or the process stopped within a
\* change.
THEOREM DevicesMatchHolds == Spec => []DevicesMatch
<1>1. DevicesInv => DevicesMatch
  BY DEF DevicesInv, DevicesNow, DevicesMatch, Forgetting, Quiet
<1> QED
  BY <1>1, DevicesInvHolds, PTL
===============================================================================
