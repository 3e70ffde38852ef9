-------------------------- MODULE CrlPublishing_proof --------------------------
(***************************************************************************)
(* Proofs about CrlPublishing, for any number of threads and certificates, *)
(* with and without a Worker, encryption and restarts.                     *)
(***************************************************************************)
EXTENDS CrlHistory, TLAPS

USE DpAssumption, NoCrlAssumption, FlagAssumption, RestartAssumption, RenewerAssumption

\* Every variable keeps its type: for example, no handler ever stores a list
\* that is not a set of certificates in crl_der.
THEOREM TypeCorrect == Spec => []TypeOK
<1> USE DEF TypeOK, List, Status, Pc, Proc, RevokedSerials, database, locals
<1>1. ASSUME Init PROVE TypeOK
  <2>1. crlDer \in List /\ remote \in List /\ pushed \in List
    BY <1>1 DEF Init
  <2>2. unlocked \in BOOLEAN
    BY <1>1 DEF Init
  <2>3. restarts \in 0..MaxRestarts
    BY <1>1, RestartAssumption DEF Init
  <2>4. /\ todo \in [Proc -> SUBSET Cert]
        /\ snap \in [Proc -> List]
        /\ pc \in [Proc -> Pc]
    BY <1>1 DEF Init
  <2> QED
    BY <1>1, <2>1, <2>2, <2>3, <2>4 DEF Init
<1>2. TypeOK /\ [Next]_vars => TypeOK'
  <2> SUFFICES ASSUME TypeOK, [Next]_vars
               PROVE  TypeOK'
    OBVIOUS
  <2>1. ASSUME NEW t \in Thread, Request(t)
        PROVE  TypeOK'
    <3>1. ASSUME NEW c \in Cert, IssueCert(t, c) PROVE TypeOK'
      BY <3>1 DEF IssueCert, Goto
    <3>2. ASSUME NEW S \in SUBSET Cert, BeginRevoking(t, S) PROVE TypeOK'
      BY <3>2 DEF BeginRevoking, Goto
    <3>3. ASSUME PublishNow(t) PROVE TypeOK'
      BY <3>3 DEF PublishNow, Goto
    <3> QED
      BY <2>1, <3>1, <3>2, <3>3
      DEF Request, RevokeOne, RevokeOwn, Disconnect, PushNow, SetLifetime
  <2>2. ASSUME NEW p \in Proc, Continue(p)
        PROVE  TypeOK'
    <3>1. CASE SetCrlPublic(p)
      BY <3>1 DEF SetCrlPublic, Goto
    <3>2. ASSUME NEW c \in Cert, RevokeCert(p, c) PROVE TypeOK'
      BY <3>2 DEF RevokeCert, Goto
    <3>3. CASE SignStart(p)
      BY <3>3 DEF SignStart, Goto, Finish
    <3>4. CASE ReadRevoked(p)
      BY <3>4 DEF ReadRevoked, Goto
    <3>5. CASE PublishCrl(p)
      BY <3>5 DEF PublishCrl, Goto
    <3>6. CASE PushStart(p)
      BY <3>6 DEF PushStart, Goto, Finish
    <3>7. CASE SendOk(p)
      BY <3>7 DEF SendOk, Goto
    <3>8. CASE SendFails(p)
      BY <3>8 DEF SendFails, Goto
    <3>9. CASE RecordPushed(p)
      BY <3>9 DEF RecordPushed, Goto, Finish
    <3>10. CASE RecordPushError(p)
      BY <3>10 DEF RecordPushError, Goto, Finish
    <3> QED
      BY <2>2, <3>1, <3>2, <3>3, <3>4, <3>5, <3>6, <3>7, <3>8, <3>9, <3>10 DEF Continue
  <2>3. CASE RenewDue
    BY <2>3 DEF RenewDue, Goto
  <2>4. ASSUME NEW c \in Cert, DeleteCert(c) \/ Lapse(c) PROVE TypeOK'
    BY <2>4 DEF DeleteCert, Lapse
  <2>5. CASE HalfLife
    BY <2>5 DEF HalfLife
  <2>6. CASE Restart
    BY <2>6 DEF Restart
  <2>7. CASE Unlock
    BY <2>7 DEF Unlock
  <2>8. CASE UNCHANGED vars
    BY <2>8 DEF vars
  <2> QED
    BY <2>1, <2>2, <2>3, <2>4, <2>5, <2>6, <2>7, <2>8 DEF Next
<1> QED
  BY <1>1, <1>2, PTL DEF Spec

-------------------------------------------------------------------------------

\* No step takes a certificate off the list of those ever revoked.
LEMMA EverRevokedGrows ==
    ASSUME TypeOK, [Next]_vars
    PROVE  EverRevoked \subseteq EverRevoked'
<1> USE DEF EverRevoked, TypeOK, database, locals
<1>1. ASSUME NEW t \in Thread, NEW c \in Cert, IssueCert(t, c)
      PROVE  EverRevoked \subseteq EverRevoked'
  BY <1>1 DEF IssueCert
<1>2. ASSUME NEW p \in Proc, NEW c \in Cert, RevokeCert(p, c)
      PROVE  EverRevoked \subseteq EverRevoked'
  BY <1>2 DEF RevokeCert
<1>3. ASSUME NEW c \in Cert, DeleteCert(c) \/ Lapse(c)
      PROVE  EverRevoked \subseteq EverRevoked'
  BY <1>3 DEF DeleteCert, Lapse
<1>4. CASE UNCHANGED status
  BY <1>4
<1> QED
  BY <1>1, <1>2, <1>3, <1>4
  DEF Next, Request, Continue, vars, BeginRevoking, RevokeOne, RevokeOwn, Disconnect, PublishNow,
      PushNow, SetLifetime, SetCrlPublic,
      SignStart, ReadRevoked, PublishCrl, PushStart, SendOk, SendFails, RecordPushed,
      RecordPushError, RenewDue, HalfLife, Restart, Unlock

\* Deleting a certificate never takes a revocation off the record
\* (db.delete_cert): it stays there, deleted or not, until the certificate has
\* expired, whoever revokes, deletes or issues at the same time.
THEOREM RevocationSurvivesDeletionHolds == Spec => RevocationSurvivesDeletion
<1> DEFINE Survives == \A c \in RevokedSerials : \/ status'[c] \in {"revoked", "kept"}
                                                 \/ status[c] = "kept" /\ status'[c] = "lapsed"
<1>1. TypeOK /\ [Next]_vars => [Survives]_status
  <2> SUFFICES ASSUME TypeOK, [Next]_vars, status' # status
               PROVE  Survives
    OBVIOUS
  <2>1. \A c \in RevokedSerials : status[c] \in {"revoked", "kept"}
    BY DEF RevokedSerials
  <2>2. ASSUME NEW t \in Thread, NEW c \in Cert, IssueCert(t, c) PROVE Survives
    BY <2>1, <2>2 DEF IssueCert, TypeOK
  <2>3. ASSUME NEW p \in Proc, NEW c \in Cert, RevokeCert(p, c) PROVE Survives
    BY <2>1, <2>3 DEF RevokeCert, TypeOK
  <2>4. ASSUME NEW c \in Cert, DeleteCert(c) PROVE Survives
    BY <2>1, <2>4 DEF DeleteCert, TypeOK, RevokedSerials
  <2>5. ASSUME NEW c \in Cert, Lapse(c) PROVE Survives
    BY <2>1, <2>5 DEF Lapse, TypeOK, RevokedSerials
  <2> QED
    BY <2>2, <2>3, <2>4, <2>5
    DEF Next, Request, Continue, vars, BeginRevoking, RevokeOne, RevokeOwn, Disconnect, PublishNow,
        PushNow, SetLifetime, SetCrlPublic, SignStart, ReadRevoked, PublishCrl, PushStart, SendOk,
        SendFails, RecordPushed, RecordPushError, RenewDue, HalfLife, Restart, Unlock, database
<1> QED
  BY <1>1, TypeCorrect, PTL DEF Spec, RevocationSurvivesDeletion

\* Neither this server nor the Worker ever serves a certificate nobody
\* revoked, and no thread is about to make them.
THEOREM NothingInventedHolds == Spec => []NothingInvented
<1> USE DEF NothingInvented, OnList
<1>1. Init => NothingInvented
  BY DEF Init
<1>2. TypeOK /\ NothingInvented /\ [Next]_vars => NothingInvented'
  <2> SUFFICES ASSUME TypeOK, NothingInvented, [Next]_vars
               PROVE  NothingInvented'
    OBVIOUS
  <2>0. EverRevoked \subseteq EverRevoked'
    BY EverRevokedGrows
  <2>1. CASE UNCHANGED <<crlDer, remote, snap>>
    BY <2>0, <2>1
  <2>2. ASSUME NEW p \in Proc, ReadRevoked(p) PROVE NothingInvented'
    <3>1. RevokedSerials \subseteq EverRevoked'
      BY <2>0 DEF RevokedSerials, EverRevoked
    <3> QED
      BY <2>0, <2>2, <3>1 DEF ReadRevoked, database, TypeOK
  <2>3. ASSUME NEW p \in Proc, PublishCrl(p) PROVE NothingInvented'
    BY <2>0, <2>3 DEF PublishCrl, TypeOK
  <2>4. ASSUME NEW p \in Proc, SendOk(p) \/ SendFails(p) PROVE NothingInvented'
    BY <2>0, <2>4 DEF SendOk, SendFails, database, TypeOK
  <2>5. ASSUME NEW p \in Proc, PushStart(p) PROVE NothingInvented'
    BY <2>0, <2>5 DEF PushStart, Finish, database, TypeOK
  <2>6. ASSUME NEW p \in Proc, SignStart(p) \/ RecordPushed(p) \/ RecordPushError(p)
        PROVE  NothingInvented'
    BY <2>0, <2>6 DEF SignStart, RecordPushed, RecordPushError, Finish, database, TypeOK
  <2>7. CASE Restart
    BY <2>0, <2>7 DEF Restart, database
  <2> QED
    BY <2>1, <2>2, <2>3, <2>4, <2>5, <2>6, <2>7
    DEF Next, Request, Continue, vars, database, locals, IssueCert, BeginRevoking, RevokeOne, RevokeOwn,
        Disconnect, PublishNow, PushNow, SetLifetime, SetCrlPublic, RevokeCert, RenewDue, DeleteCert, Lapse, HalfLife, Unlock
<1> QED
  BY <1>1, <1>2, TypeCorrect, PTL DEF Spec

-------------------------------------------------------------------------------

\* A handler that revokes and then publishes writes a list with every
\* revocation of its own, whatever else happens to those certificates.
THEOREM OwnRevocationsHold == Spec => []OwnRevocationsPublished
<1> USE DEF OwnRevocationsInv
<1>1. Init => OwnRevocationsInv
  BY DEF Init
<1>2. TypeOK /\ OwnRevocationsInv /\ [Next]_vars => OwnRevocationsInv'
  <2> SUFFICES ASSUME TypeOK, OwnRevocationsInv, [Next]_vars
               PROVE  OwnRevocationsInv'
    OBVIOUS
  <2> USE DEF TypeOK, RevokedSerials, OnList, database, locals
  <2>1. ASSUME NEW t \in Thread, NEW c \in Cert, IssueCert(t, c) PROVE OwnRevocationsInv'
    <3>1. pc'[t] # "write" /\ \A q \in Proc : q # t => pc'[q] = pc[q]
      BY <2>1 DEF IssueCert, Goto, Proc
    <3>2. \A q \in Proc : c \notin mine[q]
      BY <2>1 DEF IssueCert
    <3>3. RevokedSerials' = RevokedSerials
      BY <2>1 DEF IssueCert
    <3>4. todo[t] = {}
      BY <2>1 DEF IssueCert, Proc
    <3> QED
      BY <2>1, <3>1, <3>2, <3>3, <3>4 DEF IssueCert
  <2>2. ASSUME NEW t \in Thread, NEW S \in SUBSET Cert, BeginRevoking(t, S)
        PROVE  OwnRevocationsInv'
    BY <2>2 DEF BeginRevoking, Goto, Proc
  <2>3. ASSUME NEW p \in Proc, NEW c \in Cert, RevokeCert(p, c) PROVE OwnRevocationsInv'
    <3>1. ASSUME NEW q \in Proc, NEW d \in mine[q] PROVE status'[d] = status[d]
      BY <2>3, <3>1 DEF RevokeCert
    <3>2. \A q \in Proc : mine[q] \cap RevokedSerials' = mine[q] \cap RevokedSerials
      BY <3>1
    <3>3. pc'[p] # "write" /\ \A q \in Proc : q # p => pc'[q] = pc[q]
      BY <2>3 DEF RevokeCert, Goto
    <3>4. status'[c] \notin {"absent", "live"}
      BY <2>3 DEF RevokeCert
    <3>5. \A q \in Proc : \A d \in todo'[q] : status'[d] # "absent"
      BY <2>3 DEF RevokeCert
    <3>6. \A q \in Proc : \A d \in mine'[q] : status'[d] \notin {"absent", "live"}
      BY <2>3, <3>1, <3>4 DEF RevokeCert
    <3>7. \A q \in Proc : pc'[q] # "revoke" => todo'[q] = {}
      BY <2>3 DEF RevokeCert, Goto
    <3>8. \A q \in Proc : q # p => mine'[q] = mine[q] /\ snap'[q] = snap[q]
      BY <2>3 DEF RevokeCert
    <3> QED
      BY <3>2, <3>3, <3>5, <3>6, <3>7, <3>8
  <2>4. ASSUME NEW p \in Proc, ReadRevoked(p) PROVE OwnRevocationsInv'
    <3>1. RevokedSerials \in SUBSET Cert
      OBVIOUS
    <3>2. OnList(RevokedSerials) = RevokedSerials
      BY <3>1, NoCrlAssumption DEF NoCrlAssumption
    <3> QED
      BY <2>4, <3>2 DEF ReadRevoked, Goto
  <2>5. ASSUME NEW p \in Proc,
               SetCrlPublic(p) \/ PublishCrl(p) \/ SendOk(p) \/ SendFails(p)
        PROVE  OwnRevocationsInv'
    BY <2>5 DEF SetCrlPublic, PublishCrl, SendOk, SendFails, Goto
  <2>6. ASSUME NEW p \in Proc,
               SignStart(p) \/ PushStart(p) \/ RecordPushed(p) \/ RecordPushError(p)
        PROVE  OwnRevocationsInv'
    BY <2>6 DEF SignStart, PushStart, RecordPushed, RecordPushError, Goto, Finish
  <2>7. ASSUME NEW t \in Thread, PublishNow(t) PROVE OwnRevocationsInv'
    BY <2>7 DEF PublishNow, Goto, Proc
  <2>8. CASE RenewDue
    BY <2>8 DEF RenewDue, Goto, Proc
  <2>9. ASSUME NEW c \in Cert, DeleteCert(c) \/ Lapse(c) PROVE OwnRevocationsInv'
    <3>1. RevokedSerials' \subseteq RevokedSerials
      BY <2>9 DEF DeleteCert, Lapse
    <3>2. \A d \in Cert : status'[d] = status[d] \/ status'[d] \in {"kept", "deleted", "lapsed"}
      BY <2>9 DEF DeleteCert, Lapse
    <3> QED
      BY <2>9, <3>1, <3>2 DEF DeleteCert, Lapse
  <2>10. CASE Restart
    BY <2>10 DEF Restart
  <2>11. CASE HalfLife \/ Unlock \/ UNCHANGED vars
    BY <2>11 DEF HalfLife, Unlock, vars
  <2> QED
    BY <2>1, <2>2, <2>3, <2>4, <2>5, <2>6, <2>7, <2>8, <2>9, <2>10, <2>11
    DEF Next, Request, Continue, RevokeOne, RevokeOwn, Disconnect, PushNow, SetLifetime
<1>3. OwnRevocationsInv => OwnRevocationsPublished
  BY DEF OwnRevocationsPublished
<1> QED
  BY <1>1, <1>2, <1>3, TypeCorrect, PTL DEF Spec

-------------------------------------------------------------------------------
(* The history variable and the refinement of CrlPromise *)

\* Without its history variable a behaviour of HistorySpec is one of Spec.
LEMMA HistoryForgets == HistorySpec => Spec
<1>1. HistoryInit => Init
  BY DEF HistoryInit
<1>2. [HistoryNext]_historyVars => [Next]_vars
  BY DEF HistoryNext, historyVars, vars
<1> QED
  BY <1>1, <1>2, PTL DEF HistorySpec, Spec

\* Every list that is out, or on its way out, is one the record held.
THEOREM ListsComeFromPast == HistorySpec => []ListsFromPast
<1> USE DEF ListsFromPast
<1>1. HistoryInit => ListsFromPast
  BY DEF HistoryInit, Init, RevokedSerials
<1>2. TypeOK /\ ListsFromPast /\ [HistoryNext]_historyVars => ListsFromPast'
  <2> SUFFICES ASSUME TypeOK, ListsFromPast, [HistoryNext]_historyVars
               PROVE  ListsFromPast'
    OBVIOUS
  <2>0. /\ past \subseteq past'
        /\ past' \subseteq SUBSET Cert
        /\ RevokedSerials' \in past'
    BY DEF HistoryNext, historyVars, vars, RevokedSerials
  <2>1. CASE UNCHANGED <<crlDer, remote, snap>> /\ \A p \in Proc : pc'[p] \in {"write", "send"} => pc'[p] = pc[p]
    BY <2>0, <2>1
  <2>2. ASSUME NEW p \in Proc, ReadRevoked(p) PROVE ListsFromPast'
    BY <2>0, <2>2 DEF ReadRevoked, Goto, database, TypeOK
  <2>3. ASSUME NEW p \in Proc, PublishCrl(p) PROVE ListsFromPast'
    BY <2>0, <2>3 DEF PublishCrl, Goto, TypeOK
  <2>4. ASSUME NEW p \in Proc, SendOk(p) \/ SendFails(p) PROVE ListsFromPast'
    BY <2>0, <2>4 DEF SendOk, SendFails, Goto, database, TypeOK
  <2>5. ASSUME NEW p \in Proc, PushStart(p) PROVE ListsFromPast'
    BY <2>0, <2>5 DEF PushStart, Goto, Finish, database, TypeOK
  <2>6. ASSUME NEW p \in Proc, SignStart(p) \/ RecordPushed(p) \/ RecordPushError(p)
        PROVE  ListsFromPast'
    BY <2>0, <2>6 DEF SignStart, RecordPushed, RecordPushError, Goto, Finish, database, TypeOK
  <2>7. CASE Restart
    BY <2>0, <2>7 DEF Restart, database
  <2>8. ASSUME NEW t \in Thread, Request(t) PROVE ListsFromPast'
    <3>1. UNCHANGED <<crlDer, remote, snap>>
      BY <2>8 DEF Request, IssueCert, BeginRevoking, RevokeOne, RevokeOwn, Disconnect, PublishNow,
      PushNow, SetLifetime, database
    <3>2. \A p \in Proc : pc'[p] \in {"write", "send"} => pc'[p] = pc[p]
      BY <2>8 DEF Request, IssueCert, BeginRevoking, RevokeOne, RevokeOwn, Disconnect, PublishNow,
      PushNow, SetLifetime, Goto, TypeOK
    <3> QED
      BY <2>1, <3>1, <3>2
  <2>9. ASSUME NEW p \in Proc, SetCrlPublic(p) \/ \E c \in Cert : RevokeCert(p, c)
        PROVE  ListsFromPast'
    BY <2>1, <2>9 DEF SetCrlPublic, RevokeCert, Goto, TypeOK
  <2>10. CASE RenewDue
    BY <2>1, <2>10 DEF RenewDue, Goto, database, TypeOK
  <2>11. CASE HalfLife \/ Unlock \/ UNCHANGED vars \/ \E c \in Cert : DeleteCert(c) \/ Lapse(c)
    BY <2>1, <2>11 DEF HalfLife, Unlock, vars, DeleteCert, Lapse, database, locals
  <2> QED
    BY <2>2, <2>3, <2>4, <2>5, <2>6, <2>7, <2>8, <2>9, <2>10, <2>11
    DEF HistoryNext, historyVars, Next, Continue, vars
<1> QED
  BY <1>1, <1>2, HistoryForgets, TypeCorrect, PTL DEF HistorySpec

\* A step leaves a served list alone, or replaces it by one from the past and
\* then leaves the record alone.
LEMMA ListChanges ==
    ASSUME TypeOK, ListsFromPast, ListsFromPast', [HistoryNext]_historyVars
    PROVE  /\ crlDer' = crlDer \/ (crlDer' \in past /\ UNCHANGED <<RevokedSerials, past>>)
           /\ remote' = remote \/ (remote' \in past /\ UNCHANGED <<RevokedSerials, past>>)
<1> USE DEF ListsFromPast, historyVars, vars, database
<1>0. ASSUME HistoryNext, UNCHANGED status
      PROVE  UNCHANGED <<RevokedSerials, past>>
  <2>1. RevokedSerials' = RevokedSerials
    BY <1>0 DEF RevokedSerials
  <2> QED
    BY <1>0, <2>1 DEF HistoryNext
<1>1. ASSUME NEW p \in Proc, PublishCrl(p), HistoryNext
      PROVE  crlDer' \in past /\ remote' = remote /\ UNCHANGED <<RevokedSerials, past>>
  BY <1>0, <1>1 DEF PublishCrl
<1>2. ASSUME NEW p \in Proc, SendOk(p) \/ SendFails(p), HistoryNext
      PROVE  /\ crlDer' = crlDer
             /\ remote' = remote \/ remote' \in past
             /\ UNCHANGED <<RevokedSerials, past>>
  BY <1>0, <1>2 DEF SendOk, SendFails
<1>3. CASE UNCHANGED <<crlDer, remote>>
  BY <1>3
<1> QED
  BY <1>1, <1>2, <1>3
  DEF HistoryNext, Next, Request, Continue, locals, IssueCert, BeginRevoking, RevokeOne, RevokeOwn,
      Disconnect, PublishNow, PushNow, SetLifetime, SetCrlPublic, RevokeCert, SignStart, ReadRevoked, PushStart, RecordPushed,
      RecordPushError, RenewDue, DeleteCert, Lapse, HalfLife, Restart, Unlock

\* A step of the code changes the record and its history as the promise says.
LEMMA RecordStep ==
    ASSUME [HistoryNext]_historyVars, ListsFromPast
    PROVE  /\ RevokedSerials' \in SUBSET Cert
           /\ past' = past \cup {RevokedSerials'}
  BY DEF HistoryNext, historyVars, vars, RevokedSerials, ListsFromPast

\* /crl/<id>.crl always serves a list the record held, whole.
THEOREM ServerRefines == HistorySpec => ServerKeepsPromise
<1>1. HistoryInit => Server!PromiseInit
  BY DEF HistoryInit, Init, RevokedSerials, Server!PromiseInit
<1>2. TypeOK /\ ListsFromPast /\ ListsFromPast' /\ [HistoryNext]_historyVars
        => [Server!PromiseNext]_(Server!promiseVars)
  BY ListChanges, RecordStep
  DEF Server!PromiseNext, Server!promiseVars, Server!RecordChanges, Server!Serve
<1> QED
  BY <1>1, <1>2, ListsComeFromPast, HistoryForgets, TypeCorrect, PTL
  DEF HistorySpec, ServerKeepsPromise, Server!PromiseSpec

\* The CA's Worker does too, whatever pushes fail, get lost or overtake.
THEOREM WorkerRefines == HistorySpec => WorkerKeepsPromise
<1>1. HistoryInit => Worker!PromiseInit
  BY DEF HistoryInit, Init, RevokedSerials, Worker!PromiseInit
<1>2. TypeOK /\ ListsFromPast /\ ListsFromPast' /\ [HistoryNext]_historyVars
        => [Worker!PromiseNext]_(Worker!promiseVars)
  BY ListChanges, RecordStep
  DEF Worker!PromiseNext, Worker!promiseVars, Worker!RecordChanges, Worker!Serve
<1> QED
  BY <1>1, <1>2, ListsComeFromPast, HistoryForgets, TypeCorrect, PTL
  DEF HistorySpec, WorkerKeepsPromise, Worker!PromiseSpec
===============================================================================
