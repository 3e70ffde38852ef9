--------------------------- MODULE PalDevices_proof ---------------------------
(***************************************************************************)
(* Proofs about PalDevices, for any number of threads, codes, PCs and      *)
(* requests, any skew, and any errors of clocks and pauses of handlers.    *)
(***************************************************************************)
EXTENDS PalDevices, TLAPS

USE ProcAssumption, NoneAssumption, TimeAssumption

LEMMA ProcMembers == Collector \in Proc /\ \A t \in Thread : t \in Proc
BY DEF Proc

USE ProcMembers

TypesInv == TypeOK /\ HandlersInv

LEMMA TypesInvHolds == Spec => []TypesInv
<1> USE DEF TypesInv, TypeOK, HandlersInv, Pc, CodeState, DeviceState, Way
<1>1. ASSUME Init PROVE TypesInv
  BY <1>1 DEF Init
<1>2. TypesInv /\ [Next]_vars => TypesInv'
  <2> SUFFICES ASSUME TypesInv, [Next]_vars
               PROVE  TypesInv'
    OBVIOUS
  <2> USE DEF Goto, Finish, Exists, handlers, requests
  <2>1. ASSUME NEW c \in Code, CreateCode(c) PROVE TypesInv'
    BY <2>1 DEF CreateCode
  <2>2. ASSUME NEW c \in Code, ExpireCode(c) PROVE TypesInv'
    BY <2>2 DEF ExpireCode
  <2>3. ASSUME NEW c \in Code, RevokeCode(c) PROVE TypesInv'
    BY <2>3 DEF RevokeCode
  <2>4. ASSUME NEW t \in Thread, NEW c \in Code, Enroll(t, c) PROVE TypesInv'
    BY <2>4 DEF Enroll
  <2>5. ASSUME NEW t \in Thread, NEW d \in Device, EnrollDevice(t, d) PROVE TypesInv'
    BY <2>5 DEF EnrollDevice
  <2>6. ASSUME NEW t \in Thread, EnrollFails(t) PROVE TypesInv'
    BY <2>6 DEF EnrollFails
  <2>7. ASSUME NEW d \in Device, NEW allowed \in BOOLEAN, SetRemote(d, allowed) PROVE TypesInv'
    BY <2>7 DEF SetRemote
  <2>8. ASSUME NEW d \in Device, RevokeDevice(d) PROVE TypesInv'
    BY <2>8 DEF RevokeDevice
  <2>9. ASSUME NEW d \in Device, DeleteDevice(d) PROVE TypesInv'
    BY <2>9 DEF DeleteDevice
  <2>10. ASSUME NEW r \in Request, NEW d \in Device, Sign(r, d) PROVE TypesInv'
    BY <2>10 DEF Sign
  <2>11. ASSUME NEW t \in Thread, NEW r \in Request, ReceiveLan(t, r) PROVE TypesInv'
    BY <2>11 DEF ReceiveLan
  <2>12. ASSUME NEW r \in Request, ReceiveRelay(r) PROVE TypesInv'
    BY <2>12 DEF ReceiveRelay
  <2>13. ASSUME NEW p \in Proc, Verify(p) PROVE TypesInv'
    BY <2>13 DEF Verify
  <2>14. ASSUME NEW p \in Proc, UseNonce(p) PROVE TypesInv'
    <3>1. nonce' \in [Request -> Int \cup {None}]
      BY <2>14 DEF UseNonce, NonceTtl, Kept
    <3> QED
      BY <2>14, <3>1 DEF UseNonce
  <2>15. ASSUME NEW p \in Proc, Run(p) PROVE TypesInv'
    BY <2>15 DEF Run
  <2>16. CASE Tick
    BY <2>16 DEF Tick
  <2>17. CASE Restart
    BY <2>17 DEF Restart
  <2>18. CASE UNCHANGED vars
    BY <2>18 DEF vars
  <2> QED
    BY <2>1, <2>2, <2>3, <2>4, <2>5, <2>6, <2>7, <2>8, <2>9, <2>10, <2>11, <2>12, <2>13, <2>14, <2>15, <2>16, <2>17, <2>18 DEF Next
<1> QED
  BY <1>1, <1>2, PTL DEF Spec

\* Every variable keeps its type; in particular nothing but a Boolean is ever
\* stored in pal_devices.remote_allowed.
THEOREM DevicesTypeCorrect == Spec => []TypeOK
<1>1. TypesInv => TypeOK
  BY DEF TypesInv
<1> QED
  BY <1>1, TypesInvHolds, PTL

-------------------------------------------------------------------------------
(* Codes *)

CodesInv ==
    /\ CodesConnectOne
    /\ \A d \in Device : device[d] = "none" => codeOf[d] = None

LEMMA CodesInvHolds == Spec => []CodesInv
<1> USE DEF CodesInv, CodesConnectOne, Exists
<1>1. ASSUME Init PROVE CodesInv
  BY <1>1 DEF Init
<1>2. TypesInv /\ CodesInv /\ [Next]_vars => CodesInv'
  <2> SUFFICES ASSUME TypesInv, CodesInv, [Next]_vars
               PROVE  CodesInv'
    OBVIOUS
  <2> USE DEF TypesInv, TypeOK, HandlersInv, CodeState, DeviceState, Goto, Finish, handlers, requests
  <2>1. ASSUME NEW c \in Code, CreateCode(c) PROVE CodesInv'
    BY <2>1 DEF CreateCode
  <2>2. ASSUME NEW c \in Code, ExpireCode(c) PROVE CodesInv'
    BY <2>2 DEF ExpireCode
  <2>3. ASSUME NEW c \in Code, RevokeCode(c) PROVE CodesInv'
    BY <2>3 DEF RevokeCode
  <2>4. ASSUME NEW t \in Thread, NEW c \in Code, Enroll(t, c) PROVE CodesInv'
    BY <2>4 DEF Enroll
  <2>5. ASSUME NEW t \in Thread, NEW d \in Device, EnrollDevice(t, d) PROVE CodesInv'
    <3>1. /\ job[t] \in Code /\ code[job[t]] = "unused"
          /\ codeOf[d] = None /\ device[d] = "none"
          /\ \A e \in Device : codeOf[e] # job[t]
      BY <2>5 DEF EnrollDevice
    <3>2. /\ code' = [code EXCEPT ![job[t]] = "used"]
          /\ device' = [device EXCEPT ![d] = "connected"]
          /\ codeOf' = [codeOf EXCEPT ![d] = job[t]]
      BY <2>5 DEF EnrollDevice
    <3>3. \A e, f \in Device : codeOf'[e] = codeOf'[f] /\ codeOf'[e] # None => e = f
      BY <3>1, <3>2
    <3>4. \A c \in Code : code'[c] \in {"used", "deleted"} <=> \E e \in Device : codeOf'[e] = c
      BY <3>1, <3>2
    <3>5. \A e \in Device : Exists(e)' => codeOf'[e] # None /\ code'[codeOf'[e]] = "used"
      BY <3>1, <3>2
    <3> QED
      BY <3>1, <3>2, <3>3, <3>4, <3>5
  <2>6. ASSUME NEW t \in Thread, EnrollFails(t) PROVE CodesInv'
    BY <2>6 DEF EnrollFails
  <2>7. ASSUME NEW d \in Device, NEW allowed \in BOOLEAN, SetRemote(d, allowed) PROVE CodesInv'
    BY <2>7 DEF SetRemote
  <2>8. ASSUME NEW d \in Device, RevokeDevice(d) PROVE CodesInv'
    BY <2>8 DEF RevokeDevice
  <2>9. ASSUME NEW d \in Device, DeleteDevice(d) PROVE CodesInv'
    BY <2>9 DEF DeleteDevice
  <2>10. ASSUME NEW r \in Request, NEW d \in Device, Sign(r, d) PROVE CodesInv'
    BY <2>10 DEF Sign
  <2>11. ASSUME NEW t \in Thread, NEW r \in Request, ReceiveLan(t, r) PROVE CodesInv'
    BY <2>11 DEF ReceiveLan
  <2>12. ASSUME NEW r \in Request, ReceiveRelay(r) PROVE CodesInv'
    BY <2>12 DEF ReceiveRelay
  <2>13. ASSUME NEW p \in Proc, Verify(p) PROVE CodesInv'
    BY <2>13 DEF Verify
  <2>14. ASSUME NEW p \in Proc, UseNonce(p) PROVE CodesInv'
    BY <2>14 DEF UseNonce
  <2>15. ASSUME NEW p \in Proc, Run(p) PROVE CodesInv'
    BY <2>15 DEF Run
  <2>16. CASE Tick
    BY <2>16 DEF Tick
  <2>17. CASE Restart
    BY <2>17 DEF Restart
  <2>18. CASE UNCHANGED vars
    BY <2>18 DEF vars
  <2> QED
    BY <2>1, <2>2, <2>3, <2>4, <2>5, <2>6, <2>7, <2>8, <2>9, <2>10, <2>11, <2>12, <2>13, <2>14, <2>15, <2>16, <2>17, <2>18 DEF Next
<1> QED
  BY <1>1, <1>2, TypesInvHolds, PTL DEF Spec

\* No code ever connects two PCs, and a withdrawn or expired one connects none
\* (enroll_pal_device).
THEOREM CodesConnectOneHolds == Spec => []CodesConnectOne
<1>1. CodesInv => CodesConnectOne
  BY DEF CodesInv
<1> QED
  BY <1>1, CodesInvHolds, PTL

-------------------------------------------------------------------------------
(* Requests *)

LEMMA PauseInvHolds == Spec => []PauseInv
<1> USE DEF PauseInv
<1>1. ASSUME Init PROVE PauseInv
  BY <1>1 DEF Init
<1>2. TypesInv /\ PauseInv /\ [Next]_vars => PauseInv'
  <2> SUFFICES ASSUME TypesInv, PauseInv, [Next]_vars
               PROVE  PauseInv'
    OBVIOUS
  <2> USE DEF TypesInv, TypeOK, HandlersInv, Goto, Finish, handlers, requests
  <2>1. ASSUME NEW c \in Code, CreateCode(c) PROVE PauseInv'
    BY <2>1 DEF CreateCode
  <2>2. ASSUME NEW c \in Code, ExpireCode(c) PROVE PauseInv'
    BY <2>2 DEF ExpireCode
  <2>3. ASSUME NEW c \in Code, RevokeCode(c) PROVE PauseInv'
    BY <2>3 DEF RevokeCode
  <2>4. ASSUME NEW t \in Thread, NEW c \in Code, Enroll(t, c) PROVE PauseInv'
    BY <2>4 DEF Enroll
  <2>5. ASSUME NEW t \in Thread, NEW d \in Device, EnrollDevice(t, d) PROVE PauseInv'
    BY <2>5 DEF EnrollDevice
  <2>6. ASSUME NEW t \in Thread, EnrollFails(t) PROVE PauseInv'
    BY <2>6 DEF EnrollFails
  <2>7. ASSUME NEW d \in Device, NEW allowed \in BOOLEAN, SetRemote(d, allowed) PROVE PauseInv'
    BY <2>7 DEF SetRemote
  <2>8. ASSUME NEW d \in Device, RevokeDevice(d) PROVE PauseInv'
    BY <2>8 DEF RevokeDevice
  <2>9. ASSUME NEW d \in Device, DeleteDevice(d) PROVE PauseInv'
    BY <2>9 DEF DeleteDevice
  <2>10. ASSUME NEW r \in Request, NEW d \in Device, Sign(r, d) PROVE PauseInv'
    BY <2>10 DEF Sign
  <2>11. ASSUME NEW t \in Thread, NEW r \in Request, ReceiveLan(t, r) PROVE PauseInv'
    BY <2>11 DEF ReceiveLan
  <2>12. ASSUME NEW r \in Request, ReceiveRelay(r) PROVE PauseInv'
    BY <2>12 DEF ReceiveRelay
  <2>13. ASSUME NEW p \in Proc, Verify(p) PROVE PauseInv'
    BY <2>13 DEF Verify
  <2>14. ASSUME NEW p \in Proc, UseNonce(p) PROVE PauseInv'
    BY <2>14 DEF UseNonce
  <2>15. ASSUME NEW p \in Proc, Run(p) PROVE PauseInv'
    BY <2>15 DEF Run
  <2>16. CASE Tick
    BY <2>16 DEF Tick
  <2>17. CASE Restart
    BY <2>17 DEF Restart
  <2>18. CASE UNCHANGED vars
    BY <2>18 DEF vars
  <2> QED
    BY <2>1, <2>2, <2>3, <2>4, <2>5, <2>6, <2>7, <2>8, <2>9, <2>10, <2>11, <2>12, <2>13, <2>14, <2>15, <2>16, <2>17, <2>18 DEF Next
<1> QED
  BY <1>1, <1>2, TypesInvHolds, PTL DEF Spec

\* Forgetting nonces that have expired by n does no harm.
LEMMA NonceLasts ==
    ASSUME NEW n \in Int, NEW end \in Int, NEW kept \in Int \cup {None}, NEW after,
           kept # None /\ n <= kept => after = kept,
           n > end \/ (kept # None /\ kept >= end)
    PROVE  n > end \/ (after # None /\ after >= end)
OBVIOUS

LEMMA OnceInvHolds == Spec => []OnceInv
<1> USE DEF OnceInv, RunOnce, Running, Exists
<1>1. ASSUME Init PROVE OnceInv
  BY <1>1 DEF Init
<1>2. TypesInv /\ PauseInv /\ OnceInv /\ [Next]_vars => OnceInv'
  <2> SUFFICES ASSUME TypesInv, PauseInv, OnceInv, [Next]_vars
               PROVE  OnceInv'
    OBVIOUS
  <2> USE DEF TypesInv, TypeOK, HandlersInv, PauseInv, DeviceState, Goto, Finish, handlers, requests
  <2>1. ASSUME NEW c \in Code, CreateCode(c) PROVE OnceInv'
    BY <2>1 DEF CreateCode
  <2>2. ASSUME NEW c \in Code, ExpireCode(c) PROVE OnceInv'
    BY <2>2 DEF ExpireCode
  <2>3. ASSUME NEW c \in Code, RevokeCode(c) PROVE OnceInv'
    BY <2>3 DEF RevokeCode
  <2>4. ASSUME NEW t \in Thread, NEW c \in Code, Enroll(t, c) PROVE OnceInv'
    BY <2>4 DEF Enroll
  <2>5. ASSUME NEW t \in Thread, NEW d \in Device, EnrollDevice(t, d) PROVE OnceInv'
    BY <2>5 DEF EnrollDevice
  <2>6. ASSUME NEW t \in Thread, EnrollFails(t) PROVE OnceInv'
    BY <2>6 DEF EnrollFails
  <2>7. ASSUME NEW d \in Device, NEW allowed \in BOOLEAN, SetRemote(d, allowed) PROVE OnceInv'
    BY <2>7 DEF SetRemote
  <2>8. ASSUME NEW d \in Device, RevokeDevice(d) PROVE OnceInv'
    BY <2>8 DEF RevokeDevice
  <2>9. ASSUME NEW d \in Device, DeleteDevice(d) PROVE OnceInv'
    BY <2>9 DEF DeleteDevice
  <2>10. ASSUME NEW r \in Request, NEW d \in Device, Sign(r, d) PROVE OnceInv'
    BY <2>10 DEF Sign
  <2>11. ASSUME NEW t \in Thread, NEW r \in Request, ReceiveLan(t, r) PROVE OnceInv'
    BY <2>11 DEF ReceiveLan
  <2>12. ASSUME NEW r \in Request, ReceiveRelay(r) PROVE OnceInv'
    <3>1. UNCHANGED <<now, device, signer, ts, rowless, ahead, nonce, runs>>
      BY <2>12 DEF ReceiveRelay
    <3>2. \A q \in Request, p \in Proc : Running(p, q)' => Running(p, q)
      BY <2>12 DEF ReceiveRelay
    <3> HIDE DEF Running
    <3> QED
      BY <3>1, <3>2
  <2>13. ASSUME NEW p \in Proc, Verify(p) PROVE OnceInv'
    BY <2>13 DEF Verify
  <2>14. ASSUME NEW p \in Proc, UseNonce(p) PROVE OnceInv'
    <3>1. CASE Kept(job[p]) \/ seen[p] = "revoked"
      <4>1. /\ UNCHANGED <<now, device, signer, ts, rowless, ahead, runs>>
            /\ pc' = [pc EXCEPT ![p] = "idle"] /\ job' = [job EXCEPT ![p] = None]
        BY <2>14, <3>1 DEF UseNonce
      <4>2. \A r \in Request : nonce[r] # None /\ now <= nonce[r] => nonce'[r] = nonce[r]
        BY <2>14 DEF UseNonce, Kept
      <4>3. \A r \in Request, q \in Proc : Running(q, r)' => Running(q, r)
        BY <4>1
      <4>4. ASSUME NEW r \in Request,
                   now > ts[r] + Skew + Lag \/ (nonce[r] # None /\ nonce[r] >= ts[r] + Skew + Lag)
            PROVE  now > ts[r] + Skew + Lag \/ (nonce'[r] # None /\ nonce'[r] >= ts[r] + Skew + Lag)
        <5>1. now \in Int /\ ts[r] + Skew + Lag \in Int /\ nonce[r] \in Int \cup {None}
          OBVIOUS
        <5> QED
          BY ONLY <4>2, <4>4, <5>1, NonceLasts
      <4> HIDE DEF Running
      <4> QED
        BY <4>1, <4>3, <4>4
    <3>2. CASE ~Kept(job[p]) /\ seen[p] # "revoked"
      BY <2>14, <3>2 DEF UseNonce, Kept, NonceTtl
    <3> QED
      BY <3>1, <3>2
  <2>15. ASSUME NEW p \in Proc, Run(p) PROVE OnceInv'
    BY <2>15 DEF Run
  <2>16. CASE Tick
    BY <2>16 DEF Tick
  <2>17. CASE Restart
    BY <2>17 DEF Restart
  <2>18. CASE UNCHANGED vars
    BY <2>18 DEF vars
  <2> QED
    BY <2>1, <2>2, <2>3, <2>4, <2>5, <2>6, <2>7, <2>8, <2>9, <2>10, <2>11, <2>12, <2>13, <2>14, <2>15, <2>16, <2>17, <2>18 DEF Next
<1> QED
  BY <1>1, <1>2, TypesInvHolds, PauseInvHolds, PTL DEF Spec

\* Whatever copies of a request arrive, by whatever way and however late, and
\* whoever disconnects or deletes its PC meanwhile, it takes effect at most once
\* (_signed_device, use_pal_nonce) - but for a PC whose clock is ahead by nearly
\* all that is accepted, and for what is done without the row of a deleted PC.
THEOREM RunOnceHolds == Spec => []RunOnce
<1>1. OnceInv => RunOnce
  BY DEF OnceInv
<1> QED
  BY <1>1, OnceInvHolds, PTL
===============================================================================
