---------------------------- MODULE KeyStore_proof ----------------------------
(***************************************************************************)
(* Proofs about KeyStore, for any number of threads, rows, tokens, keys,   *)
(* restarts and times encryption is switched off.                          *)
(***************************************************************************)
EXTENDS KeyStore, TLAPS

USE KeyAssumption, BoundAssumption

\* What one thread does; the threads' steps are proved one by one.
ThreadStep(t) ==
    \/ Enable(t) \/ Unlock(t) \/ ChangePassword(t)
    \/ CreateRecoveryKey(t) \/ Recover(t) \/ LoadKey(t)
    \/ \E n \in {passNo, recNo} : FormEncryptionKey(t, n)
    \/ \E r \in Row : CheckCode(t, r)
    \/ UnlockAfterMfa(t) \/ RecoverAfterMfa(t)
    \/ DisableCheck(t) \/ Disable(t) \/ Forget(t)
    \/ \E r \in Row : SaveBegin(t, r)
    \/ SaveCheck(t) \/ Seal(t) \/ Insert(t)
    \/ \E x \in Token : TokenBegin(t, x)
    \/ SealToken(t) \/ StoreToken(t)

\* What KeysTypeOK needs to be inductive: a token about to be stored is encrypted.
TypesInv ==
    /\ KeysTypeOK
    /\ \A t \in Thread : pc[t] = "store" => held[t] \in Key

-------------------------------------------------------------------------------
(* Types *)

LEMMA TypesInvHolds == Spec => []TypesInv
<1> USE DEF TypesInv, KeysTypeOK, Pc
<1>1. ASSUME Init PROVE TypesInv
  BY <1>1 DEF Init
<1>2. TypesInv /\ [Next]_vars => TypesInv'
  <2> SUFFICES ASSUME TypesInv, [Next]_vars
               PROVE  TypesInv'
    OBVIOUS
  <2> USE DEF Goto, GoOn, Finish, Reencrypt, Enabled, Locked, settings, secrets, threads,
              Secret, KeyForPassword, KeyForRecoveryKey
  <2>1. ASSUME NEW t \in Thread, ThreadStep(t) PROVE TypesInv'
    <3>1. CASE Enable(t)
      BY <3>1 DEF Enable, StoreBothWraps, Room
    <3>2. CASE Unlock(t)
      <4>1. /\ row' \in [Row -> Key \cup {NoKey, Absent}]
            /\ passKey' \in Key /\ used' \subseteq Key /\ legacy' \in BOOLEAN
        BY <3>2 DEF Unlock, UnlockIf, OpenWithPassword
      <4>2. CASE GoOn(t, "load", passKey')
        BY <3>2, <4>1, <4>2 DEF Unlock, UnlockIf
      <4>3. CASE UNCHANGED threads
        BY <3>2, <4>1, <4>3 DEF Unlock, UnlockIf
      <4> QED
        BY <3>2, <4>2, <4>3 DEF Unlock, UnlockIf
    <3>3. CASE ChangePassword(t)
      BY <3>3 DEF ChangePassword, OpenWithPassword, StorePasswordWrap
    <3>4. CASE CreateRecoveryKey(t)
      BY <3>4 DEF CreateRecoveryKey, StoreRecoveryWrap
    <3>5. CASE Recover(t)
      BY <3>5 DEF Recover, RecoverWithKey, StoreBothWraps, Room
    <3>6. CASE LoadKey(t)
      BY <3>6 DEF LoadKey
    <3>7. CASE DisableCheck(t)
      BY <3>7 DEF DisableCheck
    <3>8. CASE Disable(t)
      <4>1. disables' \in 0..MaxDisables
        BY <3>8 DEF Disable
      <4>2. /\ row' \in [Row -> Key \cup {NoKey, Absent}]
            /\ passKey' \in Key \cup {NoKey} /\ recKey' \in Key \cup {NoKey}
            /\ legacy' \in BOOLEAN
        BY <3>8 DEF Disable
      <4> QED
        BY <3>8, <4>1, <4>2 DEF Disable
    <3>9. CASE Forget(t)
      BY <3>9 DEF Forget
    <3>10. CASE SaveCheck(t)
      BY <3>10 DEF SaveCheck
    <3>11. CASE Seal(t)
      BY <3>11 DEF Seal
    <3>12. CASE Insert(t)
      BY <3>12 DEF Insert
    <3>13. CASE SealToken(t)
      BY <3>13 DEF SealToken
    <3>14. CASE StoreToken(t)
      BY <3>14 DEF StoreToken
    <3>15. ASSUME NEW r \in Row, SaveBegin(t, r) PROVE TypesInv'
      BY <3>15 DEF SaveBegin
    <3>17. ASSUME NEW n \in {passNo, recNo}, FormEncryptionKey(t, n) PROVE TypesInv'
      BY <3>17 DEF FormEncryptionKey
    <3>18. ASSUME NEW r \in Row, CheckCode(t, r) PROVE TypesInv'
      BY <3>18 DEF CheckCode
    <3>19. CASE UnlockAfterMfa(t)
      <4>1. CASE KeyForPassword(sent[t])
        <5>1. OpenWithPassword
          BY <3>19, <4>1 DEF UnlockAfterMfa
        <5>2. /\ row' \in [Row -> Key \cup {NoKey, Absent}]
              /\ passKey' \in Key /\ used' \subseteq Key /\ legacy' \in BOOLEAN
          BY <5>1 DEF OpenWithPassword
        <5> QED
          BY <3>19, <4>1, <5>2 DEF UnlockAfterMfa
      <4>2. CASE ~KeyForPassword(sent[t])
        BY <3>19, <4>2 DEF UnlockAfterMfa
      <4> QED
        BY <4>1, <4>2
    <3>20. CASE RecoverAfterMfa(t)
      <4>1. CASE KeyForRecoveryKey(sent[t]) /\ Room
        BY <3>20, <4>1 DEF RecoverAfterMfa, RecoverWithKey
      <4>2. CASE ~(KeyForRecoveryKey(sent[t]) /\ Room)
        BY <3>20, <4>2 DEF RecoverAfterMfa
      <4> QED
        BY <4>1, <4>2
    <3>16. ASSUME NEW x \in Token, TokenBegin(t, x) PROVE TypesInv'
      BY <3>16 DEF TokenBegin
    <3> QED
      BY <2>1, <3>1, <3>2, <3>3, <3>4, <3>5, <3>6, <3>7, <3>8, <3>9, <3>10, <3>11, <3>12, <3>13, <3>14, <3>15, <3>16, <3>17, <3>18, <3>19, <3>20 DEF ThreadStep
  <2>2. ASSUME NEW r \in Row, Remove(r) PROVE TypesInv'
    BY <2>2 DEF Remove
  <2>3. ASSUME NEW x \in Token, ClearToken(x) PROVE TypesInv'
    BY <2>3 DEF ClearToken
  <2>4. CASE Restart
    BY <2>4 DEF Restart
  <2>5. CASE UNCHANGED vars
    BY <2>5 DEF vars
  <2> QED
    BY <2>1, <2>2, <2>3, <2>4, <2>5 DEF Next, ThreadStep
<1> QED
  BY <1>1, <1>2, PTL DEF Spec

-------------------------------------------------------------------------------
(* Keys *)

THEOREM KeysInvHolds == Spec => []KeysInv
<1> USE DEF KeysInv, WrapsAgree, NothingLost, Enabled
<1>1. ASSUME Init PROVE KeysInv
  BY <1>1 DEF Init
<1>2. TypesInv /\ KeysInv /\ [Next]_vars => KeysInv'
  <2> SUFFICES ASSUME TypesInv, KeysInv, [Next]_vars
               PROVE  KeysInv'
    OBVIOUS
  <2> USE DEF TypesInv, KeysTypeOK, Pc, Goto, GoOn, Finish, Reencrypt, Locked, settings, secrets, threads,
              Secret, KeyForPassword, KeyForRecoveryKey
  <2>1. ASSUME NEW t \in Thread, ThreadStep(t) PROVE KeysInv'
    <3>1. CASE Enable(t)
      BY <3>1 DEF Enable, StoreBothWraps, Room
    <3>2. CASE Unlock(t)
      BY <3>2 DEF Unlock, UnlockIf, OpenWithPassword
    <3>3. CASE ChangePassword(t)
      BY <3>3 DEF ChangePassword, OpenWithPassword, StorePasswordWrap
    <3>4. CASE CreateRecoveryKey(t)
      BY <3>4 DEF CreateRecoveryKey, StoreRecoveryWrap
    <3>5. CASE Recover(t)
      BY <3>5 DEF Recover, RecoverWithKey, StoreBothWraps, Room
    <3>6. CASE LoadKey(t)
      BY <3>6 DEF LoadKey
    <3>7. CASE DisableCheck(t)
      BY <3>7 DEF DisableCheck
    <3>8. CASE Disable(t)
      BY <3>8 DEF Disable
    <3>9. CASE Forget(t)
      BY <3>9 DEF Forget
    <3>10. CASE SaveCheck(t)
      BY <3>10 DEF SaveCheck
    <3>11. CASE Seal(t)
      BY <3>11 DEF Seal
    <3>12. CASE Insert(t)
      BY <3>12 DEF Insert
    <3>13. CASE SealToken(t)
      BY <3>13 DEF SealToken
    <3>14. CASE StoreToken(t)
      BY <3>14 DEF StoreToken
    <3>15. ASSUME NEW r \in Row, SaveBegin(t, r) PROVE KeysInv'
      BY <3>15 DEF SaveBegin
    <3>17. ASSUME NEW n \in {passNo, recNo}, FormEncryptionKey(t, n) PROVE KeysInv'
      BY <3>17 DEF FormEncryptionKey
    <3>18. ASSUME NEW r \in Row, CheckCode(t, r) PROVE KeysInv'
      BY <3>18 DEF CheckCode
    <3>19. CASE UnlockAfterMfa(t)
      BY <3>19 DEF UnlockAfterMfa, OpenWithPassword, Misuse
    <3>20. CASE RecoverAfterMfa(t)
      BY <3>20 DEF RecoverAfterMfa, RecoverWithKey, StoreBothWraps, Room, Misuse
    <3>16. ASSUME NEW x \in Token, TokenBegin(t, x) PROVE KeysInv'
      BY <3>16 DEF TokenBegin
    <3> QED
      BY <2>1, <3>1, <3>2, <3>3, <3>4, <3>5, <3>6, <3>7, <3>8, <3>9, <3>10, <3>11, <3>12, <3>13, <3>14, <3>15, <3>16, <3>17, <3>18, <3>19, <3>20 DEF ThreadStep
  <2>2. ASSUME NEW r \in Row, Remove(r) PROVE KeysInv'
    BY <2>2 DEF Remove
  <2>3. ASSUME NEW x \in Token, ClearToken(x) PROVE KeysInv'
    BY <2>3 DEF ClearToken
  <2>4. CASE Restart
    BY <2>4 DEF Restart
  <2>5. CASE UNCHANGED vars
    BY <2>5 DEF vars
  <2> QED
    BY <2>1, <2>2, <2>3, <2>4, <2>5 DEF Next, ThreadStep
<1> QED
  BY <1>1, <1>2, TypesInvHolds, PTL DEF Spec

\* Password and recovery key always open the same data key, whatever key is in
\* memory when the first recovery key is made (create_recovery_key), and even
\* if encryption is switched off and on while keys are being loaded.
THEOREM WrapsAgreeHolds == Spec => []WrapsAgree
<1>1. KeysInv => WrapsAgree
  BY DEF KeysInv
<1> QED
  BY <1>1, KeysInvHolds, PTL

\* As long as nobody switches encryption off, no interleaving of key changes,
\* unlocks, upgrades of the old format and saves loses a private key or token.
THEOREM NothingLostHolds == Spec => []NothingLost
<1>1. KeysInv => NothingLost
  BY DEF KeysInv
<1> QED
  BY <1>1, KeysInvHolds, PTL
-------------------------------------------------------------------------------
(* Passwords and recovery keys *)

\* What holds of their numbers
Numbers ==
    /\ lastNo \in Secret
    /\ passNo \in 1..lastNo /\ recNo \in 1..lastNo /\ passNo # recNo
    /\ dead \subseteq 1..lastNo

LEMMA NewPassword ==
  ASSUME Numbers, StorePasswordWrap
  PROVE  Numbers' /\ passNo' \notin dead' /\ (recNo \notin dead => recNo' \notin dead')
  BY DEF Numbers, StorePasswordWrap, Secret

LEMMA NewRecoveryKey ==
  ASSUME Numbers, StoreRecoveryWrap
  PROVE  Numbers' /\ recNo' \notin dead' /\ (passNo \notin dead => passNo' \notin dead')
  BY DEF Numbers, StoreRecoveryWrap, Secret

LEMMA NewOnes ==
  ASSUME Numbers, StoreBothWraps
  PROVE  Numbers' /\ passNo' \notin dead' /\ recNo' \notin dead'
  BY DEF Numbers, StoreBothWraps, Room, Secret

\* What a thread has sent is a number, or none.
LEMMA SentTyped ==
  ASSUME NEW t \in Thread, sent \in [Thread -> 0..MaxSecrets],
         \/ UNCHANGED sent
         \/ \E n \in 0..MaxSecrets : sent' = [sent EXCEPT ![t] = n]
  PROVE  sent' \in [Thread -> 0..MaxSecrets]
  OBVIOUS

LEMMA SecretsHold == Spec => [](SecretsTypeOK /\ SecretsInv)
<1> USE DEF SecretsTypeOK, SecretsInv, SpentStaysSpent, Enabled
<1>1. ASSUME Init PROVE SecretsTypeOK /\ SecretsInv
  <2>1. passNo = 1 /\ recNo = 2 /\ lastNo = 2 /\ dead = {} /\ misused = FALSE
    BY <1>1 DEF Init
  <2>2. sent \in [Thread -> 0..MaxSecrets]
    BY <1>1 DEF Init
  <2>3. 2 \in Secret
    BY DEF Secret
  <2>4. SecretsTypeOK
    <3>1. 1 \in 1..2 /\ 2 \in 1..2 /\ {} \subseteq 1..2
      OBVIOUS
    <3> QED
      BY <2>1, <2>2, <2>3, <3>1, Zenon
  <2> QED
    BY <2>1, <2>4
<1>2. TypesInv /\ KeysInv /\ SecretsTypeOK /\ SecretsInv /\ [Next]_vars => (SecretsTypeOK /\ SecretsInv)'
  <2> SUFFICES ASSUME TypesInv, KeysInv, SecretsTypeOK, SecretsInv, [Next]_vars
               PROVE  (SecretsTypeOK /\ SecretsInv)'
    OBVIOUS
  <2>a. Numbers
    BY DEF Numbers
  <2>b. passNo \in 0..MaxSecrets /\ recNo \in 0..MaxSecrets
    BY DEF Secret
  <2> USE DEF Goto, GoOn, Finish, settings, secrets, threads
  <2>1. ASSUME NEW t \in Thread, ThreadStep(t) PROVE (SecretsTypeOK /\ SecretsInv)'
    <3>1. CASE Enable(t)
      BY <2>a, <3>1, NewOnes DEF Enable, Numbers
    <3>2. CASE Unlock(t)
      BY <3>2 DEF Unlock, UnlockIf, OpenWithPassword
    <3>3. CASE ChangePassword(t)
      BY <2>a, <3>3, NewPassword DEF ChangePassword, OpenWithPassword, Numbers
    <3>4. CASE CreateRecoveryKey(t)
      BY <2>a, <3>4, NewRecoveryKey DEF CreateRecoveryKey, Numbers
    <3>5. CASE Recover(t)
      BY <2>a, <3>5, NewOnes DEF Recover, RecoverWithKey, Numbers
    <3>6. CASE LoadKey(t)
      BY <3>6 DEF LoadKey
    <3>7. CASE DisableCheck(t)
      BY <3>7 DEF DisableCheck
    <3>8. CASE Disable(t)
      <4>1. CASE UNCHANGED settings /\ Finish(t)
        BY <3>8, <4>1 DEF Disable
      <4>2. CASE passKey' = NoKey /\ recKey' = NoKey
        <5>1. dead' \subseteq 1..lastNo'
          BY <3>8 DEF Disable
        <5>2. UNCHANGED <<passNo, recNo, lastNo, misused>>
          BY <3>8 DEF Disable
        <5>3. sent' \in [Thread -> 0..MaxSecrets]
          BY <3>8 DEF Disable
        <5> QED
          BY <4>2, <5>1, <5>2, <5>3
      <4> QED
        BY <3>8, <4>1, <4>2 DEF Disable
    <3>9. CASE Forget(t)
      BY <3>9 DEF Forget
    <3>10. CASE SaveCheck(t)
      BY <3>10 DEF SaveCheck
    <3>11. CASE Seal(t)
      BY <3>11 DEF Seal
    <3>12. CASE Insert(t)
      BY <3>12 DEF Insert
    <3>13. CASE SealToken(t)
      BY <3>13 DEF SealToken
    <3>14. CASE StoreToken(t)
      BY <3>14 DEF StoreToken
    <3>15. ASSUME NEW r \in Row, SaveBegin(t, r) PROVE (SecretsTypeOK /\ SecretsInv)'
      BY <3>15 DEF SaveBegin
    <3>16. ASSUME NEW x \in Token, TokenBegin(t, x) PROVE (SecretsTypeOK /\ SecretsInv)'
      BY <3>16 DEF TokenBegin
    <3>17. ASSUME NEW n \in {passNo, recNo}, FormEncryptionKey(t, n)
           PROVE  (SecretsTypeOK /\ SecretsInv)'
      BY <2>b, <3>17, SentTyped DEF FormEncryptionKey
    <3>18. ASSUME NEW r \in Row, CheckCode(t, r) PROVE (SecretsTypeOK /\ SecretsInv)'
      BY <3>18 DEF CheckCode
    <3>19. CASE UnlockAfterMfa(t)
      BY <3>19 DEF UnlockAfterMfa, OpenWithPassword, KeyForPassword, Misuse
    <3>20. CASE RecoverAfterMfa(t)
      <4>1. CASE KeyForRecoveryKey(sent[t]) /\ Room
        <5>1. Numbers' /\ passNo' \notin dead' /\ recNo' \notin dead'
          BY <2>a, <3>20, <4>1, NewOnes DEF RecoverAfterMfa, RecoverWithKey
        <5>2. misused' = FALSE
          BY <3>20, <4>1 DEF RecoverAfterMfa, KeyForRecoveryKey, Misuse
        <5>3. sent' = sent
          BY <3>20, <4>1 DEF RecoverAfterMfa, RecoverWithKey
        <5> QED
          BY <5>1, <5>2, <5>3 DEF Numbers
      <4>2. CASE ~(KeyForRecoveryKey(sent[t]) /\ Room)
        <5>1. UNCHANGED settings /\ Finish(t)
          BY <3>20, <4>2, Zenon DEF RecoverAfterMfa
        <5> QED
          BY <5>1
      <4> QED
        BY <4>1, <4>2
    <3> QED
      BY <2>1, <3>1, <3>2, <3>3, <3>4, <3>5, <3>6, <3>7, <3>8, <3>9, <3>10, <3>11, <3>12, <3>13, <3>14, <3>15, <3>16, <3>17, <3>18, <3>19, <3>20 DEF ThreadStep
  <2>2. ASSUME NEW r \in Row, Remove(r) PROVE (SecretsTypeOK /\ SecretsInv)'
    BY <2>2 DEF Remove
  <2>3. ASSUME NEW x \in Token, ClearToken(x) PROVE (SecretsTypeOK /\ SecretsInv)'
    BY <2>3 DEF ClearToken
  <2>4. CASE Restart
    BY <2>4 DEF Restart
  <2>5. CASE UNCHANGED vars
    BY <2>5 DEF vars
  <2> QED
    BY <2>1, <2>2, <2>3, <2>4, <2>5 DEF Next, ThreadStep
<1> QED
  BY <1>1, <1>2, TypesInvHolds, KeysInvHolds, PTL DEF Spec

\* Every variable keeps its type; in particular no token is ever stored in
\* plaintext (set_cloudflare_credentials, create_pal_relay_key).
THEOREM KeysTypeCorrect == Spec => []TypeOK
<1>1. TypesInv /\ SecretsTypeOK => TypeOK
  BY DEF TypesInv, TypeOK
<1> QED
  BY <1>1, TypesInvHolds, SecretsHold, PTL

\* A password or recovery key that was replaced or used up opens nothing, even
\* for a sign-in that had checked it before (_unlock_after_mfa), for any number
\* of sign-ins, changes and recoveries at the same time.
THEOREM SpentStaysSpentHolds == Spec => []SpentStaysSpent
<1>1. SecretsInv => SpentStaysSpent
  BY DEF SecretsInv
<1> QED
  BY <1>1, SecretsHold, PTL
===============================================================================
