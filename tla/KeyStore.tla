------------------------------- MODULE KeyStore -------------------------------
(***************************************************************************)
(* Encryption at rest: app/db.py, "Encryption at rest", with the handlers  *)
(* of app/routes/settings.py and the sign-in with a locked database in     *)
(* app/routes/auth.py, and the functions that store private keys and API   *)
(* tokens.                                                                 *)
(*                                                                         *)
(* Every change of the key settings is one write transaction               *)
(* (_key_change), so it is one action.  The key in memory, _master_key, is *)
(* a global that no lock protects: it is set after the transaction, and    *)
(* other threads read it, once or several times, before their own.         *)
(*                                                                         *)
(* A value is known by the key it is encrypted with, NoKey for plaintext.  *)
(* Passwords and recovery keys are numbered in the order they come into    *)
(* use.  An attempt with a wrong one changes nothing and is left out, but  *)
(* one that was right may be wrong by the time it is used.                 *)
(***************************************************************************)
EXTENDS Naturals

CONSTANTS Thread,       \* web threads
          Key,          \* data keys
          Row,          \* rows with a private key (_SENSITIVE_BLOBS, TOTP secrets)
          Token,        \* secrets only ever stored encrypted (Cloudflare, relay)
          NoKey,        \* no key, or plaintext
          Absent,       \* no such value in the database
          MaxSecrets,   \* bound: passwords and recovery keys, two to begin with
          MaxDisables,  \* bound: times encryption is switched off
          MaxRestarts   \* bound: process restarts

ASSUME KeyAssumption == NoKey \notin Key /\ Absent \notin Key /\ Absent # NoKey
ASSUME BoundAssumption == MaxSecrets \in Nat \ {0, 1} /\ MaxDisables \in Nat /\ MaxRestarts \in Nat

VARIABLES
    passKey,    \* the key the password unwraps; NoKey: encryption is off
    legacy,     \* ... it is derived from the password itself (before 2.6.0)
    recKey,     \* the key the recovery key unwraps
    passNo,     \* the number of the password that is good while encryption is on
    recNo,      \* the number of the recovery key that is good while there is one
    lastNo,     \* how many of both there have been
    row,        \* what each row's key is stored under
    token,      \* and each token
    mem,        \* _master_key
    used,       \* data keys made so far
    pc, held,   \* where each thread is, and the key or encrypted value it holds
    target,     \* the row or token it is about to write
    sent,       \* the password or recovery key a sign-in has checked, 0 for none
    disables, restarts,
    \* What follows is for the properties only; no code reads it.
    dead,       \* passwords and recovery keys that were replaced or used up
    misused     \* one of them opened the database

secrets  == <<passNo, recNo, lastNo, dead>>
settings == <<passKey, legacy, recKey, secrets, misused>>
threads  == <<pc, held, target, sent>>
vars     == <<settings, row, token, mem, used, threads, disables, restarts>>

Pc == {"idle", "load", "disable", "forget", "check", "seal", "insert", "sealToken", "store",
       "codePassword", "codeRecovery", "mfaPassword", "mfaRecovery"}

Secret == 1..MaxSecrets

SecretsTypeOK ==
    /\ lastNo \in Secret
    /\ passNo \in 1..lastNo /\ recNo \in 1..lastNo
    /\ sent \in [Thread -> 0..MaxSecrets]
    /\ dead \subseteq 1..lastNo
    /\ misused \in BOOLEAN

\* Tokens are never in the database in plaintext.
KeysTypeOK ==
    /\ passKey \in Key \cup {NoKey}
    /\ legacy \in BOOLEAN
    /\ recKey \in Key \cup {NoKey}
    /\ row \in [Row -> Key \cup {NoKey, Absent}]
    /\ token \in [Token -> Key \cup {Absent}]
    /\ mem \in Key \cup {NoKey}
    /\ used \subseteq Key
    /\ pc \in [Thread -> Pc]
    /\ held \in [Thread -> Key \cup {NoKey}]
    /\ target \in [Thread -> Row \cup Token \cup {Absent}]
    /\ disables \in 0..MaxDisables
    /\ restarts \in 0..MaxRestarts

TypeOK == KeysTypeOK /\ SecretsTypeOK

\* The process starts on a database without encryption, with it, or with it in
\* the old format; one upgraded from that may have no recovery key yet.
Init ==
    /\ passKey \in Key \cup {NoKey}
    /\ legacy \in BOOLEAN
    /\ legacy => passKey # NoKey
    /\ recKey \in {NoKey, passKey}
    /\ legacy => recKey = NoKey
    /\ row \in [Row -> {passKey, Absent}]
    /\ token \in [Token -> {passKey, Absent} \ {NoKey}]
    /\ legacy => token = [x \in Token |-> Absent]
    /\ mem = NoKey
    /\ used = {passKey} \ {NoKey}
    /\ pc = [t \in Thread |-> "idle"]
    /\ held = [t \in Thread |-> NoKey]
    /\ target = [t \in Thread |-> Absent]
    /\ passNo = 1 /\ recNo = 2 /\ lastNo = 2
    /\ sent = [t \in Thread |-> 0]
    /\ dead = {} /\ misused = FALSE
    /\ disables = 0
    /\ restarts = 0

Enabled == passKey # NoKey

\* require_unlocked raises DatabaseLocked.
Locked == mem = NoKey /\ Enabled

Goto(t, label) == pc' = [pc EXCEPT ![t] = label]

\* The handler goes on at label with key k.
GoOn(t, label, k) ==
    /\ Goto(t, label)
    /\ held' = [held EXCEPT ![t] = k]
    /\ UNCHANGED <<target, sent>>

\* It returns, normally or with an error.
Finish(t) ==
    /\ Goto(t, "idle")
    /\ held' = [held EXCEPT ![t] = NoKey]
    /\ target' = [target EXCEPT ![t] = Absent]
    /\ sent' = [sent EXCEPT ![t] = 0]

\* _key_for_password, _key_for_recovery_key: the password or recovery key is
\* the one whose wrap is in the database now.
KeyForPassword(n)    == Enabled /\ n = passNo
KeyForRecoveryKey(n) == recKey # NoKey /\ n = recNo

\* _store_password_wrap, _store_recovery_wrap: a new one, and the old is gone.
StorePasswordWrap ==
    /\ lastNo < MaxSecrets
    /\ passNo' = lastNo + 1 /\ lastNo' = lastNo + 1
    /\ dead' = dead \cup {passNo}
    /\ UNCHANGED recNo

StoreRecoveryWrap ==
    /\ lastNo < MaxSecrets
    /\ recNo' = lastNo + 1 /\ lastNo' = lastNo + 1
    /\ dead' = dead \cup {recNo}
    /\ UNCHANGED passNo

Room == lastNo + 1 < MaxSecrets

StoreBothWraps ==
    /\ Room
    /\ passNo' = lastNo + 1 /\ recNo' = lastNo + 2 /\ lastNo' = lastNo + 2
    /\ dead' = dead \cup {passNo, recNo}

-------------------------------------------------------------------------------
(* Key changes: each is one transaction, then set_master_key *)

\* Variant: the rows are left as they are.
Reencrypt_Forgotten(old, new) == UNCHANGED row

\* _reencrypt_all; one value that cannot be decrypted fails the transaction.
Reencrypt(old, new) ==
    /\ \A r \in Row : row[r] \in {old, NoKey, Absent}
    /\ row' = [r \in Row |-> IF row[r] = Absent THEN Absent ELSE new]

\* enable_encryption
Enable(t) ==
    /\ pc[t] = "idle"
    /\ ~Enabled
    /\ \E k \in Key \ used :
           /\ Reencrypt(NoKey, k)
           /\ passKey' = k /\ recKey' = k
           /\ used' = used \cup {k}
           /\ GoOn(t, "load", k)
    /\ StoreBothWraps
    /\ UNCHANGED <<legacy, misused, token, mem, disables, restarts>>

\* _open_with_password, which moves an old database to a data key of its own.
OpenWithPassword ==
    /\ Enabled
    /\ IF legacy
       THEN \E k \in Key \ used :
                /\ Reencrypt(passKey, k)
                /\ passKey' = k
                /\ used' = used \cup {k}
       ELSE UNCHANGED <<row, passKey, used>>
    /\ legacy' = FALSE

\* unlock_if: with a sign-in name that does not match, the key is not loaded.
UnlockIf(t) == OpenWithPassword /\ (GoOn(t, "load", passKey') \/ UNCHANGED threads)

\* unlock_encryption
Unlock(t) ==
    /\ pc[t] = "idle"
    /\ UnlockIf(t)
    /\ UNCHANGED <<recKey, secrets, misused, token, mem, disables, restarts>>

\* Variant: a new password comes with a new data key, for its own wrap only.
ChangePassword_NewKey(t) ==
    /\ pc[t] = "idle"
    /\ Enabled
    /\ \E k \in Key \ used :
           /\ Reencrypt(passKey, k)
           /\ passKey' = k
           /\ used' = used \cup {k}
           /\ GoOn(t, "load", k)
    /\ legacy' = FALSE
    /\ StorePasswordWrap
    /\ UNCHANGED <<recKey, misused, token, mem, disables, restarts>>

\* change_password wraps the same data key again.
ChangePassword(t) ==
    /\ pc[t] = "idle"
    /\ OpenWithPassword
    /\ StorePasswordWrap
    /\ GoOn(t, "load", passKey')
    /\ UNCHANGED <<recKey, misused, token, mem, disables, restarts>>

\* create_recovery_key: the first one wraps the key in memory.
CreateRecoveryKey(t) ==
    /\ pc[t] = "idle"
    /\ Enabled /\ ~legacy
    /\ IF recKey = NoKey THEN mem # NoKey /\ recKey' = mem ELSE recKey' = passKey
    /\ StoreRecoveryWrap
    /\ UNCHANGED <<passKey, legacy, misused, row, token, mem, used, threads, disables, restarts>>

\* recover_with_key: a new password, and a new recovery key.
RecoverWithKey(t) ==
    /\ passKey' = recKey
    /\ legacy' = FALSE
    /\ StoreBothWraps
    /\ GoOn(t, "load", recKey)
    /\ UNCHANGED <<recKey, row, used>>

\* recover_encryption, with the recovery key that is good now
Recover(t) ==
    /\ pc[t] = "idle"
    /\ recKey # NoKey
    /\ RecoverWithKey(t)
    /\ UNCHANGED <<misused, token, mem, disables, restarts>>

\* set_master_key, after any of these
LoadKey(t) ==
    /\ pc[t] = "load"
    /\ mem' = held[t]
    /\ Finish(t)
    /\ UNCHANGED <<settings, row, token, used, disables, restarts>>

\* disable_encryption looks for tokens before its transaction,
DisableCheck(t) ==
    /\ pc[t] = "idle"
    /\ Enabled
    /\ \A x \in Token : token[x] = Absent
    /\ Goto(t, "disable")
    /\ UNCHANGED <<settings, row, token, mem, used, held, target, sent, disables, restarts>>

\* decrypts everything in it, or fails,
Disable(t) ==
    /\ pc[t] = "disable"
    /\ \/ /\ disables < MaxDisables
          /\ Enabled
          /\ Reencrypt(passKey, NoKey)
          /\ passKey' = NoKey /\ recKey' = NoKey /\ legacy' = FALSE
          /\ dead' = dead \cup {passNo, recNo}
          /\ UNCHANGED <<passNo, recNo, lastNo, misused>>
          /\ disables' = disables + 1
          /\ Goto(t, "forget") /\ UNCHANGED <<held, target, sent>>
       \/ Finish(t) /\ UNCHANGED <<settings, row, disables>>
    /\ UNCHANGED <<token, mem, used, restarts>>

\* and forgets the key.
Forget(t) ==
    /\ pc[t] = "forget"
    /\ mem' = NoKey
    /\ Finish(t)
    /\ UNCHANGED <<settings, row, token, used, disables, restarts>>

-------------------------------------------------------------------------------
(* Signing in with a one-time code while the database is locked (/mfa): the
   form brings the password or recovery key that the secret of the code is
   read with.  It is only checked first, in case the code is wrong (wrong codes
   and their counting are in Accounts), and used after the code has passed. *)

\* _form_encryption_key
FormEncryptionKey(t, n) ==
    /\ pc[t] = "idle"
    /\ mem = NoKey /\ \E r \in Row : row[r] \in Key      \* totp_secret_is_locked
    /\ \/ /\ KeyForPassword(n)
          /\ Goto(t, "codePassword") /\ held' = [held EXCEPT ![t] = passKey]
       \/ /\ KeyForRecoveryKey(n)
          /\ Goto(t, "codeRecovery") /\ held' = [held EXCEPT ![t] = recKey]
    /\ sent' = [sent EXCEPT ![t] = n]
    /\ UNCHANGED <<settings, row, token, mem, used, target, disables, restarts>>

\* get_totp_secret with that key: the secret is one of the rows.
CheckCode(t, r) ==
    /\ pc[t] \in {"codePassword", "codeRecovery"}
    /\ IF row[r] \in {held[t], NoKey}
       THEN /\ Goto(t, IF pc[t] = "codePassword" THEN "mfaPassword" ELSE "mfaRecovery")
            /\ UNCHANGED <<held, target, sent>>
       ELSE Finish(t)
    /\ UNCHANGED <<settings, row, token, mem, used, disables, restarts>>

Misuse(t) == misused' = (misused \/ sent[t] \in dead)

\* _unlock_after_mfa: the password must still be right,
UnlockAfterMfa(t) ==
    /\ pc[t] = "mfaPassword"
    /\ IF KeyForPassword(sent[t])
       THEN /\ OpenWithPassword
            /\ GoOn(t, "load", passKey')
            /\ Misuse(t)
       ELSE Finish(t) /\ UNCHANGED <<passKey, legacy, row, used, misused>>
    /\ UNCHANGED <<recKey, secrets, token, mem, disables, restarts>>

\* Variant: the check before the code is good enough.
RecoverAfterMfa_Trusting(t) ==
    /\ pc[t] = "mfaRecovery"
    /\ recKey # NoKey
    /\ RecoverWithKey(t)
    /\ Misuse(t)
    /\ UNCHANGED <<token, mem, disables, restarts>>

\* and so must the recovery key.
RecoverAfterMfa(t) ==
    /\ pc[t] = "mfaRecovery"
    /\ IF KeyForRecoveryKey(sent[t]) /\ Room         \* bound
       THEN RecoverWithKey(t) /\ Misuse(t)
       ELSE Finish(t) /\ UNCHANGED <<settings, row, used>>
    /\ UNCHANGED <<token, mem, disables, restarts>>

-------------------------------------------------------------------------------
(* Storing private keys: save_ca, save_cert, save_ssh_key, create_pal_code *)

\* _maybe_encrypt looks whether there is a key,
SaveBegin(t, r) ==
    /\ pc[t] = "idle"
    /\ row[r] = Absent
    /\ Goto(t, IF mem = NoKey THEN "check" ELSE "seal")
    /\ target' = [target EXCEPT ![t] = r]
    /\ UNCHANGED <<settings, row, token, mem, used, held, sent, disables, restarts>>

\* if there was none, whether the database is locked,
SaveCheck(t) ==
    /\ pc[t] = "check"
    /\ IF Locked THEN Finish(t) ELSE GoOn(t, "insert", NoKey)
    /\ UNCHANGED <<settings, row, token, mem, used, disables, restarts>>

\* otherwise encrypts (which fails without a key);
Seal(t) ==
    /\ pc[t] = "seal"
    /\ IF mem = NoKey THEN Finish(t) ELSE GoOn(t, "insert", mem)
    /\ UNCHANGED <<settings, row, token, mem, used, disables, restarts>>

\* then comes the caller's INSERT.
Insert(t) ==
    /\ pc[t] = "insert"
    /\ row' = [row EXCEPT ![target[t]] = held[t]]
    /\ Finish(t)
    /\ UNCHANGED <<settings, token, mem, used, disables, restarts>>

\* delete_cert and the like
Remove(r) ==
    /\ row[r] # Absent
    /\ row' = [row EXCEPT ![r] = Absent]
    /\ UNCHANGED <<settings, token, mem, used, threads, disables, restarts>>

-------------------------------------------------------------------------------
(* Storing tokens: set_cloudflare_credentials, set_pal_relay_config and
   create_pal_relay_key *)

\* is_encryption_enabled, require_unlocked
TokenBegin(t, x) ==
    /\ pc[t] = "idle"
    /\ Enabled /\ ~Locked
    /\ Goto(t, "sealToken")
    /\ target' = [target EXCEPT ![t] = x]
    /\ UNCHANGED <<settings, row, token, mem, used, held, sent, disables, restarts>>

\* Variant: what _maybe_encrypt returns without a key is stored.
SealToken_Unchecked(t) ==
    /\ pc[t] = "sealToken"
    /\ GoOn(t, "store", mem)
    /\ UNCHANGED <<settings, row, token, mem, used, disables, restarts>>

SealToken(t) ==
    /\ pc[t] = "sealToken"
    /\ IF mem = NoKey THEN Finish(t) ELSE GoOn(t, "store", mem)
    /\ UNCHANGED <<settings, row, token, mem, used, disables, restarts>>

StoreToken(t) ==
    /\ pc[t] = "store"
    /\ token' = [token EXCEPT ![target[t]] = held[t]]
    /\ Finish(t)
    /\ UNCHANGED <<settings, row, mem, used, disables, restarts>>

\* clear_cloudflare_credentials, clear_pal_relay_config
ClearToken(x) ==
    /\ token[x] # Absent
    /\ token' = [token EXCEPT ![x] = Absent]
    /\ UNCHANGED <<settings, row, mem, used, threads, disables, restarts>>

-------------------------------------------------------------------------------
\* The process stops at any point and starts again, locked.
Restart ==
    /\ restarts < MaxRestarts
    /\ restarts' = restarts + 1
    /\ mem' = NoKey
    /\ pc' = [t \in Thread |-> "idle"]
    /\ held' = [t \in Thread |-> NoKey]
    /\ target' = [t \in Thread |-> Absent]
    /\ sent' = [t \in Thread |-> 0]
    /\ UNCHANGED <<settings, row, token, used, disables>>

Next ==
    \/ \E t \in Thread :
           \/ Enable(t) \/ Unlock(t) \/ ChangePassword(t)
           \/ CreateRecoveryKey(t) \/ Recover(t) \/ LoadKey(t)
           \/ \E n \in {passNo, recNo} : FormEncryptionKey(t, n)
           \/ \E r \in Row : CheckCode(t, r)
           \/ UnlockAfterMfa(t) \/ RecoverAfterMfa(t)
           \/ DisableCheck(t) \/ Disable(t) \/ Forget(t)
           \/ \E r \in Row : SaveBegin(t, r)
           \/ SaveCheck(t) \/ Seal(t) \/ Insert(t)
           \/ \E x \in Token : TokenBegin(t, x)
           \/ SealToken(t) \/ StoreToken(t)
    \/ \E r \in Row : Remove(r)
    \/ \E x \in Token : ClearToken(x)
    \/ Restart

Spec == Init /\ [][Next]_vars
-------------------------------------------------------------------------------
(* Properties *)

\* The recovery key opens what the password opens, and nothing once encryption
\* is off.  The first one wraps the key in memory (create_recovery_key), which
\* after encryption was switched off and on again need not be the one in use.
WrapsAgree == recKey \in {NoKey, passKey}

\* Unless encryption has been switched off, whatever keys changed and whatever
\* was being stored meanwhile, the password opens every private key and token
\* in the database, and so does the key in memory if one is loaded.
NothingLost ==
    disables = 0 =>
        /\ \A r \in Row : row[r] \in {passKey, NoKey, Absent}
        /\ \A x \in Token : token[x] \in {passKey, Absent}
        /\ mem \in {passKey, NoKey}

\* A password or recovery key that was replaced or used up opens nothing, though
\* the check that a sign-in made with it was before that (_unlock_after_mfa,
\* recover_with_key: "The used key is revoked").
SpentStaysSpent == ~misused

\* What makes it inductive
SecretsInv ==
    /\ SpentStaysSpent
    /\ passNo # recNo
    /\ Enabled => passNo \notin dead
    /\ recKey # NoKey => recNo \notin dead

\* What makes the two before inductive: a database in the old format has no key loaded
\* anywhere, one without a recovery key was never decrypted, and until that
\* happens every key and value a thread holds is the key on record.
KeysInv ==
    /\ WrapsAgree
    /\ NothingLost
    /\ legacy =>
           /\ Enabled /\ recKey = NoKey /\ mem = NoKey
           /\ \A x \in Token : token[x] = Absent
           /\ \A t \in Thread : pc[t] \in {"idle", "check", "disable", "forget",
                                          "codePassword", "mfaPassword"}
    /\ Enabled /\ recKey = NoKey => disables = 0
    /\ disables = 0 => \A t \in Thread :
           /\ pc[t] \in {"load", "store"} => held[t] = passKey /\ Enabled
           /\ pc[t] = "insert" => held[t] \in {passKey, NoKey}

\* _maybe_encrypt: "never write plaintext keys into an encrypted database"
NeverPlain == Enabled => \A r \in Row : row[r] # NoKey
===============================================================================
