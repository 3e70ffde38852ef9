# Verification of Cert Generator

TLA+ models of Cert Generator, the TLC runs that check them and the TLAPS
proofs about them. File and line numbers are those of the repository; `app/`
is `src/app/` and `pal/` is `src/pal/` in the module map of `PROJECT.json`.

## The system

Cert Generator is a Flask application (`app/`) with a SQLite database, served
by waitress with four worker threads (`app/serve.py`). Two more threads run
beside them: `crl-renewer` (`app/crl_publisher.py`) and `pal-relay`
(`app/relay_collector.py`). Cert Generator Pal (`pal/`, C#) runs on Windows PCs
and asks the server for certificates, on the LAN or through a Cloudflare Worker
(`app/relay_worker.py`).

One fact shapes every model: **a `db.*` function opens its own connection,
commits and closes it**. A call that writes, or reads by one query, is one atomic
step. One that only reads opens no transaction: if it makes several queries, each
is a step of its own. A handler is a sequence of such steps, and between any two
another thread, the admin or a crash may come.

| Component | State it keeps | Operations | What is hard | What makes it correct |
|---|---|---|---|---|
| CRL publishing (`crl_publisher.py`, `routes/pki.py`) | revocations, the signed list, when it is due, the Worker's copy and what is known of it | revoke, delete, issue, sign, push, renew | read-sign-write without a lock; uploads of up to 30 s; a locked database; crashes between revoking and signing | nothing invented, nothing un-revoked, every revocation published in the end |
| CRL Workers (`crl_worker.py`, `cloudflare.py`) | the CA's Worker columns; what exists at Cloudflare | deploy, undo, tear down, push, list, connect, disconnect | two systems changed one call at a time, every call may fail or lose its answer | no certificate's address goes dead unnoticed; what is left behind is found again |
| Pal requests (`routes/pal.py`, `pal.py`) | the PC, its policy, requests, certificates, presence | ask, approve, deny, collect, audit, remove, disconnect, delete; names and patterns | two admins' tabs and a PC at once; a crash while signing; checks before acts | each request signed once; rows tell the truth; a disconnected PC keeps nothing; no name beyond the policy |
| Pal pairing and signed requests (`pal.py`, `routes/pal.py`) | codes, device keys, nonces | create, withdraw, enroll, verify | single use under a race; replay at the edge of the clock skew | one PC per code; no request accepted twice |
| Pal binds (`routes/pal.py`, `Binder.cs`) | binds waiting for a decision | ask, decide, report | asked twice, decided after cut-off | a bind is decided once |
| Key store (`db.py` 377-594) | wrapped master key, encrypted columns, key in memory | enable, disable, unlock, change passwords, add or drop recovery | rows written by other threads while the mode changes; crash after commit | every stored key can be read by whoever has the password |
| Relay (`relay*.py`) | mailbox rows, waiters, keys, the collector's cursor | submit, pull, answer, alarm, wake, push keys | batches deleted before they are answered; long polls; restarts of either end | a PC is told the truth; the mailbox forgets; its list of PCs catches up |
| Accounts (`routes/auth.py`, `routes/account.py`, `server.py`) | the account's row with its session version and last code step, trusted devices, session cookies | set up, sign in, enter a code, re-authenticate, MFA on and off, revoke, reset, restore | a request goes on with the row it read first; cookies cannot be taken back; two uses of one code | an ended session stays ended; a code works once; nothing outlives the credentials it came from |
| Limiters (`security.py`) | counters per key | allow, fail | table full, window edges | fails closed |
| CA tree (`routes/pki.py`, `crypto_engine.py`) | CA rows, certificates, deleted revocations | create, issue, revoke, delete, export, hand out lists | made in memory, saved later; ids that outlive rows; path lengths, validity clipping | every chain verifies; an address keeps its CA; revoked stays revoked |
| Backup and restore (`db.py`, `routes/settings.py`) | everything | export, restore | tables read one after the other; every row replaced under running requests | what is restored is whole |
| Pal on the PC (`pal/src`) | profile, pending requests, pending revocations, certificates in the store | request, collect, remove, retry | load-await-save of files; crash between server answer and save | a request that was answered can be collected |
| Binding (`Binder.cs`, `LocalCrlServer.cs`) | Windows services' certificate settings | bind, undo, serve a CRL locally | several system steps, each may fail | an undo that restores |
| User interfaces, scripts, crypto wrappers, packaging | none of their own | | | not modelled |

They interact through the database (all of `app/`), through
`crl_publisher.publish` (whoever revokes or issues), through `db.require_unlocked`
(whoever needs a private key), and through HTTP between PC, relay, server and
Cloudflare.

## Modules

### CrlPublishing - one CA's list

| In the module | In the code |
|---|---|
| `status[c]` | the row of `certificates` and the row `db.delete_cert` leaves in `deleted_revocations`: `live`, `revoked`, `deleted` (nothing left), `kept` (revoked, then deleted), `lapsed` (kept, and past its expiry) |
| `crlPublic`, `crlDer`, `pushed`, `pushError` | columns `crl_public`, `crl_der`, `cf_pushed_sha256`, `cf_push_error` of `certificate_authorities` |
| `due` | half of the list's life has passed, the one thing `renew_due` asks of its dates |
| `remote` | the list bundled in the CA's Worker |
| `pc`, `todo`, `mine`, `snap` | where each thread is in its handler, what it still has to revoke, what it passed to `db.revoke_cert`, and the list it has read but not written or sent |
| `RevokeOne`, `RevokeOwn`, `Disconnect`, then `RevokeCert` per certificate | `revoke_cert` of the CA page, `revoke_own_certs`, `_disconnect` (`_revoke_superseded` is the same loop) |
| `SignStart`, `ReadRevoked`, `PublishCrl` | the three parts of `crl_publisher.sign`: checks, `db.list_revoked_serials`, `db.publish_crl` |
| `PushStart`, `SendOk` / `SendFails`, `RecordPushed` / `RecordPushError` | `crl_worker.push`; a failed upload may have taken effect |
| `RenewDue`, `HalfLife` | the renewer and the passing of time |
| `Restart`, `Unlock` | a stop at any point; `db.unlock` |

The CA's Worker, if it has one, is there throughout. A list is the set of
certificates on it: signature, number and dates are abstracted. Deleting a whole
CA, and lists handed out to be served elsewhere, are in `Authority`. A restored backup is in it only so far that the digest of the
last push may be missing at the start.

`CrlPromise` is the abstract specification: a record of revocations that
changes, and a served list that is always a value the record had. `CrlHistory`
adds a history variable to `CrlPublishing` and maps it to the promise twice,
once for the list served here and once for the Worker's. The promise leaves out
on purpose that the list is the *newest*: it is not (see "Known races").

### PalRequests - one PC's requests for one kind and name

| In the module | In the code |
|---|---|
| `device`, `mode` | `pal_devices.revoked_at` and whether there is a row; what `pal.policy` answers for the kind |
| `req`, `certId`, `renewals` | `pal_requests.status`, `cert_id`, and whether `renew_of` is set |
| `cert`, `present` | `certificates` rows and their `pal_present` |
| `signedFor` | history: which request a certificate was signed for; no action reads it |
| `Ask`, `CheckLive`, `CheckWaiting`, `Insert` | `create_request` with `_renewable` and `_duplicate_refusal`, one action per transaction |
| `Claim`, `Load`, `Save` / `SaveFails`, `MarkIssued`, `PutBack`, `Supersede` | `_issue` and `_revoke_superseded` |
| `Disconnect`, `ListCerts`, `CutOff`, `RevokeCert`, `Forget`, `DeleteRevoked` | `revoke_device`, `delete_device`, `_disconnect` |
| `RemoveOwn`, `RevokeCert`, `MarkRemoved` | `revoke_own_certs` |
| `StartAudit`, `Audit` | `cert_status` with `db.mark_pal_presence` |
| `Fails`, `Restart` | a transaction of a handler fails and ends it, also the one that puts a request back or marks it issued; the process stops |
| `stuck`, `spared` | history: requests whose handler a fault ended; certificates saved when the PC's were listed already, kept on purpose, or not reached by a revoking loop that a fault ended. No guard reads them |
| `Deny`, `EditPolicy`, `AdminRevokes`, `Leaves` | the admin's single-step handlers, deletion and expiry |

Left out: the signed envelope (a request here is one that passed
`_signed_device`), the cascade when a CA is deleted, and the publishing after
a revocation, which is `CrlPublishing`'s subject. The names are `PalNames`'.

`PalPromise` is the abstract specification: each request is answered once. The
refinement mapping calls a request signed from the moment a certificate is
saved for it, before `MarkIssued` writes so to its row, and keeps it waiting
while a handler is about to save one even if the PC's rows have just been
deleted.

### PalNames - what a PC may ask for

A module of operators, without state: what a form must be and what becomes of
it, the names it allows, the names a request gets, and when a certificate may be
renewed. Of a function of the code that refuses or returns a value, `XOk` says
whether it returns and `X` what.

| In the module | In the code |
|---|---|
| a text | the labels between its dots, in any letter case, with empty labels where dots follow each other |
| `Clean`, `IsDnsName`, `IsWildcard`, `DnsPatternOk`, `Under`, `Covers`, `DnsNameAllowed` | `normalize_dns_name`, `is_dns_name`, `parse_dns_patterns`, `dns_name_allowed` and what they call in `pal.py` |
| `EMail`, `UserPatternOk`, `UserNameAllowed` | the same for `user@domain` |
| `PolicyOk`, `Policy`, `FqdnOk` | `parse_policy`, the PC's own name |
| `Base`, `CrlDpOk`, `CrlDp` | `_set_crl_dp`: the revocation types ticked, and the server's address for lists, the form's or else the one PCs connect to, which must be a URL |
| `CodeOk`, `Paired`, `Edit`, `EditOk`, `Edited` | `create_code`, `enroll`, `edit_device_policy` |
| `NamesOk`, `Names` | `request_names` for the four kinds of certificate |
| `RenewOpens`, `LiveCerts`, `Covered`, `Duplicate`, `Renewable`, `RenewalOk`, `RequestOk`, `AsksAdmin` | the checks of `create_request` |

`MCPalNames` evaluates its operators for every text of a few labels and every
form with one pattern, against plain definitions (the longest part that ends in
a label; a suffix), and in the cases the documentation names. `MCPalRequests`
extends it, so that its run evaluates these assumptions. Lengths of names
and of text are left out.

### CrlWorkers - the CAs' Workers at Cloudflare

| In the module | In the code |
|---|---|
| `cas`, `row`, `creds` | the CAs, their `cf_worker`, `cf_account_id`, `cf_hostname`, `cf_domain_id` columns, the account of the stored token |
| `certs` | Worker and host of the CRL address in each CA's certificates |
| `remote`, `devOn`, `dns` | what exists at Cloudflare: Workers, their workers.dev switch, hostnames attached |
| `doomed` | history: Workers the admin has begun to delete; no action reads it |
| `DeployBegin`, `DeployName`, `Register`, `Upload`, `Attach`, `RecordDomain`, `SetWorkersDev`, `Record` | `crl_worker.deploy`, one action per transaction or call |
| `UndoDeploy`, `Detach`, `Delete`, `Clear` | `_undo_deploy` |
| `Teardown`, `DeleteUnlinked`, then the same three | `teardown`, `delete_by_name` |
| `ConnectCheck`, `Connect`, `DisconnectCheck`, `Disconnect`, `DeleteCaCheck`, `DeleteCa` | the handlers that look for deployed Workers first and act afterwards |
| `PushBegin`, `Push`; `IssueBegin`, `SaveCert` | pushing and issuing on other threads, which read the CA's row and use it later |

A call to Cloudflare does its work or not (`CallFails`), and if it does, its
answer arrives or is lost (`Answered`). Cloudflare itself is modelled from how
`app/cloudflare.py` uses it: uploading creates or replaces, deleting what is gone
succeeds. Not in the module: `test`, `status` and the other operations that read
only, the switch between http and https that `test` makes, the lists' contents
(`CrlPublishing`), two CAs given the same hostname. A locked database is one of
the reasons in `Refused`, and one of those for a failed upload.

The module takes **one admin at a time** (`Admin` has one member in the run). With
two, both properties fail: two tabs may both find that the CA has no Worker
(`crl_worker.py:57`) and the second registration hides the first, and one may
disconnect between the other's check and its registration
(`routes/cloudflare.py:69`). Both are in the list of hazards.

### KeyStore - encryption at rest

| In the module | In the code |
|---|---|
| `passKey`, `legacy`, `recKey` | the key that the password and the recovery key unwrap (`encryption_wrapped_key`, `recovery_wrapped_key`), and whether the database has the format before 2.6.0 |
| `row`, `token` | the key each private key or token is stored under: `NoKey` for plaintext |
| `mem` | the global `_master_key` |
| `Enable`, `Unlock`, `ChangePassword`, `CreateRecoveryKey`, `Recover`, `DisableCheck` and `Disable` | the functions of those names; each `_key_change` is one write transaction |
| `LoadKey`, `Forget` | `set_master_key` and clearing it, after the transaction and without a lock |
| `SaveBegin`, `SaveCheck`, `Seal`, `Insert` | `_maybe_encrypt` (a look at the key, a look at the setting, the encryption) and its caller's `INSERT` |
| `TokenBegin`, `SealToken`, `StoreToken`, `ClearToken` | storing and clearing API tokens |
| `passNo`, `recNo`, `lastNo` | which password and which recovery key are good now; they are numbered as they come into use |
| `FormEncryptionKey`, `CheckCode`, `UnlockAfterMfa`, `RecoverAfterMfa`, `sent` | the sign-in with a one-time code while the database is locked (`routes/auth.py`): the form's secret is checked, opens the code's own secret, and is used after the code has passed |
| `dead`, `misused` | history: secrets that were replaced or used up, and whether one of them opened the database |

A value is known by the key it is encrypted under, so "can be decrypted" is an
equality. Wrong passwords change nothing and are left out, and so are reads and
restoring a backup. A secret that was right when it was checked may be wrong by
the time it is used: that is what the numbers are for (`SpentStaysSpent`).

`NothingLost` is said of databases that never had encryption switched off, and
that condition is needed: an unlock or a save that overlaps `disable_encryption`
loads or writes under the key that has just been thrown away
(`db.py:502` in the list of hazards), and a later `enable_encryption` does not
find it out. Switching off and on is in the instance: `WrapsAgree` has no
condition.

### PalDevices - pairing codes and signed requests

| In the module | In the code |
|---|---|
| `code`, `device`, `remote` | rows of `pal_codes` (unused, expired, revoked, used, deleted) and of `pal_devices`, and `remote_allowed` |
| `codeOf`, `runs`, `ahead` | history: the code a PC connected with; how often a request took effect; requests dated ahead by nearly the skew, or more |
| `rowless` | what a request asks for: something written with the PC's row, or something that is not |
| `now`, `ts`, `nonce` | the server's clock, the time the PC put on a request, `pal_nonces.expires_at` |
| `copies` | the ways, LAN and relay, by which a copy of a request may still arrive |
| `pc`, `job`, `seen`, `checkedAt` | each handler: where it is, what it works on, the PC's row as it read it, when it looked at the clock |
| `Enroll`, `EnrollDevice`, `EnrollFails` | `enroll`: its checks, `db.enroll_pal_device`, a refusal |
| `CreateCode`, `RevokeCode`, `ExpireCode`, `SetRemote`, `RevokeDevice`, `DeleteDevice` | the admin's handlers and the passing of time |
| `Sign` | `PalClient.SignedAsync` |
| `ReceiveLan`, `ReceiveRelay`, `Verify`, `UseNonce`, `Run` | a request's way through `_signed_device` (through `relay_dispatch` first, if it came by the relay) to its handler |

A PC sends one signed request over the LAN and, if that fails, the same one
through the relay (`PalClient.RouteAsync`). Either copy may arrive late or never,
even while the other is being handled. `RunOnce` says that it takes effect once,
and names the two cases in which the code lets it take effect twice.

- `Verify` and `UseNonce` look at the clock one after the other, and `NonceTtl` is
  exactly twice `Skew`. A request dated ahead by the whole skew is accepted until
  twice the skew later, when its nonce still counts; but a handler that pauses
  between the two looks finds the nonce expired. This takes a clock that is ahead
  by more than the skew less the pause (`ahead`; the skew is 300 s).
- `pal_nonces` has no foreign key, and deleting a PC drops its nonces. The handlers
  of `crls`, `crl/publish`, `status` and `revoke` go on with the row that
  `_signed_device` read and have their effect without it, so a copy that was
  verified before its PC was disconnected and deleted can take effect again
  (`rowless`). What is written with the PC's row has no effect without it.

Left out: deleting a CA with its codes and PCs, editing a PC's name and policy,
the limiters. What a request does is `PalRequests`' subject.

### Relay - the way through the Worker

| In the module | In the code |
|---|---|
| `keys`, `sent`, `queued`, `reply`, `replyAge`, `alarm` | the Durable Object's storage: `keys`, the ages of `s:` entries, the `q:` and `r:` entries with what they say and their age, the alarm |
| `handler`, `ghost` | the Mailbox's handlers under way: one per request of a PC, and a `pull` whose caller is gone |
| `pal` | what the PC knows of its request |
| `config`, `deployed`, `unlocked`, `allowed` | `pal_relay_worker`; whether its Worker is there; `db.is_unlocked`; the PCs in `list_pal_remote_keys` |
| `at`, `link`, `read`, `pushed`, `batch`, `answers`, `wake` | where the collector's `loop` and `run_once` are, their variables, and the event `_wake` |
| `admin` | where the handler that sets up or tears down is: it still has to clear the config, or to call `poke` |
| `Send`, `Store`, `Take`, `NotYet`, `PickUp`, `GiveUp` | `Mailbox.send`, `awaitReply`, `takeReply`, `pickUp`; `PalClient.ViaRelayAsync` |
| `Alarm`, `Tick` | `Mailbox.alarm`; time |
| `GetLink`, `ReadKeys`, `PutKeys`, `Pull`, `Dispatch`, `DispatchFails`, `WorkDone`, `Reply`, `LoopEnd`, `Retry`, `CallFails`, `GhostEnds` | the collector, one action per call or transaction, and the Mailbox's side of each call |
| `DeleteWorker`, `ClearConfig`, then `Poke` | `tear_down`: the call to Cloudflare, which may lose its answer and end the handler, `clear_pal_relay_config`, `poke` |
| `Allow`, `SetUp`, `Poke`, `Restart`, `Unlock` | the admin and the server's process, which starts with its database locked |

While a handler of a Durable Object waits for its storage no other event is
delivered, so a handler is atomic except where it verifies a signature or waits
for its peer. A call does its work or not, and its answer arrives or is lost; a
lost caller is not noticed. `Dispatch` checks and runs a request in one step:
`PalDevices` has the steps in between. A PC that has given up does not ask again
for the same envelope, as in the code. A set-up that fails half way changes
nothing here. Two things are coarser than the code: the statuses a request may be
refused with, by `relay_dispatch` or by its handler, are one `refused`; and a
`putKeys` whose answer was lost takes effect, if at all, before the collector's
next call, not at some later time.

If the answer to deleting the Worker is lost, `tear_down` raises: the Worker is
gone with all it held, the settings are kept, and the collector goes on calling a
Worker that does not answer until the admin tears down again (Cloudflare answers
404 then). `KeysKnown` allows this: the collector's next call fails, and an error
makes it forget what it pushed.

The comment at `relay_worker.py:239` says that nothing stays in the Mailbox for
longer than `TTL_MS`. It does (finding 3); `MailboxForgets` states the bound that
holds, which is twice that.

### Accounts - sign-in

| In the module | In the code |
|---|---|
| `user`, `devices` | the row of `users` (password, `totp_secret`, `totp_last_step`, `session_version`, `require_password`) and `trusted_devices` |
| `cookie`, `trust` | each client's session and its `_trust_token` |
| `pc`, `req` | where a request is, and what it has in hand: the session as changed so far, the row it read at the session check, the code it was sent |
| `now` | time in the 30-second steps of one-time codes |
| `spent`, `twice`, `lowered`, `replaced`, `cut`, `made`, `strays` | history; no guard of the code's reads it |
| `SendSetup`, `CreateFirstUser`, `Greet` | first-run setup |
| `Login`, `SendCode`, `CheckCode`, `ClaimTotpStep`, `InsertDevice` | `/login` and `/mfa`, one action per transaction: the row is read, the secret is read again, the step is claimed, the device is saved |
| `Enter`, `AutoLogin`, `ViewPage`, `ReauthPassword`, `ReauthCode`, `ReauthLapses` | the session check (`server.py`, `web.py`), a trusted device that signs in, and re-entry |
| `MfaSetup`, `MfaConfirm`, `MfaDisable`, `TurnOff`, `DeleteTrustedDevices`, `BumpSessionVersion`, `MfaRevokeDevices`, `DeleteDevice`, `RequirePassword`, `Logout` | `routes/account.py` |
| `Backup`, `RestoreUsers`, `RestoreOthers`, `KeepSession` | a backup, and the account's part of a restore of it |
| `Restart`, `ResetMfa`, `ResetPassword` | a stop at any point, and the two resets at start-up (`RESET_MFA`, `RESET_PASSWORD`), which run before any request and so are one step |
| `OpenTab` | another tab has the same cookies |

A wrong password changes nothing here and is left out; counting wrong ones is
the limiters'. `REAUTH_WINDOW_SECONDS` passes at any time. Two members of `Client` are two
browsers or two tabs: `OpenTab` gives both the same session.

Three properties have a condition, and each is needed. `SessionsEnd` holds until a
restore replaces the row, because the new row's version starts again (finding 2).
`CodesUsedOnce` holds until a write takes `totp_last_step` below a code that was
accepted: a confirmation writes the step of its own code whatever the row says by
then, and switching MFA off or a restore writes 0; the ghost `lowered` notes just
these. `DevicesMatch` leaves out devices whose sign-in overlapped a revocation (`strays`).

### Authority, Lookups - the CA tree, exports, backups

| In the module | In the code |
|---|---|
| `cas`, `lastId`, `certs`, `deleted` | `certificate_authorities` with its `sqlite_sequence`, `certificates`, `deleted_revocations` |
| `made` | how many certificates were made: the number is serial and key pair |
| `Walk`, `Tree`, `Chain` | the CAs above one, those below it, and the chain they give, as the tables are |
| `Root`, `Intermediate`, `Leaf`, `From`, `To`, `MaySignCa` | what `crypto_engine` signs: backdating, validity clipped to the issuer's, path lengths |
| `CreateCa`; `CreateIntermediate`, `SaveCa`; `IssueCert`, `SaveCert` | the handlers of `routes/pki.py`: read and sign, then save |
| `RevokeCert`, `DeleteCert`, `DeleteCa` | `db.revoke_cert`, `db.delete_cert`, `db.delete_ca` |
| `DownloadCrl`, `AskLists`, `SignList`, `NextCa` | lists handed out to be served elsewhere, for one CA or for it and those above |
| `ReadCas`, `ReadCerts`, `ReadDeleted` | `export_all_data`, one action per query |
| `Restore`, `RestoreOwn`, `RestoreForeign` | `import_all_data`: the own backup, or another installation's |
| `owner`, `gone`, `mixed`, `strays` | history: what each id stood for, what was revoked, whether and under whom another installation's backup came |
| in `Lookups`: `export`; `ReadLeaf`, `ReadIssuer`, `SendChain` | export of a full chain: `get_cert`, then one query for each CA (`get_ca_cert_chain`) |
| in `Lookups`: `ask`; `AskStatus`, `FindRoot`, `FindTree`, `FindCert`, `FindDeleted`, `FindCa`, `Tell` | `cert_status`: `root_ca_id` with a query for each CA, `ca_tree_ids`, and the three queries of `find_serials` |
| in `Lookups`: `Overtake` | a step of `Authority` while somebody reads; the history fields `crossed`, `cut`, `overtaken` note what came in between |

A certificate is its subject, issuer, signer, dates and path length. Publishing a
list is `CrlPublishing`'s, private keys and a locked database are `KeyStore`'s.
`Lookups` extends `Authority` with what is read by more than one query; its steps are
those of `Authority` and its own, in any order. Five things happen here, and the
properties say so with their conditions.

- A certificate in hand while *another installation's* backup is restored is saved
  under the CA that has the id now, which did not sign it (`strays`); such a
  restore also brings that installation's ids along (`mixed`).
- A backup whose tables are read while CAs come and go may hold rows without their
  CA, and such a file is refused on restore (`torn`).
- A CA deleted between the reading of its key and of its revocations signs an empty
  list, once.
- A chain that is read while its CAs are deleted ends below the root (`cut`). What
  it holds is still linked.
- A PC that asks for a status while a restore comes in may be told `unknown`, or
  what was true before, of a revoked certificate (`overtaken`): the row may move
  from one table to the other behind the queries. Without a restore it cannot:
  rows move only from `certificates` to `deleted_revocations`, and these are
  asked in that order (`After`).

### MC modules and proofs

`MCCrlPublishing`, `MCCrlHistory`, `MCPalRequests`, `MCPalNames`, `MCCrlWorkers`,
`MCKeyStore`, `MCPalDevices`, `MCRelay`, `MCAccounts` and `MCAuthority` give the
constants their values and the symmetry sets. `CrlPublishing_proof`,
`CrlWorkers_proof`, `Pal_proof` (about `PalRequests` and `PalNames`),
`KeyStore_proof`, `PalDevices_proof`, `Relay_proof`, `Accounts_proof` and
`Authority_proof` hold the theorems.

## Runs

| Run | Instance | Question |
|---|---|---|
| `CrlRefines` | 1 thread and the renewer, one certificate whose list is served here and one whose list is at the Worker, encrypted | is every list served one the record held; is anything invented, or missing from the list of the handler that revoked it? |
| `CrlLive` | 1 thread and the renewer, a Worker, 1 certificate, encrypted, 1 restart, fair | is every revocation on both lists in the end? |
| `PalRequests` | 2 threads, 2 requests, 2 certificates (one without a CRL), encrypted, failing transactions and restarts at any time | is each request answered once, do the rows say so, does anything but a fault leave one `issuing`, what does disconnecting leave? |
| `CrlWorkers` | 1 admin, 1 publisher, 2 CAs, 2 accounts, 3 Worker names, 1 hostname, 1 restart | does the address in a certificate keep answering until its Worker is deleted; does the account stay while a Worker is in it? |
| `KeyStore` | 2 threads, 4 data keys, 6 passwords and recovery keys, 2 rows, 1 token, encryption switched off twice, 1 restart | do password and recovery key open the same key, is anything stored lost, does a replaced one still open anything? |
| `KeyPlain` | 2 threads, 3 data keys, 2 rows, 1 token, switched off once, 1 restart | finding 1 |
| `PalDevices` | 2 web threads and the collector, 2 codes, 2 PCs, 1 request by two ways, skew 1, clocks off by up to the whole skew, pause 1, 3 ticks, restarts at any time | does a code connect one PC and a request take effect once? |
| `Relay` | 1 PC, 1 request, time limit 1, the relay set up again once, 1 restart, fair | is a PC told the truth, does the Mailbox forget, does its list of PCs catch up? |
| `MailboxTtl` | as `Relay` | finding 3 |
| `Accounts` | 2 clients, 1 password, 1 code secret, 1 trust token, 2 time steps, 2 changes | does an ended session stay ended, does anything outlive a change of credentials, is a code taken once? |
| `RestoreRevives` | 2 clients, no MFA, 3 changes | finding 2 |
| `Authority` | 1 request that makes certificates, 1 that reads, the admin at any time, 2 names, 3 certificates, 3 units of time, 1 restore of the own or another installation's backup; one who asks for a status asks of a certificate that was revoked | does every chain verify, stored or exported, does an address keep its CA, is a revocation ever forgotten, can a backup be restored? |

**Bounds.** The races here need two actors: two threads, one thread and the
renewer, or the admin and a publisher. Two certificates are the fewest with which
one can be on a list and the other missing, or one superseded by the other. Two
CAs and three Worker names let one deployment fail, another succeed and a third
name belong to a backup's Worker; two accounts are what `connect` tells apart.
Four data keys are one to start with, one for each of two times encryption is
switched on again, and one for an upgrade. Three ticks are the life of a nonce
(twice the skew) and one more; with a skew of one, a drift of one reaches the edge
that the code accepts, and both exemptions of `RunOnce` happen. In `Relay` requests meet only at the count of
those that wait and in a batch that fails; two requests of one PC, checked once
without restarts, gave nothing new, so that the run has one. Six secrets are a
password and a recovery key to begin with and two replacements of both. In
`Accounts` two changes are what a change and the one that overlaps or undoes it
take, two steps are a code of now and of just before, and one secret is enough
because after MFA was switched off a backup brings it back; two secrets and
three changes, run once without trusted devices, gave nothing new. A re-entered
password lapses only while a change is left that would ask for it. In
`Authority` three certificates are a root, a CA below it and a leaf, or two
trees; three units of time let a lifetime of two run out and be clipped at
either end; a CA that is gone and its id are what one restore can confuse (2,052,650
states; `PalRequests` has 517,038, with as many restarts as it likes). One restart is enough to lose a
handler's notes at any point, and to need an unlock; a second one starts from the
same kind of state. Every safety property is also proved without any of these
bounds. Where a bound stands in an action, a comment says
"bound".

**Deadlock.** A request id or a certificate is used once and there are two of
each, so in `PalRequests`, and in the `Crl` runs without a Worker, everything
may have been used up and no handler be under way: the instance stops there, the
program does not. Those configurations say `CHECK_DEADLOCK FALSE`. With a Worker
`Publish now` is always possible and deadlock is checked. In `CrlWorkers` the names
that the server draws at random run out. `Authority` stops when its certificates,
its time and its restore are used up and nothing is left to revoke, and says
`CHECK_DEADLOCK FALSE`. The key store, sign-in, the codes' and PCs' pages and the
collector never stop.

**Fairness.** A handler that has begun runs on (waitress keeps its threads
running), the renewer comes back every hour (`crl_publisher.start_renewer`) and
time passes. For the Worker, an upload that is tried again and again succeeds at
some time (`SF` on `SendOk`): without it nothing can be promised about a remote
service. The same holds for pushing the list of PCs to the relay (`SF` on
`PutKeys`); the collector's thread runs on whatever fails
(`relay_collector.py:169`), and a handler that has come to `poke` goes on to it
(`WF`; a restart ends it). While the database is locked the collector's round is
`GetLink` alone, which finds no link (`relay_collector.py:143`): `KeysCatchUp` is
about a database that stays unlocked, and a Worker that is there, from some time
on. No admin is obliged to do anything: the liveness properties say "if the
database stays unlocked from some time on", or "if the PCs with remote access
stay the same". `PalRequests` assumes no fairness.

Every property of a passing run has a mutant in `PROJECT.json`: a variant of one
action, such as publishing inside the revoking loop, renewing only a missing list, or denying a request that is being
issued, under which TLC finds it violated. They stand before the action they vary,
marked "Variant".

## Proofs

Every invariant and every action property that a run checks, and the
refinements, are theorems: for any sets of threads, requests, certificates, CAs
and names, any distribution points, with and without a Worker and encryption,
and for any number of restarts. `CrlWorkers` is proved under the condition its run
has, one admin at a time.

| Theorem | Argument |
|---|---|
| `TypeCorrect`, `RequestTypeCorrect` | inductive as they stand |
| `NothingInventedHolds` | the set of certificates ever revoked only grows (`EverRevokedGrows`); a list read is a part of it and is only copied afterwards |
| `OwnRevocationsHold` | needs the strengthening `OwnRevocationsInv`: nothing is left to revoke outside the loop, and what was passed to `db.revoke_cert` is neither absent nor live from then on, so it is on the record when the list is read, or lapses or is deleted unrevoked, and never comes back later |
| `ListsComeFromPast` | every list written, sent or out is in the history of the record |
| `ServerRefines`, `WorkerRefines` | from `ListsComeFromPast`: a step changes a served list only to one from the past and then leaves the record alone (`ListChanges`), or changes the record as the promise allows (`RecordStep`) |
| `SignedOnceHolds`, `RowsTellTheTruthHolds` | from `RequestsInv`, below |
| `ClaimsAreHeldHolds` | inductive with `TypeOK`: only `Claim` makes a request `issuing`, and whoever holds one keeps it, lets go of it by a transaction that changes its status, or is ended by a fault (`ClaimsStep`) |
| `RevocationSurvivesDeletionHolds` | an action property: no step but expiry takes a revocation off the record |
| `WorkersTypeCorrect`, `AddressesStayGoodHolds`, `AccountKeptHolds` | from `WorkersInv`, below |
| `DisconnectRevokesHolds` | from `DisconnectInv`, below |
| `KeysTypeCorrect` | needs that what is about to be stored as a token is encrypted |
| `WrapsAgreeHolds`, `NothingLostHolds` | from `KeysInv`, below |
| `DevicesTypeCorrect` | needs what each handler works on |
| `CodesConnectOneHolds` | a code is used in the transaction that creates its PC, so *used* and *has a PC* change together |
| `RunOnceHolds` | from `OnceInv`, below |
| `RelayTypeCorrect` | needs that a relay is torn down only if the bound lets it be set up again |
| `MailboxForgetsHolds` | the age of an entry and the time until the alarm add up to no more than twice the limit: ticking leaves the sum alone, the alarm leaves what is younger than the limit |
| `KeysKnownHolds` | needs that after an error the collector has forgotten what it pushed; everything else that makes the list wrong leaves a wake-up owed or pending, or the Worker gone |
| `AnswersTrueHolds` | from `AnswersInv`: a request is with its PC, in the queue or in one batch, never in two of them, and nobody has been told anything as long as it may still be taken up |
| `SpentStaysSpentHolds` | from `SecretsInv`: the password and the recovery key that are good have different numbers, and neither is among those replaced or used up |
| `AccountsTypeCorrect` | needs that the account has a password once it exists, and that a code being checked or claimed is one of a secret |
| `SessionsEndHolds` | from `VersionsInv`, below |
| `CodesUsedOnceHolds` | from `CodesInv`, below |
| `SessionsMatchHolds`, `DevicesMatchHolds` | from `MatchInv` and `DevicesInv`, below |
| `TypeCorrect` of `Authority_proof`, `ChainsHoldHolds`, `AddressKeepsCaHolds`, `ListsCompleteHolds`, `BackupRestoresHolds` | from `Inv`, below |
| `ExportsHoldHolds`, `RevokedStaysRevokedHolds` | from `LookingInv`, below |
| `CleanOnce`, `WildcardCoversBelow`, `DomainNotCovered` | lemmas on texts, for any labels: a clean name ends in a label (`CleanText`, `Greatest`), so cleaning again takes nothing away; a wildcard covers a suffix |
| `PairedFits`, `EditedFits`, `NamesWithinPolicy` | `Fits`: a PC's own name is clean, a DNS name, and allowed by its policy if machine certificates are on. Pairing establishes it, each edit that passes its checks keeps it, and from it every alternative name of a certificate is allowed and has no asterisk |
| `RenewWindow`, `RenewedOnce` | arithmetic of thirds: a renewal opens within the certificate's life, and not again once a later one is there |
| `RequestsRefine` | from `RequestsInv`: each action asks, signs, refuses or drops at most what the promise allows, or changes no answer |

`SignedOnce` is not inductive: that saving a certificate makes the *first* one of
its request rests on who holds the request. `RequestsInv` says so: a handler
still asking has its request id to itself (`AskingInv`); one that has claimed a
request holds it alone, its row is `issuing` or gone, and until it saves there is
no certificate for it (`HoldingInv`); a certificate not in the table was signed
for nobody. The theorem `RequestsInvHolds` proves it inductive.

`NothingLost` and `WrapsAgree` need each other: the first recovery key wraps the
key in memory, which is the one on record only as long as encryption was never
switched off. `KeysInv` adds what ties them together: a database in the old
format has no key loaded and no thread that holds one; one that is encrypted
and has no recovery key was never decrypted; and until encryption is first
switched off, every key and every encrypted value that a thread still holds is
under the key on record, though it may have been read long ago. `KeysInvHolds`
proves it inductive.

`RunOnce` rests on time. `PauseInv` says that a handler about to use a nonce found
its request dated within the skew, and has not paused for longer than `Lag` since. So no
handler can be about to use the nonce of `r` later than `ts[r] + Skew + Lag`. `OnceInv`
says of a request that is not `ahead` that once it has run, or is about to, its
nonce is kept until then at least: the nonce was used no earlier than
`ts[r] - Skew + Lag`, and twice the skew after that is late enough (`NonceLasts`:
forgetting nonces that have expired does no harm). No relation
between `Drift`, `Lag` and `Skew` is assumed. A PC's deletion takes its nonces, but
also the row without which a request has no effect, unless it is `rowless`.

`SessionsEnd` is about cookies, but a cookie comes from what a request has in hand.
`VersionsInv` says of both, and of the row a request has read, that no version is
above the row's, and that an ended session is of an earlier version still; every
change that ends sessions raises the row's version in the same transaction, so it
holds of all the others at once. A restore that replaces the row breaks it
(finding 2), which is the condition `replaced`.

`CodesUsedOnce` rests on the guard of `claim_totp_step`, not on `verify_totp`.
`CodesInv` says that no code spent on the row's secret, or on the secret of a code
that has passed the check and is still to be claimed, is above the last step. So
a claim that succeeds is of a code that was never spent. Switching MFA off and a
restore write a lower last step; unless that uncovers a spent code (`lowered`),
the invariant survives them.

`SessionsMatch` is about the moments between changes. A handler that changes the
credentials raises the version in the same transaction and keeps its own session
in a later one; until it has, or if it never does because the process stopped
(`cut`), nothing is promised. `MatchInv` says that otherwise any session of the
row's version, in a cookie or in hand, is of its credentials, and so is any row a
request has read at that version. A step that changes the credentials is followed
by `BumpSessionVersion` alone (`SettledBack`), which raises the version over
everything that is about, so that the invariant begins again with one session.

`DevicesMatch` needs what a sign-in will write before it writes it. `DevicesInv`
says that a sign-in that asks to be trusted, and did not begin before the devices
were last forgotten, has the credentials of now in hand when it inserts its
device. `TrustInv` says that nobody else inserts one.

`DisconnectRevokes` allows for any overlap, and its theorem for any fault.
`DisconnectInv` says that whatever is left to revoke and not `spared` is in the
notes of every handler that has listed the certificates and not cut the PC off
yet, and that once the PC is cut off it is in those of a handler in its revoking
loop. When all handlers are done there is no such handler, so nothing is left.
Only `Save` adds to what is left (`LeftShrinks`), and what it adds when somebody
has listed already is `spared`.

`AddressesStayGood` relates three systems of record: the certificate, the row and
Cloudflare. `WorkersInv` ties them together for one admin (`OneAdmin`). A Worker
that is not being deleted has one account, in which whoever remembers it would put
it, however long ago the row was read (`HomeInv`): so a late push recreates it only
where it belongs. A name never drawn is nowhere (`FreshInv`), and no two CAs share
a Worker or a hostname (`DistinctInv`), so what a deployment does, undoes or
deletes is at no address that another CA's certificates name (`ServedElsewhere`,
`DeletesElsewhere`). What a certificate names, or a handler is about to save, is
what the row says (`CertsInv`, `PublisherInv`), because the row of a deployment
under way has no address yet and is emptied only for a Worker that is being
deleted. `AdminInv` says what the admin's handler may rely on at each of its calls;
`AccountKept` follows from it. That *type correctness* needs all of this is the
hazard in small: a row that two handlers change would let a certificate name a
Worker that is not there.

`Authority` gets its invariant from what an id ever stood for, the history
`owner`. Ids are not used again (`OwnerInv`), not even for the rows that a backup
brings back, so a request that has read a CA finds under its id later either
nothing or the same CA (`HandsInv`), unless another installation's backup came in
between. `RowsInv` says that each row verifies under its parent's, and since
intermediates sign no further CA (path length 0), a chain is of at most two CAs.
A row that verifies has its key from its issuer, so its chain ends at a root and
the CAs whose chains end there are the tree (`Climbs`); a revocation is recorded
for a CA of that tree. A backup in the making is of the tables as they are, or
torn (`ReadingInv`).

What `Lookups` reads is of different moments, and `LookingInv` says what is left of
each when the next comes. A chain so far (`ExportInv`) is linked, and the CA that
comes next, if it is still there, signed the last one: as ids are never used
again, a CA read later is the one meant, or gone. For a status (`AskInv`, `Known`) it
says where the revocation can still be found: the tree read so far holds
the CA the row is under, as long as the root's id is there; and once the
certificates were asked in vain, the row is among the deleted ones and stays
there, unless a restore came in. `StepQuiet` is what makes the two work: a step of
`Authority` that is no restore brings no row back.

The theorems of `Authority` rest on what rows look like that the program has not
made itself: `ForeignAssumption` says of another installation's backup what these
theorems say of this one's, because the same program wrote it; `SerialAssumption`
that its serial numbers are not this one's, which the code leaves to chance
(159 random bits); `DaysAssumption` that lifetimes are at least a day
(`_lifetime_error`, `routes/pki.py:102`). Proving them found two faults in the model
that no run had: a certificate in hand across *two* restores of another
installation's backup was not noted in `strays`, so that `ChainsHold` was false
with a bound of two, and two arms of what a status answers overlapped.

`ListsComeFromPast`, `RevocationSurvivesDeletionHolds` (a step takes no revocation off
the record, expiry aside; `Authority` checks the same over backups and restores)
and the theorems about `PalNames` are facts the others, or the checks of
`create_request`, rest on; no run states them as a property.

The assumptions are those of the modules: `Dp` maps certificates to modes, the
model values for "none" are not members of the sets they stand beside, the flags
are Boolean, the bounds are natural numbers, the renewer and the collector
are not web threads, and each request has one sender. Of
labels: lower-casing twice is lower-casing once, a valid label has no asterisk,
and an address is in the network of itself alone.

Only model-checked: liveness (`RevocationReachesServedList`,
`RevocationReachesWorker`, `KeysCatchUp`), which is beyond the
prover, and the operators of `PalNames` against their plain definitions.

## Findings

Each is a run that TLC ends with a counterexample.

1. `KeyPlain`: `_maybe_encrypt` looks at the key in memory before its caller's
   transaction, and twice. A key that is being saved while encryption is switched
   on, or while a locked database is unlocked, is stored in plaintext in an
   encrypted database, and stays so until the keys are next re-encrypted. The
   comment at `db.py:339` says "Fail closed: never write plaintext keys into an
   encrypted database."
2. `RestoreRevives`: `_restore_users` replaces the account's row and does not name
   `session_version` (`db.py:1624`), so it starts again at 0 and is raised to 1. A
   session of version 1 that was ended before, by a revocation or a reset, counts
   again after the restore. The comment at `db.py:1632` says "end all sessions",
   and `README.md:647` that backup restores end every other session.
3. `MailboxTtl`: the alarm comes `TTL_MS` after it was set, removes what is older than
   that, and is set again for `TTL_MS` later (`relay_worker.py:254`). What was too
   young for it stays until the next, for up to twice `TTL_MS`. The comment at
   `relay_worker.py:239` says "nothing stays longer than TTL_MS", and
   `docs/cert-generator-pal.md:512` "a short TTL (10 min)".

### Known races

The models have these behaviours too, and the properties are stated so that they
allow them. They have no run of their own; where a document says otherwise, its
line is named.

- Of two overlapping handlers the one that read the revocations first may write
  the list last (`crl_publisher.py:46`). The served list then misses a revocation
  until the renewal repairs it, at half of the list's life, which
  `RevocationReachesServedList` shows. An upload to a Worker that overtakes another
  leaves it with the older list in the same way (`crl_worker.py:189`).
- `README.md:409` promises one live certificate per PC, kind and name. The
  duplicate check and the insert are separate transactions (`routes/pal.py:589`), so two
  overlapping requests both pass. It also happens without overlap: a
  certificate is reported missing, a second request is made and waits, the
  certificate is found again, the request is approved.
- `_disconnect` lists the certificates before it cuts the PC off
  (`routes/pal.py:948`); one saved after the listing stays live, although
  `README.md:454` says disconnecting revokes a PC's certificates.
- A process that stops inside `_issue` leaves the request `issuing` for good, and so
  does a failing write: that of `MarkIssued` (`routes/pal.py:192`), which is outside
  the `try`, or that of `PutBack` (`routes/pal.py:187`) on the very disk that was full
  for the certificate. The docstring at `routes/pal.py:155` says "any failure puts it
  back to pending". `ClaimsAreHeld` says that nothing else leaves one.
- `README.md:452` says that a request has "a single-use nonce"; in the two cases of
  `PalDevices` above a request takes effect twice (`routes/pal.py:344`,
  `db.py:174`, `db.py:1240`).
- `README.md:730` describes the full chain as leaf, issuing CA and root; one exported
  while its CAs are deleted ends early (`db.py:841`). A status asked for while a
  restore comes in may be `unknown` for a revoked certificate (`db.py:1034`).
- A renewal may carry another e-mail address than the certificate it renews and
  is not shown to the admin (`Renewable` does not compare it, `AsksAdmin` is false);
  the address is one the policy allows. A request that waits keeps its names when
  the policy is narrowed before it is approved.
- Two administrators at once may hide one Worker behind another or disconnect the
  account under one (`CrlWorkers` above).
- A bind may be asked for twice: the check comes before the first write, which is
  where sqlite3 begins the transaction (`db.py:1390`).
- A save that overlaps `disable_encryption` writes under the key just thrown away
  (`db.py:502`).
- `README.md:645` says that each one-time code is accepted only once. A
  confirmation of MFA that overlaps another, and a restore, write a lower last
  step, after which a code of the last minute can be accepted again (`lowered`).
- A device trusted by a sign-in that began before the trusted devices were
  forgotten is inserted after (`strays` of `Accounts`).
- A certificate in hand while another installation's backup is restored is saved
  under a CA that did not sign it (`strays` of `Authority`), and a backup read
  while CAs come and go may be one that cannot be restored (`torn`).

## Plan

In this order; what is done is named first, what is left after it.

1. `CrlPublishing`, `CrlPromise`, `CrlHistory`. Done.
2. `PalRequests`, `PalPromise`, `PalNames`. Done, save for the cascade when a CA is
   deleted.
3. `CrlWorkers`. Done, for one admin. Left: what still holds with two.
4. `KeyStore`. Done, with the sign-in of a locked database. Left: restoring a
   backup into it.
5. `PalDevices`. Left: the cascade when a CA is deleted, which keeps the nonces of
   its PCs.
6. `Relay`. Left: the abstract specification (a request is answered at most once,
   by an answer to itself, or times out) and the refinement; updating the Worker
   in place; several requests in one batch.
7. `Accounts`. Done.
8. `Authority`, `Lookups`. Done, with backup and restore. Left: SSH keys in a backup.
9. `PcState`: profiles, pending requests and revocations as files, crashes
   between answer and save, composed with `PalRequests`; `LocalCrl`: the
   multi-step install and its undo.
10. `PalBinds`, and the limiters at their limits as operators.

Runs of one question are joined where one instance answers several (as in
`CrlRefines`), so that each module brings one or two.

## Not modelled

- **Cert Generator Pal on the PC** (`pal/src`): profiles, pending requests and
  pending revocations in files, and binding certificates to Windows services. The
  hazards at `DeviceState.cs:275`, `Operations.cs:250` and `LocalCrlServer.cs:82` are
  its own and no property covers them. How it sends a request is in
  `PalDevices` and `Relay`. What is correct on the Windows side is decided by
  Windows, which the repository only calls.
- **Pal binds**: one row, decided by one guarded `UPDATE`; its one race is in the
  list above.
- **Limiters** (`security.py`): counters behind one lock each. A call is one step
  and what it counts changes no other state, so that wherever they refuse, the
  models simply do not take the action.
- **Cryptography, encodings, exports** (`crypto_engine.py` beyond what a
  certificate says about its issuer): calls of a library, with no state.
- **SSH keys, activity log, self-test, user interfaces, install bundles, scripts,
  start-up and packaging**: single reads and writes, text, or processes that the
  modules have as threads.
