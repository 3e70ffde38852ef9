------------------------------ MODULE PalDevices ------------------------------
(***************************************************************************)
(* Pairing PCs and accepting their signed requests: enroll,                *)
(* _signed_device, relay_dispatch and the pages for codes and PCs in       *)
(* app/routes/pal.py, with their functions in app/db.py.                   *)
(*                                                                         *)
(* A PC sends the same signed request over the LAN and, if it gets no      *)
(* answer there, through the relay (PalClient.RouteAsync).  Either copy    *)
(* may arrive late, after the PC gave it up, or never.  Each handler       *)
(* reads the clock twice, and rows of the database in between.             *)
(*                                                                         *)
(* Signatures and proofs hold: a request here is one its PC signed.  What  *)
(* a request then does is PalRequests' subject.                            *)
(***************************************************************************)
EXTENDS Integers, FiniteSets

CONSTANTS Thread,       \* web threads, which take what comes over the LAN
          Collector,    \* the relay collector's thread
          Code,         \* pairing codes
          Device,       \* device ids, drawn at random when a PC connects
          Request,      \* signed requests, each with a nonce of its own
          None,         \* no code, device, nonce
          Skew,         \* CLOCK_SKEW_SECONDS
          Drift,        \* how far PCs' clocks are off
          Lag,          \* longest time between a handler's looks at the clock
          MaxTime       \* bound: how long time goes on

Proc == Thread \cup {Collector}

\* NONCE_TTL_SECONDS
NonceTtl == 2 * Skew

ASSUME ProcAssumption == Collector \notin Thread
ASSUME NoneAssumption == None \notin Code \cup Device \cup Request \cup Int
ASSUME TimeAssumption == Skew \in Nat /\ Drift \in Nat /\ Lag \in Nat /\ MaxTime \in Nat

VARIABLES
    now,        \* the server's clock
    code,       \* state of each code's row: used_at, revoked_at, expires_at
    device,     \* and of each PC's
    codeOf,     \* history: the code each PC connected with
    remote,     \* pal_devices.remote_allowed
    signer, ts, \* who signed a request, and the time the PC put on it
    copies,     \* ways by which a copy of it may still arrive
    rowless,    \* requests whose handlers do not need the PC's row any more
    ahead,      \* history: those whose PC's clock was ahead by nearly Skew, or more
    nonce,      \* pal_nonces: until when each request's nonce is kept
    runs,       \* history: how often each request has taken effect
    pc, job,    \* where each thread is, and the code or request it works on
    seen,       \* the PC's row as the handler read it
    checkedAt   \* when it looked at the clock

handlers == <<pc, job, seen, checkedAt>>
requests == <<signer, ts, copies, rowless, ahead>>
vars     == <<now, code, device, codeOf, remote, requests, nonce, runs, handlers>>

CodeState == {"none", "unused", "expired", "revoked", "used", "deleted"}
DeviceState == {"none", "connected", "revoked", "deleted"}
Way == {"lan", "relay"}
Pc == {"idle", "enroll", "verify", "nonce", "run"}

TypeOK ==
    /\ now \in 0..MaxTime
    /\ code \in [Code -> CodeState]
    /\ device \in [Device -> DeviceState]
    /\ codeOf \in [Device -> Code \cup {None}]
    /\ remote \in [Device -> BOOLEAN]
    /\ signer \in [Request -> Device \cup {None}]
    /\ ts \in [Request -> Int]
    /\ copies \in [Request -> SUBSET Way]
    /\ rowless \subseteq Request /\ ahead \subseteq Request
    /\ nonce \in [Request -> Int \cup {None}]
    /\ runs \in [Request -> Nat]
    /\ pc \in [Proc -> Pc]
    /\ job \in [Proc -> Code \cup Request \cup {None}]
    /\ seen \in [Proc -> DeviceState]
    /\ checkedAt \in [Proc -> 0..MaxTime]

Init ==
    /\ now = 0
    /\ code = [c \in Code |-> "none"]
    /\ device = [d \in Device |-> "none"]
    /\ codeOf = [d \in Device |-> None]
    /\ remote = [d \in Device |-> FALSE]
    /\ signer = [r \in Request |-> None]
    /\ ts = [r \in Request |-> 0]
    /\ copies = [r \in Request |-> {}]
    /\ rowless = {} /\ ahead = {}
    /\ nonce = [r \in Request |-> None]
    /\ runs = [r \in Request |-> 0]
    /\ pc = [p \in Proc |-> "idle"]
    /\ job = [p \in Proc |-> None]
    /\ seen = [p \in Proc |-> "none"]
    /\ checkedAt = [p \in Proc |-> 0]

Goto(p, label) == pc' = [pc EXCEPT ![p] = label]

\* The handler answers, well or with an error.
Finish(p) ==
    /\ Goto(p, "idle")
    /\ job' = [job EXCEPT ![p] = None]
    /\ seen' = [seen EXCEPT ![p] = "none"]
    /\ checkedAt' = [checkedAt EXCEPT ![p] = 0]

-------------------------------------------------------------------------------
(* Codes and PCs *)

CreateCode(c) ==
    /\ code[c] = "none"
    /\ code' = [code EXCEPT ![c] = "unused"]
    /\ UNCHANGED <<now, device, codeOf, remote, requests, nonce, runs, handlers>>

ExpireCode(c) ==
    /\ code[c] = "unused"
    /\ code' = [code EXCEPT ![c] = "expired"]
    /\ UNCHANGED <<now, device, codeOf, remote, requests, nonce, runs, handlers>>

\* revoke_pal_code
RevokeCode(c) ==
    /\ code[c] \in {"unused", "expired"}
    /\ code' = [code EXCEPT ![c] = "revoked"]
    /\ UNCHANGED <<now, device, codeOf, remote, requests, nonce, runs, handlers>>

\* enroll: the code's row is read and everything about the request checked.
Enroll(t, c) ==
    /\ pc[t] = "idle"
    /\ code[c] = "unused"
    /\ Goto(t, "enroll")
    /\ job' = [job EXCEPT ![t] = c]
    /\ UNCHANGED <<now, code, device, codeOf, remote, requests, nonce, runs, seen, checkedAt>>

\* Variant: the code is not looked at again.
EnrollDevice_Trusting(t, d) ==
    /\ pc[t] = "enroll"
    /\ device[d] = "none"
    /\ code' = [code EXCEPT ![job[t]] = "used"]
    /\ device' = [device EXCEPT ![d] = "connected"]
    /\ codeOf' = [codeOf EXCEPT ![d] = job[t]]
    /\ \E allowed \in BOOLEAN : remote' = [remote EXCEPT ![d] = allowed]
    /\ Finish(t)
    /\ UNCHANGED <<now, requests, nonce, runs>>

\* enroll_pal_device uses the code and creates its PC in one transaction.
EnrollDevice(t, d) ==
    /\ pc[t] = "enroll"
    /\ code[job[t]] = "unused"
    /\ device[d] = "none"
    /\ code' = [code EXCEPT ![job[t]] = "used"]
    /\ device' = [device EXCEPT ![d] = "connected"]
    /\ codeOf' = [codeOf EXCEPT ![d] = job[t]]
    /\ \E allowed \in BOOLEAN : remote' = [remote EXCEPT ![d] = allowed]
    /\ Finish(t)
    /\ UNCHANGED <<now, requests, nonce, runs>>

\* One of the checks failed, or the code is gone when it is to be used.
EnrollFails(t) ==
    /\ pc[t] = "enroll"
    /\ Finish(t)
    /\ UNCHANGED <<now, code, device, codeOf, remote, requests, nonce, runs>>

\* Variant: what the page sent is stored without a look at it.
SetRemote_Unchecked(d, allowed) ==
    /\ device[d] = "connected"
    /\ remote' = [remote EXCEPT ![d] = None]
    /\ UNCHANGED <<now, code, device, codeOf, requests, nonce, runs, handlers>>

\* set_pal_remote_allowed
SetRemote(d, allowed) ==
    /\ device[d] = "connected"
    /\ remote[d] # allowed
    /\ remote' = [remote EXCEPT ![d] = allowed]
    /\ UNCHANGED <<now, code, device, codeOf, requests, nonce, runs, handlers>>

\* revoke_pal_device; disconnecting one that is disconnected changes nothing.
RevokeDevice(d) ==
    /\ device[d] = "connected"
    /\ device' = [device EXCEPT ![d] = "revoked"]
    /\ UNCHANGED <<now, code, codeOf, remote, requests, nonce, runs, handlers>>

\* delete_pal_device: nonces and code go with the PC.
DeleteDevice(d) ==
    /\ device[d] = "revoked"
    /\ device' = [device EXCEPT ![d] = "deleted"]
    /\ nonce' = [r \in Request |-> IF signer[r] = d THEN None ELSE nonce[r]]
    /\ code' = [code EXCEPT ![codeOf[d]] = "deleted"]
    /\ UNCHANGED <<now, codeOf, remote, requests, runs, handlers>>

-------------------------------------------------------------------------------
(* Signed requests *)

\* PalClient.SignedAsync, by a PC that was connected once and may not know yet
\* that it is no more.  It asks for something that is written with the PC's row,
\* like a certificate, or for something that is not: crls, crl/publish, status,
\* revoke.
Sign(r, d) ==
    /\ signer[r] = None
    /\ device[d] # "none"
    /\ signer' = [signer EXCEPT ![r] = d]
    /\ \E t \in (now - Drift)..(now + Drift) :
           /\ ts' = [ts EXCEPT ![r] = t]
           /\ ahead' = IF t > now + Skew - Lag THEN ahead \cup {r} ELSE ahead
    /\ rowless' \in {rowless, rowless \cup {r}}
    /\ copies' = [copies EXCEPT ![r] = Way]
    /\ UNCHANGED <<now, code, device, codeOf, remote, nonce, runs, handlers>>

Exists(d) == device[d] \in {"connected", "revoked"}

ReceiveLan(t, r) ==
    /\ pc[t] = "idle"
    /\ "lan" \in copies[r]
    /\ copies' = [copies EXCEPT ![r] = @ \ {"lan"}]
    /\ Goto(t, "verify")
    /\ job' = [job EXCEPT ![t] = r]
    /\ UNCHANGED <<now, code, device, codeOf, remote, signer, ts, rowless, ahead, nonce,
                   runs, seen, checkedAt>>

\* relay_dispatch, which refuses or drops it or runs it like one from the LAN.
ReceiveRelay(r) ==
    /\ pc[Collector] = "idle"
    /\ "relay" \in copies[r]
    /\ copies' = [copies EXCEPT ![r] = @ \ {"relay"}]
    /\ \/ /\ device[signer[r]] = "connected" /\ remote[signer[r]]
          /\ Goto(Collector, "verify")
          /\ job' = [job EXCEPT ![Collector] = r]
       \/ UNCHANGED <<pc, job>>
    /\ UNCHANGED <<now, code, device, codeOf, remote, signer, ts, rowless, ahead, nonce,
                   runs, seen, checkedAt>>

\* _signed_device reads the PC's row and compares the time.
Verify(p) ==
    /\ pc[p] = "verify"
    /\ LET d == signer[job[p]]
           fits == now - Skew <= ts[job[p]] /\ ts[job[p]] <= now + Skew
       IN IF Exists(d) /\ fits
          THEN /\ Goto(p, "nonce")
               /\ seen' = [seen EXCEPT ![p] = device[d]]
               /\ checkedAt' = [checkedAt EXCEPT ![p] = now]
               /\ UNCHANGED job
          ELSE Finish(p)
    /\ UNCHANGED <<now, code, device, codeOf, remote, requests, nonce, runs>>

\* use_pal_nonce forgets what has expired,
Kept(r) == nonce[r] # None /\ nonce[r] >= now

\* Variant: nonces are kept for the skew, not twice the skew.
UseNonce_Short(p) ==
    /\ pc[p] = "nonce"
    /\ nonce' = [r \in Request |-> IF Kept(r) THEN nonce[r]
                                   ELSE IF r = job[p] THEN now + Skew ELSE None]
    /\ IF Kept(job[p]) \/ seen[p] = "revoked"
       THEN Finish(p)
       ELSE Goto(p, "run") /\ UNCHANGED <<job, seen, checkedAt>>
    /\ UNCHANGED <<now, code, device, codeOf, remote, requests, runs>>

\* and keeps this one, unless it is there.  Then _signed_device looks whether
\* the row it read is that of a disconnected PC.
UseNonce(p) ==
    /\ pc[p] = "nonce"
    /\ nonce' = [r \in Request |-> IF Kept(r) THEN nonce[r]
                                   ELSE IF r = job[p] THEN now + NonceTtl ELSE None]
    /\ IF Kept(job[p]) \/ seen[p] = "revoked"
       THEN Finish(p)
       ELSE Goto(p, "run") /\ UNCHANGED <<job, seen, checkedAt>>
    /\ UNCHANGED <<now, code, device, codeOf, remote, requests, runs>>

\* The handler itself.  What refers to the PC's row, or names it, has no effect
\* without that row.
Run(p) ==
    /\ pc[p] = "run"
    /\ runs' = IF Exists(signer[job[p]]) \/ job[p] \in rowless
               THEN [runs EXCEPT ![job[p]] = @ + 1]
               ELSE runs
    /\ Finish(p)
    /\ UNCHANGED <<now, code, device, codeOf, remote, requests, nonce>>

\* Time passes, while no handler pauses for longer than Lag.
Tick ==
    /\ now < MaxTime
    /\ \A p \in Proc : pc[p] = "nonce" => now < checkedAt[p] + Lag
    /\ now' = now + 1
    /\ UNCHANGED <<code, device, codeOf, remote, requests, nonce, runs, handlers>>

\* The process stops at any point and starts again.
Restart ==
    /\ pc' = [p \in Proc |-> "idle"]
    /\ job' = [p \in Proc |-> None]
    /\ seen' = [p \in Proc |-> "none"]
    /\ checkedAt' = [p \in Proc |-> 0]
    /\ UNCHANGED <<now, code, device, codeOf, remote, requests, nonce, runs>>

Next ==
    \/ \E c \in Code : CreateCode(c) \/ ExpireCode(c) \/ RevokeCode(c)
    \/ \E t \in Thread, c \in Code : Enroll(t, c)
    \/ \E t \in Thread, d \in Device : EnrollDevice(t, d)
    \/ \E t \in Thread : EnrollFails(t)
    \/ \E d \in Device, allowed \in BOOLEAN : SetRemote(d, allowed)
    \/ \E d \in Device : RevokeDevice(d) \/ DeleteDevice(d)
    \/ \E r \in Request, d \in Device : Sign(r, d)
    \/ \E t \in Thread, r \in Request : ReceiveLan(t, r)
    \/ \E r \in Request : ReceiveRelay(r)
    \/ \E p \in Proc : Verify(p) \/ UseNonce(p) \/ Run(p)
    \/ Tick
    \/ Restart

Spec == Init /\ [][Next]_vars
-------------------------------------------------------------------------------
(* Properties *)

\* A code connects one PC, whatever else is done with it at the same time: it
\* is used just when the PC it connected is there, one withdrawn or expired
\* has connected none, and no two PCs share one.
CodesConnectOne ==
    /\ \A d, e \in Device : codeOf[d] = codeOf[e] /\ codeOf[d] # None => d = e
    /\ \A c \in Code : code[c] \in {"used", "deleted"} <=> \E d \in Device : codeOf[d] = c
    /\ \A d \in Device : Exists(d) => codeOf[d] # None /\ code[codeOf[d]] = "used"

\* README: a request has "a single-use nonce".  Though its copies arrive by two
\* ways and at any time, and its PC is being disconnected and deleted, a request
\* takes effect at most once.  There are two cases in which it may not: the PC's
\* clock was ahead by as much as is accepted, less a handler's pause, so that
\* the nonce expires before the request does; and the PC was deleted, its
\* nonces with it, while a handler that does not need its row was at work.
RunOnce ==
    \A r \in Request :
        \/ runs[r] <= 1
        \/ r \in ahead
        \/ r \in rowless /\ device[signer[r]] = "deleted"

-------------------------------------------------------------------------------
(* Why RunOnce holds *)

\* What a handler works on is there, and what was signed by a PC was signed by
\* one that had connected, with a time the nonce outlasts, unless it is ahead.
HandlersInv ==
    /\ \A p \in Proc :
           /\ pc[p] = "enroll" => job[p] \in Code
           /\ pc[p] \in {"verify", "nonce", "run"} =>
                  job[p] \in Request /\ signer[job[p]] \in Device
    /\ \A r \in Request :
           /\ signer[r] # None => device[signer[r]] # "none"
           /\ signer[r] # None /\ r \notin ahead => ts[r] <= now + Skew - Lag
           /\ copies[r] # {} => signer[r] # None

\* A handler that is about to use a nonce found its request in time, and has
\* not paused for long since.
PauseInv ==
    \A p \in Proc : pc[p] = "nonce" =>
        /\ checkedAt[p] <= now /\ now <= checkedAt[p] + Lag
        /\ checkedAt[p] <= ts[job[p]] + Skew

Running(p, r) == pc[p] = "run" /\ job[p] = r

\* A request that has run, or is about to, has its nonce kept until no handler
\* can still be using it; and until its PC is deleted it is one or the other,
\* once.
OnceInv ==
    /\ RunOnce
    /\ \A r \in Request : signer[r] = None => runs[r] = 0
    /\ \A r \in Request \ ahead : signer[r] # None /\ Exists(signer[r]) =>
           /\ \A p \in Proc : Running(p, r) => runs[r] = 0
           /\ \A p, q \in Proc : Running(p, r) /\ Running(q, r) => p = q
           /\ runs[r] # 0 \/ (\E p \in Proc : Running(p, r)) =>
                  \/ now > ts[r] + Skew + Lag
                  \/ nonce[r] # None /\ nonce[r] >= ts[r] + Skew + Lag
===============================================================================
