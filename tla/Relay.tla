--------------------------------- MODULE Relay ---------------------------------
(***************************************************************************)
(* The remote relay: the Worker's Mailbox (app/relay_worker.py), the       *)
(* server's collector (app/relay_collector.py) with relay_dispatch         *)
(* (app/routes/pal.py), and the PC's side (PalClient.ViaRelayAsync).       *)
(*                                                                         *)
(* In the Mailbox, a Durable Object, nothing else happens while a handler  *)
(* waits for its storage, but anything may while it verifies a signature   *)
(* or waits for its peer.  Every call may fail, before or after its work   *)
(* is done, and a handler of the Mailbox does not notice that its caller   *)
(* is gone.                                                                *)
(*                                                                         *)
(* A request is one sealed envelope; that it takes effect once, though it  *)
(* came over the LAN as well, is PalDevices' subject.  A putKeys takes     *)
(* effect, if at all, before the collector's next call; of the statuses a  *)
(* request may be refused with there is one.                               *)
(***************************************************************************)
EXTENDS Naturals, FiniteSets

CONSTANTS Pal,          \* PCs
          Request,      \* envelopes
          Sender,       \* the PC of each
          None,
          PerDevice,    \* PER_DEVICE
          Ttl,          \* TTL_MS
          MaxSetUps,    \* bound: times the relay is set up again
          MaxRestarts   \* bound: restarts of the server

ASSUME SenderAssumption == Sender \in [Request -> Pal]
ASSUME BoundAssumption ==
    PerDevice \in Nat /\ Ttl \in Nat /\ MaxSetUps \in Nat /\ MaxRestarts \in Nat

Verdict == {"ok", "refused"}

ASSUME NoneAssumption == None \notin Nat \cup Verdict

VARIABLES
    allowed,    \* PCs with remote access, connected (list_pal_remote_keys)
    config,     \* the relay is set up (get_pal_relay_config)
    keys,       \* Mailbox: the PCs it accepts
    sent,       \* ... age of each "s:" entry; the "q:" entry has the same
    queued,     \* ... requests with a "q:" entry
    reply,      \* ... what the "r:" entries say,
    replyAge,   \*     and their age
    alarm,      \* ... time until the alarm
    handler,    \* ... where the handler of each PC's call is
    ghost,      \* ... a pull waits for work though the collector is gone
    pal,        \* what each PC knows of its request
    ran,        \* requests that took effect
    at,         \* where the collector is
    link,       \* whether the link it uses is that of the relay in config
    read, pushed, batch, answers,   \* its variables keys, pushed, requests, replies
    wake,       \* _wake
    deployed,   \* the Worker of the relay in config is there
    unlocked,   \* the server can open its secrets
    admin,      \* what the handler that sets up or tears down does next
    setUps, restarts

mailbox   == <<keys, sent, queued, reply, replyAge, alarm, handler, ghost>>
collector == <<at, link, read, pushed, batch, answers>>
server    == <<config, deployed, unlocked, admin>>
bounds    == <<setUps, restarts>>
vars == <<allowed, server, mailbox, pal, ran, collector, wake, bounds>>

TypeOK ==
    /\ allowed \subseteq Pal /\ keys \subseteq Pal
    /\ config \in BOOLEAN /\ deployed \in BOOLEAN /\ unlocked \in BOOLEAN
    /\ admin \in {"idle", "clear", "poke"}
    /\ ghost \in BOOLEAN /\ wake \in BOOLEAN
    /\ sent \in [Request -> Nat \cup {None}]
    /\ queued \subseteq Request
    /\ reply \in [Request -> Verdict \cup {None}]
    /\ replyAge \in [Request -> Nat]
    /\ alarm \in 0..Ttl \cup {None}
    /\ handler \in [Request -> {"none", "verifying", "waiting"}]
    /\ pal \in [Request -> {"new", "asking", "again", "failed"} \cup Verdict]
    /\ ran \subseteq Request
    /\ at \in {"idle", "keys", "put", "pull", "work", "reply", "end", "error"}
    /\ link \in {"none", "current", "old"}
    /\ read \subseteq Pal
    /\ pushed \in (SUBSET Pal) \cup {None}
    /\ batch \subseteq Request
    /\ answers \in SUBSET (Request \X Verdict)
    /\ setUps \in 0..MaxSetUps
    /\ restarts \in 0..MaxRestarts

Emptied ==
    /\ keys' = {}
    /\ sent' = [r \in Request |-> None]
    /\ queued' = {}
    /\ reply' = [r \in Request |-> None]
    /\ replyAge' = [r \in Request |-> 0]
    /\ alarm' = None
    /\ handler' = [r \in Request |-> "none"]
    /\ ghost' = FALSE

Init ==
    /\ allowed \in SUBSET Pal
    /\ config = TRUE /\ deployed = TRUE /\ unlocked \in BOOLEAN /\ admin = "idle"
    /\ keys = {}
    /\ sent = [r \in Request |-> None]
    /\ queued = {}
    /\ reply = [r \in Request |-> None]
    /\ replyAge = [r \in Request |-> 0]
    /\ alarm = None
    /\ handler = [r \in Request |-> "none"]
    /\ ghost = FALSE
    /\ pal = [r \in Request |-> "new"]
    /\ ran = {}
    /\ at = "idle" /\ link = "none" /\ read = {} /\ pushed = None
    /\ batch = {} /\ answers = {}
    /\ wake = FALSE
    /\ setUps = 0 /\ restarts = 0

-------------------------------------------------------------------------------
(* The PC and the Mailbox *)

Waiting(r) == Cardinality({q \in queued : Sender[q] = Sender[r]})

\* What a PC that still waits is told.
Tell(r, what) == pal' = IF pal[r] = "asking" THEN [pal EXCEPT ![r] = what] ELSE pal

Answer(r, what) ==
    /\ handler' = [handler EXCEPT ![r] = "none"]
    /\ Tell(r, what)

\* send looks the PC up, then verifies the signature.
Send(r) ==
    /\ pal[r] = "new" /\ deployed
    /\ IF Sender[r] \in keys
       THEN /\ pal' = [pal EXCEPT ![r] = "asking"]
            /\ handler' = [handler EXCEPT ![r] = "verifying"]
       ELSE pal' = [pal EXCEPT ![r] = "failed"] /\ UNCHANGED handler
    /\ UNCHANGED <<allowed, server, keys, sent, queued, reply, replyAge, alarm, ghost,
                   ran, collector, wake, bounds>>

\* It takes the request in and waits for the reply, unless the PC's clock is
\* wrong or too many of its requests wait already.
Store(r) ==
    /\ handler[r] = "verifying"
    /\ \/ Answer(r, "failed") /\ UNCHANGED <<sent, queued, alarm>>
       \/ /\ Waiting(r) < PerDevice
          /\ sent' = [sent EXCEPT ![r] = 0]
          /\ queued' = queued \cup {r}
          /\ alarm' = IF alarm = None THEN Ttl ELSE alarm
          /\ handler' = [handler EXCEPT ![r] = "waiting"]
          /\ UNCHANGED pal
    /\ UNCHANGED <<allowed, server, keys, reply, replyAge, ghost,
                   ran, collector, wake, bounds>>

\* takeReply, at once or when reply has woken it; the PC opens what it gets.
Take(r) ==
    /\ handler[r] = "waiting"
    /\ reply[r] # None
    /\ reply' = [reply EXCEPT ![r] = None]
    /\ replyAge' = [replyAge EXCEPT ![r] = 0]
    /\ Answer(r, reply[r])
    /\ UNCHANGED <<allowed, server, keys, sent, queued, alarm, ghost,
                   ran, collector, wake, bounds>>

\* WAIT_MS are over: 202 or 204.
NotYet(r) ==
    /\ handler[r] = "waiting"
    /\ reply[r] = None
    /\ Answer(r, "again")
    /\ UNCHANGED <<allowed, server, keys, sent, queued, reply, replyAge, alarm, ghost,
                   ran, collector, wake, bounds>>

\* pickUp
PickUp(r) ==
    /\ pal[r] = "again" /\ deployed
    /\ pal' = [pal EXCEPT ![r] = "asking"]
    /\ handler' = [handler EXCEPT ![r] = "waiting"]
    /\ UNCHANGED <<allowed, server, keys, sent, queued, reply, replyAge, alarm, ghost,
                   ran, collector, wake, bounds>>

\* RelayWait is over, or a call fails.
GiveUp(r) ==
    /\ pal[r] \in {"asking", "again"}
    /\ pal' = [pal EXCEPT ![r] = "failed"]
    /\ UNCHANGED <<allowed, server, mailbox, ran, collector, wake, bounds>>

Entries == {r \in Request : sent[r] # None \/ reply[r] # None}

\* Variant: the last of the three prefixes decides whether there is more.
Alarm_LastOnly ==
    LET old == {r \in Request : sent[r] # None /\ sent[r] > Ttl}
        oldReplies == {r \in Request : reply[r] # None /\ replyAge[r] > Ttl}
    IN /\ alarm = 0
       /\ sent' = [r \in Request |-> IF r \in old THEN None ELSE sent[r]]
       /\ queued' = queued \ old
       /\ reply' = [r \in Request |-> IF r \in oldReplies THEN None ELSE reply[r]]
       /\ replyAge' = [r \in Request |-> IF r \in oldReplies THEN 0 ELSE replyAge[r]]
       /\ alarm' = IF \E r \in Request : sent'[r] # None THEN Ttl ELSE None
       /\ UNCHANGED <<allowed, server, keys, handler, ghost, pal, ran, collector, wake, bounds>>

\* Variant: it comes again twice as late.
Alarm_Late ==
    LET old == {r \in Request : sent[r] # None /\ sent[r] > Ttl}
        oldReplies == {r \in Request : reply[r] # None /\ replyAge[r] > Ttl}
    IN /\ alarm = 0
       /\ sent' = [r \in Request |-> IF r \in old THEN None ELSE sent[r]]
       /\ queued' = queued \ old
       /\ reply' = [r \in Request |-> IF r \in oldReplies THEN None ELSE reply[r]]
       /\ replyAge' = [r \in Request |-> IF r \in oldReplies THEN 0 ELSE replyAge[r]]
       /\ alarm' = IF Entries' # {} THEN 2 * Ttl ELSE None
       /\ UNCHANGED <<allowed, server, keys, handler, ghost, pal, ran, collector, wake, bounds>>

\* alarm: what is older than Ttl goes; it comes again if anything is left.
Alarm ==
    LET old == {r \in Request : sent[r] # None /\ sent[r] > Ttl}
        oldReplies == {r \in Request : reply[r] # None /\ replyAge[r] > Ttl}
    IN /\ alarm = 0
       /\ sent' = [r \in Request |-> IF r \in old THEN None ELSE sent[r]]
       /\ queued' = queued \ old
       /\ reply' = [r \in Request |-> IF r \in oldReplies THEN None ELSE reply[r]]
       /\ replyAge' = [r \in Request |-> IF r \in oldReplies THEN 0 ELSE replyAge[r]]
       /\ alarm' = IF Entries' # {} THEN Ttl ELSE None
       /\ UNCHANGED <<allowed, server, keys, handler, ghost, pal, ran, collector, wake, bounds>>

\* Time passes; the alarm is not late.
Tick ==
    /\ alarm \notin {None, 0}
    /\ alarm' = alarm - 1
    /\ sent' = [r \in Request |-> IF sent[r] = None THEN None ELSE sent[r] + 1]
    /\ replyAge' = [r \in Request |-> IF reply[r] = None THEN 0 ELSE replyAge[r] + 1]
    /\ UNCHANGED <<allowed, server, keys, queued, reply, handler, ghost, pal, ran,
                   collector, wake, bounds>>

-------------------------------------------------------------------------------
(* The collector: loop and run_once *)

Unaffected == UNCHANGED <<allowed, server, pal, bounds>>

Reaches == link = "current" /\ deployed

\* _link: without a relay, or its token, the collector waits, and starts again.
GetLink ==
    /\ at = "idle"
    /\ IF config /\ unlocked
       THEN at' = "keys" /\ link' = "current" /\ UNCHANGED <<pushed, wake>>
       ELSE pushed' = None /\ wake' = FALSE /\ UNCHANGED <<at, link>>
    /\ UNCHANGED <<mailbox, ran, read, batch, answers>>
    /\ Unaffected

\* allowed_keys, pushed if they are not those pushed last.
ReadKeys ==
    /\ at = "keys"
    /\ read' = allowed
    /\ at' = IF allowed = pushed THEN "pull" ELSE "put"
    /\ UNCHANGED <<mailbox, ran, link, pushed, batch, answers, wake>>
    /\ Unaffected

\* Variant: what was pushed before is still taken to be there.
Error_KeepsPushed == at' = "error" /\ batch' = {} /\ answers' = {} /\ UNCHANGED pushed

\* A call fails, or the handler of a request: the loop notes the error, ...
Error == at' = "error" /\ pushed' = None /\ batch' = {} /\ answers' = {}

\* putKeys: a PC taken off the list loses what it had waiting.
PutKeys ==
    /\ at = "put" /\ Reaches
    /\ keys' = read
    /\ queued' = {r \in queued : Sender[r] \in read}
    /\ \/ at' = "pull" /\ pushed' = read /\ UNCHANGED <<batch, answers>>
       \/ Error
    /\ UNCHANGED <<sent, reply, replyAge, alarm, handler, ghost, ran, link, read, wake>>
    /\ Unaffected

\* pull hands over what waits, sooner or later (PULL_BATCH is taken to be
\* enough), and removes it; what is handed over may be lost.
Pull ==
    /\ at = "pull" /\ Reaches
    /\ queued' = {}
    /\ \/ at' = "work" /\ batch' = queued /\ UNCHANGED <<pushed, answers>>
       \/ Error
    /\ UNCHANGED <<keys, sent, reply, replyAge, alarm, handler, ghost, ran, link, read, wake>>
    /\ Unaffected

\* A call that does nothing fails.  A pull whose caller is gone may go on.
CallFails ==
    /\ at \in {"put", "pull", "reply"}
    /\ Error
    /\ \/ UNCHANGED ghost
       \/ at = "pull" /\ Reaches /\ ghost' = TRUE
    /\ UNCHANGED <<keys, sent, queued, reply, replyAge, alarm, handler, ran, link, read, wake>>
    /\ Unaffected

\* It takes the next requests with it, or WAIT_MS are over.
GhostEnds ==
    /\ ghost
    /\ ghost' = FALSE
    /\ queued' = {}
    /\ UNCHANGED <<keys, sent, reply, replyAge, alarm, handler, ran, collector, wake>>
    /\ Unaffected

\* Variant: what was not allowed is answered like what was run.
Dispatch_AllOk(r) ==
    /\ at = "work" /\ r \in batch
    /\ batch' = batch \ {r}
    /\ answers' = answers \cup {<<r, "ok">>}
    /\ ran' = IF Sender[r] \in allowed THEN ran \cup {r} ELSE ran
    /\ UNCHANGED <<mailbox, at, link, read, pushed, wake>>
    /\ Unaffected

\* relay_dispatch: refused, run, or dropped (_limiter).
Dispatch(r) ==
    /\ at = "work" /\ r \in batch
    /\ batch' = batch \ {r}
    /\ \/ UNCHANGED <<ran, answers>>
       \/ /\ Sender[r] \notin allowed
          /\ answers' = answers \cup {<<r, "refused">>}
          /\ UNCHANGED ran
       \/ /\ Sender[r] \in allowed
          /\ ran' = ran \cup {r}
          /\ answers' = answers \cup {<<r, "ok">>}
    /\ UNCHANGED <<mailbox, at, link, read, pushed, wake>>
    /\ Unaffected

\* An exception ends the batch, what was run but not answered included.
DispatchFails ==
    /\ at = "work" /\ batch # {}
    /\ \E done \in SUBSET {r \in batch : Sender[r] \in allowed} :
           Cardinality(done) <= 1 /\ ran' = ran \cup done
    /\ Error
    /\ UNCHANGED <<mailbox, link, read, wake>>
    /\ Unaffected

WorkDone ==
    /\ at = "work" /\ batch = {}
    /\ at' = IF answers = {} THEN "end" ELSE "reply"
    /\ UNCHANGED <<mailbox, ran, link, read, pushed, batch, answers, wake>>
    /\ Unaffected

\* reply keeps what it knows a request for, and wakes whoever waits for it.
Reply ==
    /\ at = "reply" /\ Reaches
    /\ LET known == {r \in Request : sent[r] # None /\ \E v \in Verdict : <<r, v>> \in answers}
       IN /\ reply' = [r \in Request |-> IF r \in known
                           THEN CHOOSE v \in Verdict : <<r, v>> \in answers ELSE reply[r]]
          /\ replyAge' = [r \in Request |-> IF r \in known THEN 0 ELSE replyAge[r]]
    /\ \/ at' = "end" /\ answers' = {} /\ UNCHANGED <<pushed, batch>>
       \/ Error
    /\ UNCHANGED <<keys, sent, queued, alarm, handler, ghost, ran, link, read, wake>>
    /\ Unaffected

\* Variant: woken, the collector forgets why.
LoopEnd_JustClear ==
    /\ at = "end"
    /\ at' = "idle" /\ link' = "none" /\ read' = {}
    /\ wake' = FALSE
    /\ UNCHANGED <<mailbox, ran, batch, answers, pushed>>
    /\ Unaffected

\* Woken meanwhile, the collector pushes the keys again.
LoopEnd ==
    /\ at = "end"
    /\ at' = "idle" /\ link' = "none" /\ read' = {}
    /\ pushed' = IF wake THEN None ELSE pushed
    /\ wake' = FALSE
    /\ UNCHANGED <<mailbox, ran, batch, answers>>
    /\ Unaffected

\* ... waits and tries again.
Retry ==
    /\ at = "error"
    /\ at' = "idle" /\ link' = "none" /\ read' = {}
    /\ wake' = FALSE
    /\ UNCHANGED <<mailbox, ran, pushed, batch, answers>>
    /\ Unaffected

-------------------------------------------------------------------------------
(* The admin, and the server's process *)

\* set_pal_remote_allowed, enroll_pal_device, revoke_pal_device
Allow(S) ==
    /\ S # allowed /\ unlocked
    /\ allowed' = S
    /\ UNCHANGED <<server, mailbox, pal, ran, collector, wake, bounds>>

\* tear_down deletes the Worker with what it holds.  If the answer is lost it
\* raises, and the relay stays set up without its Worker; the next one is told
\* 404 and goes on.
DeleteWorker ==
    /\ admin = "idle" /\ config /\ unlocked
    /\ setUps < MaxSetUps
    /\ deployed' = FALSE
    /\ Emptied
    /\ \/ admin' = "clear"
       \/ deployed /\ UNCHANGED admin
    /\ UNCHANGED <<allowed, config, unlocked, pal, ran, collector, wake, bounds>>

\* clear_pal_relay_config
ClearConfig ==
    /\ admin = "clear"
    /\ config' = FALSE
    /\ admin' = "poke"
    /\ link' = IF link = "current" THEN "old" ELSE link
    /\ UNCHANGED <<allowed, deployed, unlocked, mailbox, pal, ran, at, read, pushed, batch,
                   answers, wake, bounds>>

\* set_up
SetUp ==
    /\ admin = "idle" /\ ~config /\ unlocked
    /\ config' = TRUE /\ deployed' = TRUE
    /\ admin' = "poke"
    /\ setUps' = setUps + 1
    /\ UNCHANGED <<allowed, unlocked, mailbox, pal, ran, collector, wake, restarts>>

\* poke, which the handlers of Allow, and update, call as well.  (update uploads
\* the Worker's code again; that does not give a deleted one its address back.)
Poke ==
    /\ wake' = TRUE
    /\ admin' = IF admin = "poke" THEN "idle" ELSE admin
    /\ UNCHANGED <<allowed, config, deployed, unlocked, mailbox, pal, ran, collector, bounds>>

\* A relay needs encryption on: the database is locked then.
Restart ==
    /\ restarts < MaxRestarts
    /\ restarts' = restarts + 1
    /\ at' = "idle" /\ link' = "none" /\ read' = {} /\ pushed' = None
    /\ batch' = {} /\ answers' = {}
    /\ wake' = FALSE /\ admin' = "idle" /\ unlocked' = FALSE
    /\ \/ UNCHANGED ghost
       \/ at = "pull" /\ Reaches /\ ghost' = TRUE
    /\ UNCHANGED <<allowed, config, deployed, keys, sent, queued, reply, replyAge, alarm,
                   handler, pal, ran, setUps>>

Unlock ==
    /\ ~unlocked
    /\ unlocked' = TRUE
    /\ UNCHANGED <<allowed, config, deployed, admin, mailbox, pal, ran, collector, wake, bounds>>

PalStep(r) == Send(r) \/ Store(r) \/ Take(r) \/ NotYet(r) \/ PickUp(r) \/ GiveUp(r)

CollectorStep ==
    \/ GetLink \/ ReadKeys \/ PutKeys \/ Pull \/ CallFails
    \/ \E r \in Request : Dispatch(r)
    \/ DispatchFails \/ WorkDone \/ Reply \/ LoopEnd \/ Retry

Next ==
    \/ \E r \in Request : PalStep(r)
    \/ Alarm \/ Tick \/ GhostEnds
    \/ CollectorStep
    \/ \E S \in SUBSET Pal : Allow(S)
    \/ DeleteWorker \/ ClearConfig \/ SetUp \/ Poke \/ Restart \/ Unlock

Spec == Init /\ [][Next]_vars

\* The collector's thread goes on, a call that is tried again and again
\* succeeds at some time, and a handler that has begun goes on to its end.
FairSpec ==
    /\ Spec
    /\ WF_vars(CollectorStep)
    /\ SF_vars(PutKeys /\ at' = "pull")
    /\ WF_vars(admin = "poke" /\ Poke)
-------------------------------------------------------------------------------
(* Properties *)

\* Whenever the Mailbox holds anything its alarm is set, and soon enough that
\* nothing stays for longer than twice Ttl, whether it is collected, answered,
\* picked up or not (ensureAlarm and alarm of the Worker).  That is not what is
\* promised: see GoneInTime.
MailboxForgets ==
    /\ \A r \in Request : sent[r] # None => alarm # None /\ sent[r] + alarm <= 2 * Ttl
    /\ \A r \in Request : reply[r] # None => alarm # None /\ replyAge[r] + alarm <= 2 * Ttl
    /\ queued \subseteq {r \in Request : sent[r] # None}

\* The Worker's comment at ensureAlarm: "nothing stays longer than TTL_MS".  It
\* does: what is too young for an alarm waits a whole Ttl for the next one.
GoneInTime ==
    \A r \in Request : /\ sent[r] # None => sent[r] <= Ttl
                       /\ reply[r] # None => replyAge[r] <= Ttl

\* The keys that the collector takes to be on the Worker, and will not push
\* again, are on the Worker - whatever failed, restarted or was set up again -
\* or it is about to be told that they may not be, or the Worker is gone and
\* the next call fails (run_once, loop and poke).
KeysKnown ==
    pushed # None => keys = pushed \/ wake \/ admin = "poke" \/ ~deployed

\* A PC that was told its request was done has it done, one that was refused
\* has not; only one that was told nothing may be wrong about it.
AnswersTrue ==
    \A r \in Request : /\ pal[r] = "ok" => r \in ran
                       /\ pal[r] = "refused" => r \notin ran

\* Docs: taking away a PC's remote access "removes its key from the Worker at
\* the server's next sync".  If the PCs allowed stay the same, the database
\* unlocked and the relay set up, the Worker accepts these in the end, whatever
\* failed, restarted or was set up again since they were last pushed.
KeysCatchUp ==
    \A S \in SUBSET Pal :
        <>[](allowed = S /\ deployed /\ unlocked) => <>[](keys = S)

-------------------------------------------------------------------------------
(* Why AnswersTrue holds *)

Early(r) == pal[r] = "new" \/ handler[r] = "verifying"
InHand(r) == r \in queued \/ r \in batch
Told(r, v) == pal[r] = v \/ reply[r] = v \/ <<r, v>> \in answers

\* A request is nowhere, or waits, or is being worked on; while it may still
\* be taken up it has not been, and nobody was told anything about it; and what
\* anybody was told was true then and stays so.
AnswersInv ==
    \A r \in Request :
        /\ pal[r] = "new" => handler[r] = "none"
        /\ Early(r) => ~InHand(r)
        /\ r \in queued => r \notin batch
        /\ Early(r) \/ InHand(r) => r \notin ran /\ \A v \in Verdict : ~Told(r, v)
        /\ Told(r, "ok") => r \in ran
        /\ Told(r, "refused") => r \notin ran
===============================================================================
