------------------------------ MODULE CrlWorkers ------------------------------
(***************************************************************************)
(* The life of the CAs' Cloudflare Workers: app/crl_worker.py, called from *)
(* app/routes/cloudflare.py, with the account connected there.             *)
(*                                                                         *)
(* Two systems change one call at a time: the database, where each db.*    *)
(* call is a transaction, and Cloudflare, where each call may do its work  *)
(* or not, and its answer may come or not.  A handler may stop between any *)
(* two calls.  What the lists themselves say is CrlPublishing's subject.   *)
(*                                                                         *)
(* An admin's handlers deploy, delete, connect and disconnect; meanwhile   *)
(* other threads issue certificates that name a Worker and push lists.     *)
(***************************************************************************)
EXTENDS Naturals, FiniteSets

CONSTANTS Admin,        \* threads that serve the admin's Cloudflare pages
          Publisher,    \* threads that issue certificates and push lists
          Ca, Account,
          Script,       \* Worker names, <name>.<subdomain>.workers.dev among them
          Domain,       \* hostnames in the account's own zones
          None,         \* a column that is NULL
          MaxRestarts   \* bound: process restarts in a behaviour

Proc == Admin \cup Publisher
Host == Script \cup Domain

ASSUME ProcAssumption == Admin \cap Publisher = {}
ASSUME HostAssumption == Script \cap Domain = {}
ASSUME NoneAssumption == None \notin Ca \cup Account \cup Host
ASSUME RestartAssumption == MaxRestarts \in Nat

VARIABLES
    cas,        \* CAs in the database
    row,        \* their cf_worker, cf_account_id, cf_hostname and cf_domain_id
    creds,      \* account of the stored API token
    certs,      \* Workers and hosts that certificates of each CA name
    remote,     \* Workers in each account
    devOn,      \* Workers whose workers.dev address is on
    dns,        \* the Worker each hostname is attached to
    used,       \* Worker names taken so far (new_script_name is random)
    doomed,     \* history: Workers the admin has begun to delete
    pc, job,    \* where each thread is, and what its handler works on
    restarts

database   == <<cas, row, creds, certs>>
cloudflare == <<remote, devOn, dns>>
vars       == <<cas, row, creds, certs, remote, devOn, dns, used, doomed, pc, job, restarts>>

Row == [worker : Script \cup {None}, account : Account \cup {None},
        host : Host \cup {None}, domain : Domain \cup {None}]
NoRow == [worker |-> None, account |-> None, host |-> None, domain |-> None]

\* What a handler remembers from one call to the next.
Job == [ca : Ca \cup {None}, script : Script \cup {None}, account : Account \cup {None},
        host : Host \cup {None}, domains : SUBSET Domain,
        task : {"none", "deploy", "teardown", "unlinked"}]
NoJob == [ca |-> None, script |-> None, account |-> None, host |-> None,
          domains |-> {}, task |-> "none"]

Pc == {"idle", "name", "register", "upload", "attach", "domain", "devOff", "devOn", "record",
       "undo", "detach", "delete", "clear", "connect", "disconnect", "deleteCa", "push", "save"}

TypeOK ==
    /\ cas \subseteq Ca
    /\ row \in [Ca -> Row]
    /\ creds \in Account \cup {None}
    /\ certs \in [Ca -> SUBSET (Script \X Host)]
    /\ remote \in [Account -> SUBSET Script]
    /\ devOn \subseteq Script
    /\ dns \in [Domain -> Script \cup {None}]
    /\ used \subseteq Script
    /\ doomed \subseteq Script
    /\ pc \in [Proc -> Pc]
    /\ job \in [Proc -> Job]
    /\ restarts \in 0..MaxRestarts

\* Nothing is deployed, or one CA comes from a backup, with a Worker that is,
\* or no longer is, in one of the accounts (db._restore_cas).
Init ==
    /\ cas = Ca
    /\ creds \in Account \cup {None}
    /\ \E old \in SUBSET Script, ca \in Ca, a \in Account, there \in BOOLEAN :
           /\ Cardinality(old) <= 1
           /\ row = [c \in Ca |-> IF c # ca \/ old = {} THEN NoRow
                                  ELSE [worker |-> CHOOSE s \in old : TRUE, account |-> a,
                                        host |-> CHOOSE s \in old : TRUE, domain |-> None]]
           /\ remote = [b \in Account |-> IF b = a /\ there THEN old ELSE {}]
           /\ used = old /\ doomed = old /\ devOn = old
    /\ dns = [d \in Domain |-> None]
    /\ certs = [ca \in Ca |-> {}]
    /\ pc = [p \in Proc |-> "idle"]
    /\ job = [p \in Proc |-> NoJob]
    /\ restarts = 0

Goto(p, label) == pc' = [pc EXCEPT ![p] = label]

\* The handler returns, normally or with an error.
Finish(p) == Goto(p, "idle") /\ job' = [job EXCEPT ![p] = NoJob]

\* What a failed call leads to: deploy undoes what it did, deploy's undo goes
\* on to forget the Worker, the other handlers return the error.
GiveUp(p) ==
    IF job[p].task # "deploy" THEN Finish(p)
    ELSE /\ Goto(p, IF pc[p] \in {"detach", "delete"} THEN "clear" ELSE "undo")
         /\ UNCHANGED job

\* A call whose work is done: its answer comes, and the handler goes on at
\* label, or is lost.
Answered(p, label) ==
    \/ Goto(p, label) /\ UNCHANGED job
    \/ GiveUp(p)

\* db.update_ca_worker: no row, no change.
SetRow(ca, r) == row' = IF ca \in cas THEN [row EXCEPT ![ca] = r] ELSE row

\* list_ca_workers, count_ca_workers
Deployed == {ca \in cas : row[ca].worker # None}

-------------------------------------------------------------------------------
(* deploy *)

\* Variant: a CA that has a Worker may deploy another.
DeployBegin_Again(t, ca) ==
    /\ pc[t] = "idle"
    /\ ca \in cas
    /\ job' = [job EXCEPT ![t] = [NoJob EXCEPT !.ca = ca, !.task = "deploy"]]
    /\ Goto(t, "name")
    /\ UNCHANGED <<database, cloudflare, used, doomed, restarts>>

\* "This CA already has a Worker"
DeployBegin(t, ca) ==
    /\ pc[t] = "idle"
    /\ ca \in cas /\ row[ca].worker = None
    /\ job' = [job EXCEPT ![t] = [NoJob EXCEPT !.ca = ca, !.task = "deploy"]]
    /\ Goto(t, "name")
    /\ UNCHANGED <<database, cloudflare, used, doomed, restarts>>

\* The credentials are read, the account asked for its subdomain (or the
\* hostname checked) and a new name chosen.  That no two CAs are given the
\* same hostname is left to the admin.
DeployName(t, s, h) ==
    /\ pc[t] = "name"
    /\ creds # None
    /\ s \notin used
    /\ h \in Domain \cup {s}
    /\ \A ca \in Ca \ {job[t].ca} : row[ca].domain # h
    /\ used' = used \cup {s}
    /\ job' = [job EXCEPT ![t].script = s, ![t].account = creds, ![t].host = h]
    /\ Goto(t, "register")
    /\ UNCHANGED <<database, cloudflare, doomed, restarts>>

\* No account, a locked database, no subdomain: nothing has been done yet.
Refused(t) ==
    /\ pc[t] \in {"name", "connect"}
    /\ Finish(t)
    /\ UNCHANGED <<database, cloudflare, used, doomed, restarts>>

Register(t) ==
    /\ pc[t] = "register"
    /\ SetRow(job[t].ca, [row[job[t].ca] EXCEPT !.worker = job[t].script, !.account = job[t].account])
    /\ Goto(t, "upload")
    /\ UNCHANGED <<cas, creds, certs, cloudflare, used, doomed, job, restarts>>

\* crl_publisher.sign, then cloudflare.deploy
Upload(t) ==
    /\ pc[t] = "upload"
    /\ remote' = [remote EXCEPT ![job[t].account] = @ \cup {job[t].script}]
    /\ Answered(t, IF job[t].host \in Domain THEN "attach" ELSE "devOn")
    /\ UNCHANGED <<database, devOn, dns, used, doomed, restarts>>

\* cloudflare.attach_domain, whose answer is the domain's id.
Attach(t) ==
    /\ pc[t] = "attach"
    /\ dns' = [dns EXCEPT ![job[t].host] = job[t].script]
    /\ Answered(t, "domain")
    /\ UNCHANGED <<database, remote, devOn, used, doomed, restarts>>

\* Variant: the Worker's name is recorded in the place of the domain.
RecordDomain_Name(t) ==
    /\ pc[t] = "domain"
    /\ SetRow(job[t].ca, [row[job[t].ca] EXCEPT !.domain = job[t].script])
    /\ Goto(t, "devOff")
    /\ UNCHANGED <<cas, creds, certs, cloudflare, used, doomed, job, restarts>>

RecordDomain(t) ==
    /\ pc[t] = "domain"
    /\ SetRow(job[t].ca, [row[job[t].ca] EXCEPT !.domain = job[t].host])
    /\ Goto(t, "devOff")
    /\ UNCHANGED <<cas, creds, certs, cloudflare, used, doomed, job, restarts>>

\* Variant: workers.dev is turned off for every Worker.
SetWorkersDev_AlwaysOff(t) ==
    /\ pc[t] \in {"devOn", "devOff"}
    /\ devOn' = devOn \ {job[t].script}
    /\ Answered(t, "record")
    /\ UNCHANGED <<database, remote, dns, used, doomed, restarts>>

\* cloudflare.set_workers_dev
SetWorkersDev(t) ==
    /\ pc[t] \in {"devOn", "devOff"}
    /\ devOn' = IF pc[t] = "devOn" THEN devOn \cup {job[t].script} ELSE devOn \ {job[t].script}
    /\ Answered(t, "record")
    /\ UNCHANGED <<database, remote, dns, used, doomed, restarts>>

\* Only now have certificates an address to name.
Record(t) ==
    /\ pc[t] = "record"
    /\ SetRow(job[t].ca, [row[job[t].ca] EXCEPT !.host = job[t].host])
    /\ Finish(t)
    /\ UNCHANGED <<cas, creds, certs, cloudflare, used, doomed, restarts>>

\* A call to Cloudflare fails and has done nothing.
CallFails(t) ==
    /\ pc[t] \in {"upload", "attach", "devOn", "devOff", "detach", "delete"}
    /\ GiveUp(t)
    /\ UNCHANGED <<database, cloudflare, used, doomed, restarts>>

-------------------------------------------------------------------------------
(* _undo_deploy, teardown and delete_by_name *)

Removing(domains) == IF domains = {} THEN "delete" ELSE "detach"

\* The domain is the one on record, if it got that far.
UndoDeploy(t) ==
    /\ pc[t] = "undo"
    /\ LET attached == {row[job[t].ca].domain} \ {None}
       IN /\ job' = [job EXCEPT ![t].domains = attached]
          /\ Goto(t, Removing(attached))
    /\ UNCHANGED <<database, cloudflare, used, doomed, restarts>>

\* teardown, from the CA page or by the Worker's name: refused unless the
\* Worker belongs to the account connected.
Teardown(t, ca) ==
    /\ pc[t] = "idle"
    /\ ca \in Deployed
    /\ row[ca].account = creds
    /\ LET attached == {row[ca].domain} \ {None}
       IN /\ job' = [job EXCEPT ![t] = [NoJob EXCEPT !.ca = ca, !.script = row[ca].worker,
                         !.account = creds, !.domains = attached, !.task = "teardown"]]
          /\ Goto(t, Removing(attached))
    /\ doomed' = doomed \cup {row[ca].worker}
    /\ UNCHANGED <<database, cloudflare, used, restarts>>

\* delete_by_name for a Worker that no CA here uses.
DeleteUnlinked(t, s) ==
    /\ pc[t] = "idle"
    /\ creds # None /\ s \in remote[creds]
    /\ \A ca \in Deployed : ~(row[ca].worker = s /\ row[ca].account = creds)
    /\ LET attached == {d \in Domain : dns[d] = s}
       IN /\ job' = [job EXCEPT ![t] = [NoJob EXCEPT !.script = s, !.account = creds,
                         !.domains = attached, !.task = "unlinked"]]
          /\ Goto(t, Removing(attached))
    /\ UNCHANGED <<database, cloudflare, used, doomed, restarts>>

\* cloudflare.detach_domain; one that is gone already (404) is fine.
Detach(t, d) ==
    /\ pc[t] = "detach"
    /\ d \in job[t].domains
    /\ dns' = [dns EXCEPT ![d] = None]
    /\ \/ /\ job' = [job EXCEPT ![t].domains = @ \ {d}]
          /\ Goto(t, Removing(job[t].domains \ {d}))
       \/ GiveUp(t)
    /\ UNCHANGED <<database, remote, devOn, used, doomed, restarts>>

\* cloudflare.delete_worker
Delete(t) ==
    /\ pc[t] = "delete"
    /\ remote' = [remote EXCEPT ![job[t].account] = @ \ {job[t].script}]
    /\ \/ IF job[t].task = "unlinked" THEN Finish(t) ELSE Goto(t, "clear") /\ UNCHANGED job
       \/ GiveUp(t)
    /\ UNCHANGED <<database, devOn, dns, used, doomed, restarts>>

\* db.clear_ca_worker
Clear(t) ==
    /\ pc[t] = "clear"
    /\ SetRow(job[t].ca, NoRow)
    /\ Finish(t)
    /\ UNCHANGED <<cas, creds, certs, cloudflare, used, doomed, restarts>>

-------------------------------------------------------------------------------
(* Connecting and disconnecting the account, deleting a CA *)

\* Variant: another account may be connected at any time.
ConnectCheck_Always(t, a) ==
    /\ pc[t] = "idle"
    /\ job' = [job EXCEPT ![t].account = a]
    /\ Goto(t, "connect")
    /\ UNCHANGED <<database, cloudflare, used, doomed, restarts>>

\* connect: not another account while Workers are deployed.
ConnectCheck(t, a) ==
    /\ pc[t] = "idle"
    /\ creds \in {None, a} \/ Deployed = {}
    /\ job' = [job EXCEPT ![t].account = a]
    /\ Goto(t, "connect")
    /\ UNCHANGED <<database, cloudflare, used, doomed, restarts>>

\* cloudflare.check_credentials has agreed.
Connect(t) ==
    /\ pc[t] = "connect"
    /\ creds' = job[t].account
    /\ Finish(t)
    /\ UNCHANGED <<cas, row, certs, cloudflare, used, doomed, restarts>>

DisconnectCheck(t) ==
    /\ pc[t] = "idle"
    /\ Deployed = {}
    /\ Goto(t, "disconnect")
    /\ UNCHANGED <<database, cloudflare, used, doomed, job, restarts>>

Disconnect(t) ==
    /\ pc[t] = "disconnect"
    /\ creds' = None
    /\ Finish(t)
    /\ UNCHANGED <<cas, row, certs, cloudflare, used, doomed, restarts>>

\* delete_ca: not while it has a Worker.
DeleteCaCheck(t, ca) ==
    /\ pc[t] = "idle"
    /\ ca \in cas \ Deployed
    /\ job' = [job EXCEPT ![t].ca = ca]
    /\ Goto(t, "deleteCa")
    /\ UNCHANGED <<database, cloudflare, used, doomed, restarts>>

\* db.delete_ca: its certificates go with it.
DeleteCa(t) ==
    /\ pc[t] = "deleteCa"
    /\ cas' = cas \ {job[t].ca}
    /\ row' = [row EXCEPT ![job[t].ca] = NoRow]
    /\ certs' = [certs EXCEPT ![job[t].ca] = {}]
    /\ Finish(t)
    /\ UNCHANGED <<creds, cloudflare, used, doomed, restarts>>

-------------------------------------------------------------------------------
(* Issuing certificates and pushing lists *)

\* push: the row and the credentials are read.  A list signed by a deployment
\* under way may be pushed before the deployment's own upload.
PushBegin(p, ca) ==
    /\ pc[p] = "idle"
    /\ ca \in Deployed
    /\ row[ca].account = creds
    /\ job' = [job EXCEPT ![p].script = row[ca].worker, ![p].account = creds]
    /\ Goto(p, "push")
    /\ UNCHANGED <<database, cloudflare, used, doomed, restarts>>

\* cloudflare.deploy creates the Worker or replaces it.
Push(p) ==
    /\ pc[p] = "push"
    /\ \/ remote' = [remote EXCEPT ![job[p].account] = @ \cup {job[p].script}]
       \/ UNCHANGED remote
    /\ Finish(p)
    /\ UNCHANGED <<database, devOn, dns, used, doomed, restarts>>

\* issue_cert (or a Pal request) reads the CA's row for the address.
IssueBegin(p, ca) ==
    /\ pc[p] = "idle"
    /\ ca \in cas /\ row[ca].host # None
    /\ job' = [job EXCEPT ![p].ca = ca, ![p].script = row[ca].worker, ![p].host = row[ca].host]
    /\ Goto(p, "save")
    /\ UNCHANGED <<database, cloudflare, used, doomed, restarts>>

\* db.save_cert (its foreign key fails if the CA is gone)
SaveCert(p) ==
    /\ pc[p] = "save"
    /\ certs' = IF job[p].ca \in cas
                THEN [certs EXCEPT ![job[p].ca] = @ \cup {<<job[p].script, job[p].host>>}]
                ELSE certs
    /\ Finish(p)
    /\ UNCHANGED <<cas, row, creds, cloudflare, used, doomed, restarts>>

\* The process stops at any point and starts again; a call to Cloudflare under
\* way has taken effect or not.
Restart ==
    /\ restarts < MaxRestarts
    /\ restarts' = restarts + 1
    /\ pc' = [p \in Proc |-> "idle"]
    /\ job' = [p \in Proc |-> NoJob]
    /\ UNCHANGED <<database, cloudflare, used, doomed>>

AdminStarts(t) ==
    \/ \E ca \in Ca : DeployBegin(t, ca) \/ Teardown(t, ca) \/ DeleteCaCheck(t, ca)
    \/ \E s \in Script : DeleteUnlinked(t, s)
    \/ \E a \in Account : ConnectCheck(t, a)
    \/ DisconnectCheck(t)

AdminContinues(t) ==
    \/ \E s \in Script, h \in Host : DeployName(t, s, h)
    \/ Refused(t) \/ Register(t) \/ Upload(t) \/ Attach(t) \/ RecordDomain(t)
    \/ SetWorkersDev(t) \/ Record(t) \/ CallFails(t)
    \/ UndoDeploy(t) \/ Delete(t) \/ Clear(t)
    \/ \E d \in Domain : Detach(t, d)
    \/ Connect(t) \/ Disconnect(t) \/ DeleteCa(t)

Publishes(p) ==
    \/ \E ca \in Ca : PushBegin(p, ca) \/ IssueBegin(p, ca)
    \/ Push(p) \/ SaveCert(p)

Next ==
    \/ \E t \in Admin : AdminStarts(t) \/ AdminContinues(t)
    \/ \E p \in Publisher : Publishes(p)
    \/ Restart

Spec == Init /\ [][Next]_vars
-------------------------------------------------------------------------------
(* Properties *)

\* Worker s answers at host h.
Answers(s, h) ==
    /\ \E a \in Account : s \in remote[a]
    /\ IF h = s THEN s \in devOn ELSE dns[h] = s

\* The address in a certificate can't be changed any more.  Until the admin
\* begins to delete its Worker, that Worker stays the one its CA pushes to, and
\* answers at that address, through failed deployments of its CA or another,
\* lost answers, overtaken pushes, disconnecting and crashes.
AddressesStayGood ==
    \A ca \in cas : \A named \in certs[ca] :
        named[1] \in doomed \/
            /\ row[ca].worker = named[1] /\ row[ca].host = named[2]
            /\ Answers(named[1], named[2])

\* README, Disconnect "is refused while any CA still has a Worker, since the app
\* could no longer update or remove it", and connect the same for another
\* account: whoever has a Worker in the connected account keeps that account.
AccountKept ==
    [][\A ca \in Deployed : row[ca].account = creds => creds' = creds]_creds
===============================================================================
