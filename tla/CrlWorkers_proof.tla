--------------------------- MODULE CrlWorkers_proof ---------------------------
(***************************************************************************)
(* Proofs about CrlWorkers, for one admin at a time and any number of      *)
(* publishing threads, CAs, accounts, Worker names, hostnames and          *)
(* restarts.  With two admins the properties are false.                    *)
(***************************************************************************)
EXTENDS CrlWorkers, TLAPS

USE ProcAssumption, HostAssumption, NoneAssumption

\* The hypothesis of every theorem here: one admin at a time.
OneAdmin == \A t, u \in Admin : t = u

-------------------------------------------------------------------------------
(* The invariant *)

\* A CA's columns go together: a CA without a Worker has none of them, a Worker
\* belongs to an account, and certificates name its workers.dev address or the
\* hostname on record.
RowsInv ==
    \A ca \in Ca :
        /\ row[ca].worker = None => row[ca] = NoRow
        /\ row[ca].worker # None => ca \in cas /\ row[ca].account \in Account
        /\ row[ca].host # None => row[ca].host \in Domain \cup {row[ca].worker}
        /\ row[ca].host \in Domain => row[ca].domain = row[ca].host
        /\ ca \notin cas => certs[ca] = {}

\* No Worker and no hostname is of two CAs.
DistinctInv ==
    \A ca, other \in Ca : ca # other =>
        /\ row[ca].worker = row[other].worker => row[ca].worker = None
        /\ row[ca].domain = row[other].domain => row[ca].domain = None

\* A name never drawn is nowhere.
FreshInv ==
    \A s \in Script \ used :
        /\ s \notin doomed
        /\ \A a \in Account : s \notin remote[a]
        /\ \A ca \in Ca : row[ca].worker # s
        /\ \A p \in Proc : job[p].script # s

\* A Worker that is not being deleted has one account: whoever remembers it,
\* however long ago it was read, would put it there.
Home(s, a) ==
    /\ \A b \in Account : s \in remote[b] => b = a
    /\ \A ca \in Ca : row[ca].worker = s => row[ca].account = a
    /\ \A p \in Proc : job[p].script = s /\ pc[p] # "save" => job[p].account = a

HomeInv == \A s \in Script \ doomed : \E a \in Account : Home(s, a)

\* A Worker that certificates may name is there and answers.
Serves(s, a, h) == s \in remote[a] /\ IF h = s THEN s \in devOn ELSE dns[h] = s

ServedInv ==
    \A ca \in cas : row[ca].host # None /\ row[ca].worker \notin doomed =>
        Serves(row[ca].worker, row[ca].account, row[ca].host)

\* What certificates name is what the row says, and so is what is about to be
\* named.
OnRow(ca, s, h) == s \in doomed \/ ca \notin cas \/ (row[ca].worker = s /\ row[ca].host = h)

CertsInv == \A ca \in Ca : \A named \in certs[ca] : OnRow(ca, named[1], named[2])

IdleInv == \A p \in Proc : pc[p] = "idle" => job[p] = NoJob

PublisherInv ==
    \A p \in Publisher :
        /\ pc[p] \in {"idle", "push", "save"}
        /\ pc[p] = "push" => job[p].script \in Script /\ job[p].account \in Account
        /\ pc[p] = "save" => /\ job[p].ca \in Ca /\ job[p].script \in Script /\ job[p].host \in Host
                             /\ OnRow(job[p].ca, job[p].script, job[p].host)

\* What the admin's handler has in hand: a name drawn for a CA,
Named(j) ==
    /\ j.ca \in cas /\ j.script \in Script /\ j.account \in Account /\ j.host \in Domain \cup {j.script}
    /\ \A ca \in Ca : ca # j.ca => row[ca].domain # j.host

\* which is on its row, where no certificate finds an address yet,
Registered(j) ==
    /\ Named(j)
    /\ row[j.ca].worker = j.script /\ row[j.ca].account = j.account
    /\ row[j.ca].host = None /\ row[j.ca].domain \in {None, j.host}
    /\ j.domains \subseteq {row[j.ca].domain}

\* and uploaded.
There(j) == Registered(j) /\ j.script \in remote[j.account]

Deploying == {"name", "register", "upload", "attach", "domain", "devOff", "devOn", "record", "undo"}
Deleting  == {"detach", "delete"}

DeployInv(label, j) ==
    /\ label = "name" => j.ca \in cas /\ row[j.ca] = NoRow /\ j.domains = {} /\ j.script = None
    /\ label = "register" => /\ Named(j) /\ row[j.ca] = NoRow /\ j.domains = {}
                             /\ \A ca \in Ca : row[ca].worker # j.script
    /\ label \in {"upload", "undo", "clear"} \cup Deleting => Registered(j)
    /\ label = "attach" => There(j) /\ j.host \in Domain
    /\ label = "domain" => There(j) /\ j.host \in Domain /\ dns[j.host] = j.script
    /\ label = "devOff" => There(j) /\ j.host \in Domain /\ dns[j.host] = j.script /\ row[j.ca].domain = j.host
    /\ label = "devOn" => There(j) /\ j.host = j.script
    /\ label = "record" => /\ There(j) /\ Serves(j.script, j.account, j.host)
                           /\ j.host \in Domain => row[j.ca].domain = j.host

TeardownInv(j) ==
    /\ j.ca \in cas /\ j.script \in doomed /\ j.account \in Account
    /\ row[j.ca].worker = j.script /\ j.domains \subseteq {row[j.ca].domain}

\* A Worker that no CA uses may be deleted, and its hostnames detached.
UnlinkedInv(j) ==
    /\ j.script \in Script /\ j.account \in Account
    /\ \A ca \in cas : row[ca].host # None /\ row[ca].worker \notin doomed =>
           /\ ~(row[ca].worker = j.script /\ row[ca].account = j.account)
           /\ row[ca].host \notin j.domains

AdminAt(label, j) ==
    /\ label \notin {"push", "save"}
    /\ label \in Deploying => j.task = "deploy"
    /\ label \in Deleting => j.task # "none"
    /\ label = "clear" => j.task \in {"deploy", "teardown"}
    /\ j.task = "deploy" => DeployInv(label, j)
    /\ j.task = "teardown" /\ label \in Deleting \cup {"clear"} => TeardownInv(j)
    /\ j.task = "unlinked" /\ label \in Deleting => UnlinkedInv(j)
    /\ label = "deleteCa" => j.ca \in Ca /\ row[j.ca] = NoRow
    /\ label = "connect" => j.account \in Account /\ (creds \in {None, j.account} \/ Deployed = {})
    /\ label = "disconnect" => Deployed = {}

AdminInv == \A t \in Admin : AdminAt(pc[t], job[t])

WorkersInv ==
    /\ TypeOK
    /\ RowsInv /\ DistinctInv
    /\ FreshInv /\ HomeInv
    /\ ServedInv /\ CertsInv
    /\ IdleInv /\ PublisherInv /\ AdminInv

-------------------------------------------------------------------------------
(* Steps *)

\* Thread t alone moves, and the rest stays as it is.
Moves(t) == \A p \in Proc \ {t} : pc'[p] = pc[p] /\ job'[p] = job[p]

\* What certificates name, and are about to name, stays true of the row.
RowsSteady ==
    /\ cas' \subseteq cas /\ doomed \subseteq doomed'
    /\ \A ca \in Ca : \/ row[ca].host = None
                      \/ row[ca].worker \in doomed'
                      \/ row'[ca].worker = row[ca].worker /\ row'[ca].host = row[ca].host

LEMMA OnRowStays ==
    ASSUME TypeOK, RowsSteady, NEW ca \in Ca, NEW s, NEW h \in Host, OnRow(ca, s, h)
    PROVE  OnRow(ca, s, h)'
<1>1. h # None
  BY DEF Host
<1> QED  BY <1>1 DEF OnRow, RowsSteady

LEMMA PublishersStay ==
    ASSUME TypeOK, PublisherInv, RowsSteady, NEW t \in Proc, Moves(t)
    PROVE  \A p \in Publisher \ {t} :
               /\ pc'[p] \in {"idle", "push", "save"}
               /\ pc'[p] = "push" => job'[p].script \in Script /\ job'[p].account \in Account
               /\ pc'[p] = "save" => /\ job'[p].ca \in Ca /\ job'[p].script \in Script /\ job'[p].host \in Host
                                     /\ OnRow(job[p].ca, job[p].script, job[p].host)'
<1> SUFFICES ASSUME NEW p \in Publisher \ {t}
             PROVE  /\ pc'[p] \in {"idle", "push", "save"}
                    /\ pc'[p] = "push" => job'[p].script \in Script /\ job'[p].account \in Account
                    /\ pc'[p] = "save" => /\ job'[p].ca \in Ca /\ job'[p].script \in Script /\ job'[p].host \in Host
                                          /\ OnRow(job[p].ca, job[p].script, job[p].host)'
  OBVIOUS
<1>1. pc'[p] = pc[p] /\ job'[p] = job[p]
  BY DEF Moves, Proc
<1>2. CASE pc[p] = "save"
  <2> DEFINE c == job[p].ca
             s == job[p].script
             h == job[p].host
  <2>1. c \in Ca /\ s \in Script /\ h \in Host /\ OnRow(c, s, h)
    BY <1>2 DEF PublisherInv
  <2>2. job'[p].ca = c /\ job'[p].script = s /\ job'[p].host = h
    BY <1>1
  <2>3. PICK c0, s0, h0 : c0 = c /\ s0 = s /\ h0 = h
    OBVIOUS
  <2>4. OnRow(c0, s0, h0)'
    BY <2>1, <2>3, OnRowStays
  <2>5. OnRow(job[p].ca, job[p].script, job[p].host)'
    BY <2>2, <2>3, <2>4 DEF OnRow
  <2> QED  BY <1>1, <1>2, <2>1, <2>5
<1>3. CASE pc[p] # "save"
  BY <1>1, <1>3 DEF PublisherInv
<1> QED  BY <1>2, <1>3

\* A step of the admin, who is the only one: what is left to show.
LEMMA AdminStep ==
    ASSUME OneAdmin, WorkersInv, NEW t \in Admin, Moves(t), TypeOK', RowsSteady,
           \A ca \in Ca : certs'[ca] \subseteq certs[ca],
           RowsInv', DistinctInv', FreshInv', HomeInv', ServedInv',
           pc'[t] = "idle" => job'[t] = NoJob,
           AdminAt(pc[t], job[t])'
    PROVE  WorkersInv'
<1>1. CertsInv'
  <2> SUFFICES ASSUME NEW ca \in Ca, NEW named \in certs'[ca]
               PROVE  OnRow(ca, named[1], named[2])'
    BY DEF CertsInv
  <2>1. named \in certs[ca] /\ named \in Script \X Host
    BY DEF WorkersInv, TypeOK
  <2> QED  BY <2>1, OnRowStays DEF WorkersInv, CertsInv
<1>2. IdleInv'
  BY DEF IdleInv, WorkersInv, Moves
<1>3. PublisherInv'
  <2>1. \A p \in Publisher : p \in Publisher \ {t}
    OBVIOUS
  <2>2. \A p \in Publisher :
               /\ pc'[p] \in {"idle", "push", "save"}
               /\ pc'[p] = "push" => job'[p].script \in Script /\ job'[p].account \in Account
               /\ pc'[p] = "save" => /\ job'[p].ca \in Ca /\ job'[p].script \in Script /\ job'[p].host \in Host
                                     /\ OnRow(job[p].ca, job[p].script, job[p].host)'
    BY <2>1, PublishersStay DEF WorkersInv, Proc
  <2> QED  BY <2>2 DEF PublisherInv
<1>4. AdminInv'
  BY DEF AdminInv, OneAdmin
<1> QED  BY <1>1, <1>2, <1>3, <1>4 DEF WorkersInv

\* A Worker keeps its home in a step that puts it only where somebody remembers
\* it.
LEMMA HomeStaysOf ==
    ASSUME NEW s \in Script, NEW a \in Account, Home(s, a),
           \A b \in Account :
               s \in remote'[b] => s \in remote[b] \/ \E p \in Proc : job[p].script = s /\ pc[p] # "save" /\ job[p].account = b,
           \A ca \in Ca :
               row'[ca].worker = s =>
                   \/ row[ca].worker = s /\ row'[ca].account = row[ca].account
                   \/ \E p \in Proc : job[p].script = s /\ pc[p] # "save" /\ row'[ca].account = job[p].account,
           \A p \in Proc :
               job'[p].script = s /\ pc'[p] # "save" =>
                   \/ job[p].script = s /\ pc[p] # "save" /\ job'[p].account = job[p].account
                   \/ \E ca \in Ca : row[ca].worker = s /\ job'[p].account = row[ca].account
                   \/ job'[p].account \in Account /\ s \in remote[job'[p].account]
    PROVE  Home(s, a)'
<1>1. \A b \in Account : s \in remote'[b] => b = a
  BY DEF Home
<1>2. \A ca \in Ca : row'[ca].worker = s => row'[ca].account = a
  BY DEF Home
<1>3. \A p \in Proc : job'[p].script = s /\ pc'[p] # "save" => job'[p].account = a
  BY DEF Home
<1> QED  BY <1>1, <1>2, <1>3 DEF Home

LEMMA HomeStays ==
    ASSUME WorkersInv, doomed \subseteq doomed',
           \A s \in Script : \A b \in Account :
               s \in remote'[b] => s \in remote[b] \/ \E p \in Proc : job[p].script = s /\ pc[p] # "save" /\ job[p].account = b,
           \A s \in Script : \A ca \in Ca :
               row'[ca].worker = s =>
                   \/ row[ca].worker = s /\ row'[ca].account = row[ca].account
                   \/ \E p \in Proc : job[p].script = s /\ pc[p] # "save" /\ row'[ca].account = job[p].account,
           \A s \in Script : \A p \in Proc :
               job'[p].script = s /\ pc'[p] # "save" =>
                   \/ job[p].script = s /\ pc[p] # "save" /\ job'[p].account = job[p].account
                   \/ \E ca \in Ca : row[ca].worker = s /\ job'[p].account = row[ca].account
                   \/ job'[p].account \in Account /\ s \in remote[job'[p].account]
    PROVE  HomeInv'
<1> SUFFICES ASSUME NEW s \in Script \ doomed'
             PROVE  \E a \in Account : Home(s, a)'
  BY DEF HomeInv
<1>1. PICK a \in Account : Home(s, a)
  BY DEF WorkersInv, HomeInv
<1>2. Home(s, a)'
  BY <1>1, HomeStaysOf
<1> QED  BY <1>2

\* What the invariant says of the admin's thread.
LEMMA AdminHas ==
    ASSUME WorkersInv, NEW t \in Admin
    PROVE  /\ t \in Proc /\ job[t] \in Job /\ AdminAt(pc[t], job[t])
           /\ pc \in [Proc -> Pc] /\ job \in [Proc -> Job]
           /\ pc[t] = "idle" => job[t] = NoJob
  BY DEF WorkersInv, TypeOK, AdminInv, IdleInv, Proc

\* A name in hand, on a row or at Cloudflare is one that was drawn.
LEMMA Drawn ==
    ASSUME WorkersInv
    PROVE  /\ \A p \in Proc : job[p].script \in used \cup {None}
           /\ \A ca \in Ca : row[ca].worker \in used \cup {None}
           /\ \A a \in Account : remote[a] \subseteq used
           /\ doomed \subseteq used
<1>1. /\ \A p \in Proc : job[p].script \in Script \cup {None}
      /\ \A ca \in Ca : row[ca].worker \in Script \cup {None}
      /\ \A a \in Account : remote[a] \subseteq Script
      /\ doomed \subseteq Script
  BY DEF WorkersInv, TypeOK, Job, Row
<1> QED  BY <1>1 DEF WorkersInv, FreshInv

\* A step that only changes what the admin has in hand.
LEMMA QuietStep ==
    ASSUME OneAdmin, WorkersInv, NEW t \in Admin, Moves(t),
           UNCHANGED <<database, cloudflare, used, doomed, restarts>>,
           pc' \in [Proc -> Pc], job' \in [Proc -> Job],
           pc'[t] = "idle" => job'[t] = NoJob,
           job'[t].script \in used \cup {None},
           job'[t].script \in Script /\ pc'[t] # "save" =>
               \/ job[t].script = job'[t].script /\ pc[t] # "save" /\ job'[t].account = job[t].account
               \/ \E ca \in Ca : row[ca].worker = job'[t].script /\ job'[t].account = row[ca].account
               \/ job'[t].account \in Account /\ job'[t].script \in remote[job'[t].account],
           AdminAt(pc[t], job[t])'
    PROVE  WorkersInv'
<1>1. TypeOK'
  BY DEF WorkersInv, TypeOK, database, cloudflare
<1>2. RowsInv' /\ DistinctInv' /\ ServedInv' /\ RowsSteady
  BY DEF WorkersInv, RowsInv, DistinctInv, ServedInv, Serves, RowsSteady, database, cloudflare
<1>3. FreshInv'
  <2>1. \A p \in Proc : job'[p].script \in used \cup {None}
    BY Drawn DEF Moves
  <2> QED  BY <2>1 DEF WorkersInv, FreshInv, database, cloudflare, Host
<1>4. HomeInv'
  <2>1. UNCHANGED <<row, remote, doomed>>
    BY DEF database, cloudflare
  <2>2. \A s \in Script : \A p \in Proc :
            job'[p].script = s /\ pc'[p] # "save" =>
                   \/ job[p].script = s /\ pc[p] # "save" /\ job'[p].account = job[p].account
                   \/ \E ca \in Ca : row[ca].worker = s /\ job'[p].account = row[ca].account
                   \/ job'[p].account \in Account /\ s \in remote[job'[p].account]
    BY DEF Moves
  <2> QED  BY <2>1, <2>2, HomeStays
<1>5. \A ca \in Ca : certs'[ca] \subseteq certs[ca]
  BY DEF database
<1> QED  BY <1>1, <1>2, <1>3, <1>4, <1>5, AdminStep

\* The admin's handler returns.
LEMMA FinishAt ==
    ASSUME WorkersInv, NEW t \in Proc, Finish(t)
    PROVE  /\ Moves(t) /\ pc' \in [Proc -> Pc] /\ job' \in [Proc -> Job]
           /\ pc'[t] = "idle" /\ job'[t] = NoJob
  BY DEF Finish, Goto, Moves, WorkersInv, TypeOK, Pc, Job, NoJob

LEMMA GotoAt ==
    ASSUME WorkersInv, NEW t \in Proc, NEW label \in Pc, Goto(t, label)
    PROVE  pc' \in [Proc -> Pc] /\ pc'[t] = label /\ \A p \in Proc \ {t} : pc'[p] = pc[p]
  BY DEF Goto, WorkersInv, TypeOK

\* It gives up: by returning, by undoing, or by forgetting the Worker.
LEMMA GiveUpAt ==
    ASSUME WorkersInv, NEW t \in Proc, GiveUp(t)
    PROVE  /\ Moves(t) /\ pc' \in [Proc -> Pc] /\ job' \in [Proc -> Job]
           /\ \/ pc'[t] = "idle" /\ job'[t] = NoJob
              \/ /\ job'[t] = job[t] /\ job[t].task = "deploy"
                 /\ pc'[t] = IF pc[t] \in Deleting THEN "clear" ELSE "undo"
<1>1. CASE job[t].task # "deploy"
  BY <1>1, FinishAt DEF GiveUp
<1>2. CASE job[t].task = "deploy"
  <2> DEFINE label == IF pc[t] \in {"detach", "delete"} THEN "clear" ELSE "undo"
  <2>1. label \in Pc /\ Goto(t, label) /\ UNCHANGED job
    BY <1>2 DEF GiveUp, Pc
  <2> HIDE DEF label
  <2>2. pc' \in [Proc -> Pc] /\ pc'[t] = label /\ \A p \in Proc \ {t} : pc'[p] = pc[p]
    BY <2>1, GotoAt
  <2> QED  BY <1>2, <2>1, <2>2 DEF Moves, WorkersInv, TypeOK, label, Deleting
<1> QED  BY <1>1, <1>2

LEMMA AtIdle ==
    ASSUME NEW t, pc'[t] = "idle", job'[t] = NoJob
    PROVE  AdminAt(pc[t], job[t])'
  BY DEF AdminAt, NoJob, Deploying, Deleting

\* The Worker is registered when its deployment is given up.
LEMMA AtUndo ==
    ASSUME WorkersInv, NEW t \in Admin, Registered(job[t])', job'[t].task = "deploy",
           pc'[t] \in {"undo", "clear"}
    PROVE  AdminAt(pc[t], job[t])'
  BY DEF AdminAt, DeployInv, Deploying, Deleting

-------------------------------------------------------------------------------
(* Steps that only change what the admin has in hand *)

LEMMA DeployBeginKeeps ==
    ASSUME OneAdmin, WorkersInv, NEW t \in Admin, NEW ca \in Ca, DeployBegin(t, ca)
    PROVE  WorkersInv'
<1>1. t \in Proc /\ pc \in [Proc -> Pc] /\ job \in [Proc -> Job]
  BY AdminHas
<1>2. /\ pc'[t] = "name" /\ job'[t] = [NoJob EXCEPT !.ca = ca, !.task = "deploy"]
      /\ Moves(t) /\ pc' \in [Proc -> Pc] /\ job' \in [Proc -> Job]
  BY <1>1 DEF DeployBegin, Goto, Moves, Pc, Job, NoJob
<1>3. job'[t].ca = ca /\ job'[t].task = "deploy" /\ job'[t].domains = {} /\ job'[t].script = None
  BY <1>2 DEF NoJob
<1>4. ca \in cas /\ row[ca] = NoRow
  BY DEF DeployBegin, WorkersInv, RowsInv
<1>5. UNCHANGED <<database, cloudflare, used, doomed, restarts>>
  BY DEF DeployBegin
<1>6. AdminAt(pc[t], job[t])'
  BY <1>2, <1>3, <1>4, <1>5 DEF AdminAt, DeployInv, Deploying, Deleting, database
<1> QED  BY <1>2, <1>3, <1>5, <1>6, QuietStep DEF Host

LEMMA DeleteCaCheckKeeps ==
    ASSUME OneAdmin, WorkersInv, NEW t \in Admin, NEW ca \in Ca, DeleteCaCheck(t, ca)
    PROVE  WorkersInv'
<1>1. t \in Proc /\ pc \in [Proc -> Pc] /\ job \in [Proc -> Job] /\ job[t] = NoJob
  BY AdminHas DEF DeleteCaCheck
<1>2. /\ pc'[t] = "deleteCa" /\ job'[t] = [NoJob EXCEPT !.ca = ca]
      /\ Moves(t) /\ pc' \in [Proc -> Pc] /\ job' \in [Proc -> Job]
  BY <1>1 DEF DeleteCaCheck, Goto, Moves, Pc, Job, NoJob
<1>3. job'[t].ca = ca /\ job'[t].task = "none" /\ job'[t].script = None
  BY <1>2 DEF NoJob
<1>4. row[ca] = NoRow
  BY DEF DeleteCaCheck, Deployed, WorkersInv, RowsInv
<1>5. UNCHANGED <<database, cloudflare, used, doomed, restarts>>
  BY DEF DeleteCaCheck
<1>6. AdminAt(pc[t], job[t])'
  BY <1>2, <1>3, <1>4, <1>5 DEF AdminAt, Deploying, Deleting, database
<1> QED  BY <1>2, <1>3, <1>5, <1>6, QuietStep DEF Host

LEMMA ConnectCheckKeeps ==
    ASSUME OneAdmin, WorkersInv, NEW t \in Admin, NEW a \in Account, ConnectCheck(t, a)
    PROVE  WorkersInv'
<1>1. t \in Proc /\ pc \in [Proc -> Pc] /\ job \in [Proc -> Job] /\ job[t] = NoJob
  BY AdminHas DEF ConnectCheck
<1>2. /\ pc'[t] = "connect" /\ job'[t] = [NoJob EXCEPT !.account = a]
      /\ Moves(t) /\ pc' \in [Proc -> Pc] /\ job' \in [Proc -> Job]
  BY <1>1 DEF ConnectCheck, Goto, Moves, Pc, Job, NoJob
<1>3. job'[t].account = a /\ job'[t].task = "none" /\ job'[t].script = None
  BY <1>2 DEF NoJob
<1>4. creds \in {None, a} \/ Deployed = {}
  BY DEF ConnectCheck
<1>5. UNCHANGED <<database, cloudflare, used, doomed, restarts>>
  BY DEF ConnectCheck
<1>6. AdminAt(pc[t], job[t])'
  BY <1>2, <1>3, <1>4, <1>5 DEF AdminAt, Deploying, Deleting, database, Deployed
<1> QED  BY <1>2, <1>3, <1>5, <1>6, QuietStep DEF Host

LEMMA DisconnectCheckKeeps ==
    ASSUME OneAdmin, WorkersInv, NEW t \in Admin, DisconnectCheck(t)
    PROVE  WorkersInv'
<1>1. t \in Proc /\ pc \in [Proc -> Pc] /\ job \in [Proc -> Job] /\ job[t] = NoJob
  BY AdminHas DEF DisconnectCheck
<1>2. /\ pc'[t] = "disconnect" /\ job'[t] = NoJob
      /\ Moves(t) /\ pc' \in [Proc -> Pc] /\ job' \in [Proc -> Job]
  BY <1>1 DEF DisconnectCheck, Goto, Moves, Pc
<1>3. job'[t].task = "none" /\ job'[t].script = None
  BY <1>2 DEF NoJob
<1>4. Deployed = {}
  BY DEF DisconnectCheck
<1>5. UNCHANGED <<database, cloudflare, used, doomed, restarts>>
  BY DEF DisconnectCheck
<1>6. AdminAt(pc[t], job[t])'
  BY <1>2, <1>3, <1>4, <1>5 DEF AdminAt, Deploying, Deleting, database, Deployed
<1> QED  BY <1>2, <1>3, <1>5, <1>6, QuietStep DEF Host

LEMMA RefusedKeeps ==
    ASSUME OneAdmin, WorkersInv, NEW t \in Admin, Refused(t)
    PROVE  WorkersInv'
<1>1. UNCHANGED <<database, cloudflare, used, doomed, restarts>> /\ Finish(t) /\ t \in Proc
  BY AdminHas DEF Refused
<1>2. /\ Moves(t) /\ pc' \in [Proc -> Pc] /\ job' \in [Proc -> Job]
      /\ pc'[t] = "idle" /\ job'[t] = NoJob
  BY <1>1, FinishAt
<1>3. AdminAt(pc[t], job[t])'
  BY <1>2, AtIdle
<1>4. job'[t].script = None
  BY <1>2 DEF NoJob
<1> QED  BY <1>1, <1>2, <1>3, <1>4, QuietStep DEF Host

\* The Worker of a deployment that has begun to call Cloudflare is on its row.
LEMMA DeployRegistered ==
    ASSUME WorkersInv, NEW t \in Admin, job[t].task = "deploy",
           pc[t] \in {"upload", "attach", "domain", "devOff", "devOn", "record", "undo", "detach", "delete", "clear"}
    PROVE  Registered(job[t])
  BY AdminHas DEF AdminAt, DeployInv, There, Deleting

LEMMA CallFailsKeeps ==
    ASSUME OneAdmin, WorkersInv, NEW t \in Admin, CallFails(t)
    PROVE  WorkersInv'
<1>1. UNCHANGED <<database, cloudflare, used, doomed, restarts>> /\ GiveUp(t) /\ t \in Proc
  BY AdminHas DEF CallFails
<1>2. /\ Moves(t) /\ pc' \in [Proc -> Pc] /\ job' \in [Proc -> Job]
      /\ \/ pc'[t] = "idle" /\ job'[t] = NoJob
         \/ job'[t] = job[t] /\ job[t].task = "deploy" /\ pc'[t] \in {"undo", "clear"}
  BY <1>1, GiveUpAt
<1>3. CASE pc'[t] = "idle" /\ job'[t] = NoJob
  <2>1. AdminAt(pc[t], job[t])'
    BY <1>3, AtIdle
  <2>2. job'[t].script = None
    BY <1>3 DEF NoJob
  <2> QED  BY <1>1, <1>2, <1>3, <2>1, <2>2, QuietStep DEF Host
<1>4. CASE job'[t] = job[t] /\ job[t].task = "deploy" /\ pc'[t] \in {"undo", "clear"}
  <2>1. Registered(job[t])'
    BY <1>1, <1>4, DeployRegistered DEF CallFails, Registered, Named, database
  <2>2. AdminAt(pc[t], job[t])'
    BY <1>4, <2>1, AtUndo
  <2>3. job[t].script \in used \cup {None} /\ pc[t] # "save"
    BY <1>1, Drawn DEF CallFails
  <2> QED  BY <1>1, <1>2, <1>4, <2>2, <2>3, QuietStep
<1> QED  BY <1>2, <1>3, <1>4

LEMMA UndoDeployKeeps ==
    ASSUME OneAdmin, WorkersInv, NEW t \in Admin, UndoDeploy(t)
    PROVE  WorkersInv'
<1> DEFINE attached == {row[job[t].ca].domain} \ {None}
<1>1. t \in Proc /\ pc \in [Proc -> Pc] /\ job \in [Proc -> Job] /\ pc[t] = "undo"
  BY AdminHas DEF UndoDeploy
<1>2. job[t].task = "deploy" /\ Registered(job[t])
  BY <1>1, AdminHas, DeployRegistered DEF AdminAt, Deploying
<1>3. attached \subseteq Domain /\ attached \subseteq {row[job[t].ca].domain}
  BY <1>2 DEF WorkersInv, TypeOK, Row, Registered, Named
<1>4. /\ job' = [job EXCEPT ![t].domains = attached] /\ Goto(t, Removing(attached))
      /\ UNCHANGED <<database, cloudflare, used, doomed, restarts>>
  BY DEF UndoDeploy
<1>5. Removing(attached) \in Deleting
  BY DEF Removing, Deleting
<1> HIDE DEF attached
<1>6. /\ pc'[t] \in Deleting /\ job'[t] = [job[t] EXCEPT !.domains = attached]
      /\ Moves(t) /\ pc' \in [Proc -> Pc] /\ job' \in [Proc -> Job]
  BY <1>1, <1>3, <1>4, <1>5 DEF Goto, Moves, Pc, Job, Deleting
<1>7. /\ job'[t].ca = job[t].ca /\ job'[t].script = job[t].script /\ job'[t].account = job[t].account
      /\ job'[t].host = job[t].host /\ job'[t].task = "deploy" /\ job'[t].domains = attached
  BY <1>1, <1>2, <1>6 DEF Job
<1>8. Registered(job[t])'
  BY <1>2, <1>3, <1>4, <1>7 DEF Registered, Named, database
<1>9. AdminAt(pc[t], job[t])'
  BY <1>6, <1>7, <1>8 DEF AdminAt, DeployInv, Deploying, Deleting
<1>10. job[t].script \in used \cup {None}
  BY <1>1, Drawn
<1> QED  BY <1>1, <1>4, <1>6, <1>7, <1>9, <1>10, QuietStep DEF Deleting

LEMMA DeleteUnlinkedKeeps ==
    ASSUME OneAdmin, WorkersInv, NEW t \in Admin, NEW s \in Script, DeleteUnlinked(t, s)
    PROVE  WorkersInv'
<1> DEFINE attached == {d \in Domain : dns[d] = s}
<1>1. t \in Proc /\ pc \in [Proc -> Pc] /\ job \in [Proc -> Job] /\ pc[t] = "idle"
  BY AdminHas DEF DeleteUnlinked
<1>2. creds \in Account /\ s \in remote[creds]
  BY DEF DeleteUnlinked, WorkersInv, TypeOK
<1>3. /\ job' = [job EXCEPT ![t] = [NoJob EXCEPT !.script = s, !.account = creds,
                         !.domains = attached, !.task = "unlinked"]]
      /\ Goto(t, Removing(attached))
      /\ UNCHANGED <<database, cloudflare, used, doomed, restarts>>
      /\ \A ca \in Deployed : ~(row[ca].worker = s /\ row[ca].account = creds)
  BY DEF DeleteUnlinked
<1>4. Removing(attached) \in Deleting /\ attached \subseteq Domain /\ \A d \in attached : dns[d] = s
  BY DEF Removing, Deleting
<1> HIDE DEF attached
<1>5. /\ pc'[t] \in Deleting
      /\ job'[t] = [NoJob EXCEPT !.script = s, !.account = creds, !.domains = attached, !.task = "unlinked"]
      /\ Moves(t) /\ pc' \in [Proc -> Pc] /\ job' \in [Proc -> Job]
  BY <1>1, <1>2, <1>3, <1>4 DEF Goto, Moves, Pc, Job, NoJob, Deleting
<1>6. /\ job'[t].script = s /\ job'[t].account = creds
      /\ job'[t].task = "unlinked" /\ job'[t].domains = attached
  BY <1>5 DEF NoJob
<1>7. UnlinkedInv(job'[t])
  <2> SUFFICES ASSUME NEW ca \in cas, row[ca].host # None, row[ca].worker \notin doomed
               PROVE  ~(row[ca].worker = s /\ row[ca].account = creds) /\ row[ca].host \notin attached
    BY <1>2, <1>6 DEF UnlinkedInv
  <2>1. ca \in Ca /\ row[ca].worker # None
    BY DEF WorkersInv, TypeOK, RowsInv, NoRow
  <2>2. ~(row[ca].worker = s /\ row[ca].account = creds)
    BY <1>3, <2>1 DEF Deployed
  <2>3. ASSUME row[ca].host \in attached PROVE FALSE
    <3>1. Serves(row[ca].worker, row[ca].account, row[ca].host)
      BY DEF WorkersInv, ServedInv
    <3>2. row[ca].host \in Domain /\ dns[row[ca].host] = s
      BY <1>4, <2>3
    <3>3. row[ca].worker \in Script
      BY <2>1 DEF WorkersInv, TypeOK, Row
    <3>4. row[ca].worker = s
      BY <3>1, <3>2, <3>3 DEF Serves
    <3>5. PICK a \in Account : Home(s, a)
      BY <3>4 DEF WorkersInv, HomeInv
    <3>6. row[ca].account = a /\ creds = a
      BY <1>2, <2>1, <3>4, <3>5 DEF Home
    <3> QED  BY <2>2, <3>4, <3>6
  <2> QED  BY <2>2, <2>3
<1>8. UnlinkedInv(job[t])'
  BY <1>3, <1>7 DEF UnlinkedInv, database
<1>9. AdminAt(pc[t], job[t])'
  BY <1>5, <1>6, <1>8 DEF AdminAt, Deploying, Deleting
<1>10. s \in used
  BY <1>2, Drawn
<1> QED  BY <1>2, <1>3, <1>5, <1>6, <1>9, <1>10, QuietStep DEF Deleting

-------------------------------------------------------------------------------
(* Deploying *)

\* No other CA has the Worker or the hostname of a deployment.
LEMMA OthersDiffer ==
    ASSUME WorkersInv, NEW j, Registered(j), NEW ca \in Ca, ca # j.ca
    PROVE  row[ca].worker # j.script /\ row[ca].domain # j.host
<1>1. j.ca \in Ca /\ row[j.ca].worker = j.script /\ j.script # None
  BY DEF Registered, Named, WorkersInv, TypeOK, Host
<1>2. row[ca].worker # row[j.ca].worker
  BY <1>1 DEF WorkersInv, DistinctInv
<1> QED  BY <1>1, <1>2 DEF Registered, Named

\* A deployment touches no address that certificates name.
LEMMA ServedElsewhere ==
    ASSUME WorkersInv, NEW j, Registered(j), NEW ca \in cas, row[ca].host # None
    PROVE  ca \in Ca /\ ca # j.ca /\ row[ca].worker # j.script /\ row[ca].host # j.host
<1>1. ca \in Ca /\ ca # j.ca
  BY DEF Registered, WorkersInv, TypeOK
<1>2. row[ca].worker # j.script /\ row[ca].domain # j.host
  BY <1>1, OthersDiffer
<1>3. row[ca].host \in Domain => row[ca].domain = row[ca].host
  BY <1>1 DEF WorkersInv, RowsInv
<1>4. row[ca].host \in Domain \cup {row[ca].worker} /\ row[ca].worker \in Script \cup {None}
  BY <1>1 DEF WorkersInv, RowsInv, TypeOK, Row
<1>5. j.host \in Domain \cup {j.script} /\ j.script \in Script
  BY DEF Registered, Named
<1> QED  BY <1>1, <1>2, <1>3, <1>4, <1>5

LEMMA DeployNameKeeps ==
    ASSUME OneAdmin, WorkersInv, NEW t \in Admin, NEW s \in Script, NEW h \in Host, DeployName(t, s, h)
    PROVE  WorkersInv'
<1>1. t \in Proc /\ pc \in [Proc -> Pc] /\ job \in [Proc -> Job] /\ pc[t] = "name"
  BY AdminHas DEF DeployName
<1>2. /\ job[t].task = "deploy" /\ job[t].ca \in cas /\ row[job[t].ca] = NoRow
      /\ job[t].domains = {} /\ job[t].script = None
  BY <1>1, AdminHas DEF AdminAt, DeployInv, Deploying
<1>3. /\ creds \in Account /\ s \in Script \ used /\ h \in Domain \cup {s}
      /\ \A ca \in Ca \ {job[t].ca} : row[ca].domain # h
      /\ used' = used \cup {s}
      /\ job' = [job EXCEPT ![t].script = s, ![t].account = creds, ![t].host = h]
      /\ Goto(t, "register")
      /\ UNCHANGED <<database, cloudflare, doomed, restarts>>
  BY DEF DeployName, WorkersInv, TypeOK
<1>4. /\ pc'[t] = "register" /\ job'[t] = [job[t] EXCEPT !.script = s, !.account = creds, !.host = h]
      /\ Moves(t) /\ pc' \in [Proc -> Pc] /\ job' \in [Proc -> Job]
  <2>1. h \in Host
    BY <1>3 DEF Host
  <2>2. job[t] \in Job
    BY <1>1
  <2>3. [job[t] EXCEPT !.script = s, !.account = creds, !.host = h] \in Job
    BY <1>3, <2>1, <2>2 DEF Job
  <2> DEFINE new == [job[t] EXCEPT !.script = s, !.account = creds, !.host = h]
  <2>4. job' = [job EXCEPT ![t] = new]
    BY <1>1, <1>3
  <2> HIDE DEF new
  <2>5. job'[t] = new /\ job' \in [Proc -> Job] /\ \A p \in Proc \ {t} : job'[p] = job[p]
    BY <1>1, <2>3, <2>4 DEF new
  <2>6. pc'[t] = "register" /\ pc' \in [Proc -> Pc] /\ \A p \in Proc \ {t} : pc'[p] = pc[p]
    BY <1>1, <1>3 DEF Goto, Pc
  <2> QED  BY <2>5, <2>6 DEF Moves, new
<1>5. /\ job'[t].ca = job[t].ca /\ job'[t].script = s /\ job'[t].account = creds
      /\ job'[t].host = h /\ job'[t].task = "deploy" /\ job'[t].domains = {}
  BY <1>1, <1>2, <1>4 DEF Job
<1>6. /\ s \notin doomed
      /\ \A a \in Account : s \notin remote[a]
      /\ \A ca \in Ca : row[ca].worker # s
      /\ \A p \in Proc : job[p].script # s
  BY <1>3 DEF WorkersInv, FreshInv
<1>7. TypeOK'
  BY <1>3, <1>4 DEF WorkersInv, TypeOK, database, cloudflare
<1>8. RowsInv' /\ DistinctInv' /\ ServedInv' /\ RowsSteady /\ \A ca \in Ca : certs'[ca] \subseteq certs[ca]
  BY <1>3 DEF WorkersInv, RowsInv, DistinctInv, ServedInv, Serves, RowsSteady, database, cloudflare
<1>9. FreshInv'
  BY <1>3, <1>4, <1>5 DEF WorkersInv, FreshInv, database, cloudflare, Moves
<1>10. HomeInv'
  <2>1. UNCHANGED <<row, remote, doomed>>
    BY <1>3 DEF database, cloudflare
  <2>2. ASSUME NEW r \in Script \ doomed, r # s PROVE \E a \in Account : Home(r, a)'
    <3>1. PICK a \in Account : Home(r, a)
      BY DEF WorkersInv, HomeInv
    <3>2. \A p \in Proc :
            job'[p].script = r /\ pc'[p] # "save" =>
                job[p].script = r /\ pc[p] # "save" /\ job'[p].account = job[p].account
      BY <1>4, <1>5, <2>2 DEF Moves
    <3>3. Home(r, a)'
      BY <2>1, <3>1, <3>2, HomeStaysOf
    <3> QED  BY <3>3
  <2>3. PICK a \in Account : a = creds
    BY <1>3
  <2>4. Home(s, a)'
    <3>1. \A b \in Account : s \notin remote'[b]
      BY <1>6, <2>1
    <3>2. \A ca \in Ca : row'[ca].worker # s
      BY <1>6, <2>1
    <3>3. \A p \in Proc : job'[p].script = s => job'[p].account = a
      <4>1. job'[t].account = a /\ \A p \in Proc \ {t} : job'[p] = job[p]
        BY <1>4, <1>5, <2>3 DEF Moves
      <4>2. \A p \in Proc \ {t} : job'[p].script # s
        BY <1>6, <4>1
      <4> QED  BY <4>1, <4>2
    <3> QED  BY <3>1, <3>2, <3>3 DEF Home
  <2> QED  BY <2>1, <2>2, <2>4 DEF HomeInv
<1>11. AdminAt(pc[t], job[t])'
  <2>1. Named(job[t])'
    <3>1. row' = row /\ cas' = cas
      BY <1>3 DEF database
    <3>2. \A ca \in Ca : ca # job[t].ca => row[ca].domain # h
      BY <1>3
    <3>3. s \in Script /\ creds \in Account /\ h \in Domain \cup {s} /\ job[t].ca \in cas
      BY <1>2, <1>3
    <3> QED  BY ONLY <1>5, <3>1, <3>2, <3>3 DEF Named
  <2>2. row'[job'[t].ca] = NoRow /\ \A ca \in Ca : row'[ca].worker # job'[t].script
    BY <1>2, <1>3, <1>5, <1>6 DEF database
  <2> QED  BY <1>4, <1>5, <2>1, <2>2 DEF AdminAt, DeployInv, Deploying, Deleting
<1> QED  BY <1>4, <1>7, <1>8, <1>9, <1>10, <1>11, AdminStep

LEMMA RegisterKeeps ==
    ASSUME OneAdmin, WorkersInv, NEW t \in Admin, Register(t)
    PROVE  WorkersInv'
<1> DEFINE j == job[t]
           r == [row[j.ca] EXCEPT !.worker = j.script, !.account = j.account]
<1>1. t \in Proc /\ pc \in [Proc -> Pc] /\ job \in [Proc -> Job] /\ pc[t] = "register"
  BY AdminHas DEF Register
<1>2. /\ j.task = "deploy" /\ Named(j) /\ row[j.ca] = NoRow /\ j.domains = {}
      /\ \A ca \in Ca : row[ca].worker # j.script
  BY <1>1, AdminHas DEF AdminAt, DeployInv, Deploying
<1>3. j.ca \in cas /\ j.ca \in Ca /\ j.script \in Script /\ j.account \in Account
  BY <1>2 DEF Named, WorkersInv, TypeOK
<1>4. /\ row' = [row EXCEPT ![j.ca] = r] /\ Goto(t, "upload")
      /\ UNCHANGED <<cas, creds, certs, cloudflare, used, doomed, job, restarts>>
  BY <1>3 DEF Register, SetRow
<1>5. /\ r.worker = j.script /\ r.account = j.account /\ r.host = None /\ r.domain = None /\ r \in Row
  <2>1. row[j.ca] \in Row /\ row[j.ca].host = None /\ row[j.ca].domain = None
    BY <1>2, <1>3 DEF WorkersInv, TypeOK, NoRow
  <2>2. r \in Row
    BY <1>3, <2>1 DEF Row
  <2>3. r.worker = j.script /\ r.account = j.account /\ r.host = row[j.ca].host /\ r.domain = row[j.ca].domain
    BY <1>3, <2>1 DEF Row
  <2> QED  BY <2>1, <2>2, <2>3
<1> HIDE DEF r
<1>6. row'[j.ca] = r /\ \A ca \in Ca : ca # j.ca => row'[ca] = row[ca]
  BY <1>3, <1>4 DEF WorkersInv, TypeOK
<1>7. /\ pc'[t] = "upload" /\ job'[t] = j
      /\ Moves(t) /\ pc' \in [Proc -> Pc] /\ job' \in [Proc -> Job]
  BY <1>1, <1>4 DEF Goto, Moves, Pc
<1>8. TypeOK'
  BY <1>3, <1>4, <1>5, <1>7 DEF WorkersInv, TypeOK, cloudflare
<1>9. RowsInv'
  <2>1. r.worker # None /\ certs' = certs /\ cas' = cas
    BY <1>3, <1>4, <1>5 DEF Host
  <2>2. ASSUME NEW ca \in Ca, ca # j.ca, row'[ca] = row[ca]
        PROVE  /\ row'[ca].worker = None => row'[ca] = NoRow
               /\ row'[ca].worker # None => ca \in cas' /\ row'[ca].account \in Account
               /\ row'[ca].host # None => row'[ca].host \in Domain \cup {row'[ca].worker}
               /\ row'[ca].host \in Domain => row'[ca].domain = row'[ca].host
               /\ ca \notin cas' => certs'[ca] = {}
    BY <2>1, <2>2 DEF WorkersInv, RowsInv
  <2>3. None \notin Domain
    BY DEF Host
  <2> QED  BY <1>3, <1>5, <1>6, <2>1, <2>2, <2>3 DEF RowsInv
<1>10. DistinctInv'
  BY <1>2, <1>3, <1>5, <1>6 DEF WorkersInv, DistinctInv
<1>11. FreshInv'
  <2>1. j.script \in used
    BY <1>1, <1>3, Drawn DEF Host
  <2> QED  BY <1>4, <1>5, <1>6, <2>1 DEF WorkersInv, FreshInv, cloudflare
<1>12. HomeInv'
  <2>1. UNCHANGED <<remote, doomed, job>> /\ \A p \in Proc : pc'[p] # "save" => pc[p] # "save"
    BY <1>1, <1>4, <1>7 DEF cloudflare, Moves
  <2>2. \A s \in Script : \A ca \in Ca :
               row'[ca].worker = s =>
                   \/ row[ca].worker = s /\ row'[ca].account = row[ca].account
                   \/ \E p \in Proc : job[p].script = s /\ pc[p] # "save" /\ row'[ca].account = job[p].account
    BY <1>1, <1>5, <1>6
  <2> QED  BY <2>1, <2>2, HomeStays
<1>13. ServedInv'
  BY <1>3, <1>4, <1>5, <1>6 DEF WorkersInv, TypeOK, ServedInv, Serves, cloudflare
<1>14. RowsSteady /\ \A ca \in Ca : certs'[ca] \subseteq certs[ca]
  BY <1>2, <1>4, <1>6 DEF RowsSteady, NoRow
<1>15. AdminAt(pc[t], job[t])'
  <2>1. Registered(job[t])'
    BY <1>2, <1>3, <1>4, <1>5, <1>6, <1>7 DEF Registered, Named
  <2> QED  BY <1>2, <1>7, <2>1 DEF AdminAt, DeployInv, Deploying, Deleting
<1> QED  BY <1>7, <1>8, <1>9, <1>10, <1>11, <1>12, <1>13, <1>14, <1>15, AdminStep

LEMMA AnsweredAt ==
    ASSUME WorkersInv, NEW t \in Proc, NEW label \in Pc, Answered(t, label), job[t].task = "deploy",
           pc[t] \notin Deleting
    PROVE  /\ Moves(t) /\ pc' \in [Proc -> Pc] /\ job' \in [Proc -> Job]
           /\ job' = job /\ pc'[t] \in {label, "undo"}
<1>1. CASE Goto(t, label) /\ UNCHANGED job
  BY <1>1, GotoAt DEF Moves, WorkersInv, TypeOK
<1>2. CASE GiveUp(t)
  <2>1. UNCHANGED job
    BY <1>2 DEF GiveUp
  <2> QED  BY <1>2, <2>1, GiveUpAt, AdminHas DEF NoJob
<1> QED  BY <1>1, <1>2 DEF Answered

\* A call to Cloudflare of a deployment under way.
LEMMA DeployCall ==
    ASSUME OneAdmin, WorkersInv, NEW t \in Admin,
           pc[t] \in {"upload", "attach", "devOff", "devOn"},
           NEW label \in Pc \ {"idle", "push", "save"}, Answered(t, label),
           UNCHANGED <<database, used, doomed, restarts>>,
           remote' \in [Account -> SUBSET Script], devOn' \subseteq Script, dns' \in [Domain -> Script \cup {None}],
           \A a \in Account : remote[a] \subseteq remote'[a]
               /\ (a # job[t].account => remote'[a] = remote[a]) /\ remote'[a] \subseteq remote[a] \cup {job[t].script},
           \A s \in Script \ {job[t].script} : s \in devOn => s \in devOn',
           \A d \in Domain \ {job[t].host} : dns'[d] = dns[d],
           pc'[t] = label => AdminAt(label, job[t])'
    PROVE  WorkersInv'
<1>1. t \in Proc /\ job[t] \in Job /\ pc[t] \notin Deleting /\ job[t].task = "deploy" /\ Registered(job[t])
  BY AdminHas, DeployRegistered DEF AdminAt, Deploying, Deleting
<1>2. /\ Moves(t) /\ pc' \in [Proc -> Pc] /\ job' \in [Proc -> Job]
      /\ job' = job /\ pc'[t] \in {label, "undo"}
  BY <1>1, AnsweredAt
<1>3. job[t].script \in Script /\ job[t].account \in Account
  BY <1>1 DEF Registered, Named
<1>4. TypeOK'
  BY <1>2 DEF WorkersInv, TypeOK, database
<1>5. RowsInv' /\ DistinctInv' /\ RowsSteady /\ \A ca \in Ca : certs'[ca] \subseteq certs[ca]
  BY DEF WorkersInv, RowsInv, DistinctInv, RowsSteady, database
<1>6. FreshInv'
  <2>1. job[t].script \in used
    BY <1>1, <1>3, Drawn DEF Host
  <2> QED  BY <1>2, <2>1 DEF WorkersInv, FreshInv, database
<1>7. HomeInv'
  <2>1. \A p \in Proc : pc'[p] # "save" => pc[p] # "save"
    BY <1>2 DEF Moves
  <2>2. \A s \in Script : \A b \in Account :
               s \in remote'[b] => s \in remote[b] \/ \E p \in Proc : job[p].script = s /\ pc[p] # "save" /\ job[p].account = b
    BY <1>1, <1>3
  <2> QED  BY <1>2, <2>1, <2>2, HomeStays DEF database
<1>8. ServedInv'
  <2> SUFFICES ASSUME NEW ca \in cas, row[ca].host # None, row[ca].worker \notin doomed
               PROVE  Serves(row[ca].worker, row[ca].account, row[ca].host)'
    BY DEF ServedInv, database
  <2>1. ca \in Ca /\ row[ca].worker # job[t].script /\ row[ca].host # job[t].host
    BY <1>1, ServedElsewhere
  <2>2. /\ Serves(row[ca].worker, row[ca].account, row[ca].host)
        /\ row[ca].worker \in Script /\ row[ca].account \in Account
        /\ row[ca].host \in Domain \cup {row[ca].worker}
    BY <2>1 DEF WorkersInv, ServedInv, TypeOK, Row, RowsInv, NoRow
  <2> QED  BY <2>1, <2>2 DEF Serves, database
<1>9. AdminAt(pc[t], job[t])'
  <2>1. CASE pc'[t] = label
    BY <1>2, <2>1 DEF AdminAt
  <2>2. CASE pc'[t] = "undo"
    <3>1. Registered(job[t])'
      BY <1>1, <1>2 DEF Registered, Named, database
    <3> QED  BY <1>1, <1>2, <2>2, <3>1, AtUndo
  <2> QED  BY <1>2, <2>1, <2>2
<1>10. pc'[t] # "idle"
  BY <1>2
<1> QED  BY <1>2, <1>4, <1>5, <1>6, <1>7, <1>8, <1>9, <1>10, AdminStep

LEMMA UploadKeeps ==
    ASSUME OneAdmin, WorkersInv, NEW t \in Admin, Upload(t)
    PROVE  WorkersInv'
<1> PICK label : label = IF job[t].host \in Domain THEN "attach" ELSE "devOn"
  OBVIOUS
<1>1. pc[t] = "upload" /\ job[t].task = "deploy" /\ Registered(job[t])
  BY AdminHas, DeployRegistered DEF Upload, AdminAt, Deploying
<1>2. job[t].script \in Script /\ job[t].account \in Account /\ job[t].host \in Domain \cup {job[t].script}
  BY <1>1 DEF Registered, Named
<1>3. /\ remote' = [remote EXCEPT ![job[t].account] = @ \cup {job[t].script}]
      /\ Answered(t, label) /\ UNCHANGED <<database, devOn, dns, used, doomed, restarts>>
  BY DEF Upload
<1>4. remote \in [Account -> SUBSET Script] /\ devOn \subseteq Script /\ dns \in [Domain -> Script \cup {None}]
  BY DEF WorkersInv, TypeOK
<1>5. label \in Pc \ {"idle", "push", "save"} /\ label \in {"attach", "devOn"}
  BY DEF Pc
<1>6. job' = job
  BY <1>1, <1>3, <1>5, AdminHas, AnsweredAt DEF Deleting
<1>7. ASSUME pc'[t] = label PROVE AdminAt(label, job[t])'
  <2>1. There(job[t])'
    BY <1>1, <1>2, <1>3, <1>4, <1>6 DEF There, Registered, Named, database
  <2>2. label = "attach" <=> job[t].host \in Domain
    OBVIOUS
  <2> QED  BY <1>1, <1>2, <1>5, <1>6, <2>1, <2>2 DEF AdminAt, DeployInv, Deploying, Deleting
<1>8. \A a \in Account :
          /\ remote[a] \subseteq remote'[a]
          /\ a # job[t].account => remote'[a] = remote[a]
          /\ remote'[a] \subseteq remote[a] \cup {job[t].script}
  BY <1>2, <1>3, <1>4
<1>9. remote' \in [Account -> SUBSET Script]
  BY <1>2, <1>3, <1>4
<1> QED  BY <1>1, <1>3, <1>4, <1>5, <1>7, <1>8, <1>9, DeployCall

LEMMA AttachKeeps ==
    ASSUME OneAdmin, WorkersInv, NEW t \in Admin, Attach(t)
    PROVE  WorkersInv'
<1>1. pc[t] = "attach" /\ job[t].task = "deploy" /\ There(job[t]) /\ job[t].host \in Domain
  BY AdminHas DEF Attach, AdminAt, DeployInv, Deploying
<1>2. job[t].script \in Script /\ job[t].account \in Account
  BY <1>1 DEF There, Registered, Named
<1>3. /\ dns' = [dns EXCEPT ![job[t].host] = job[t].script]
      /\ Answered(t, "domain") /\ UNCHANGED <<database, remote, devOn, used, doomed, restarts>>
  BY DEF Attach
<1>4. remote \in [Account -> SUBSET Script] /\ devOn \subseteq Script /\ dns \in [Domain -> Script \cup {None}]
  BY DEF WorkersInv, TypeOK
<1>5. "domain" \in Pc \ {"idle", "push", "save"}
  BY DEF Pc
<1>6. job' = job
  BY <1>1, <1>3, <1>5, AdminHas, AnsweredAt DEF Deleting
<1>7. AdminAt("domain", job[t])'
  <2>1. There(job[t])' /\ dns'[job[t].host] = job[t].script
    BY <1>1, <1>3, <1>4, <1>6 DEF There, Registered, Named, database
  <2> QED  BY <1>1, <1>6, <2>1 DEF AdminAt, DeployInv, Deploying, Deleting
<1> QED  BY <1>1, <1>2, <1>3, <1>4, <1>5, <1>7, DeployCall

LEMMA SetWorkersDevKeeps ==
    ASSUME OneAdmin, WorkersInv, NEW t \in Admin, SetWorkersDev(t)
    PROVE  WorkersInv'
<1>1. /\ pc[t] \in {"devOn", "devOff"} /\ job[t].task = "deploy" /\ There(job[t])
      /\ pc[t] = "devOn" => job[t].host = job[t].script
      /\ pc[t] = "devOff" => /\ job[t].host \in Domain /\ dns[job[t].host] = job[t].script
                             /\ row[job[t].ca].domain = job[t].host
  BY AdminHas DEF SetWorkersDev, AdminAt, DeployInv, Deploying
<1>2. job[t].script \in Script /\ job[t].account \in Account
  BY <1>1 DEF There, Registered, Named
<1>3. /\ devOn' = IF pc[t] = "devOn" THEN devOn \cup {job[t].script} ELSE devOn \ {job[t].script}
      /\ Answered(t, "record") /\ UNCHANGED <<database, remote, dns, used, doomed, restarts>>
  BY DEF SetWorkersDev
<1>4. remote \in [Account -> SUBSET Script] /\ devOn' \subseteq Script /\ dns \in [Domain -> Script \cup {None}]
  BY <1>2, <1>3 DEF WorkersInv, TypeOK
<1>5. "record" \in Pc \ {"idle", "push", "save"}
  BY DEF Pc
<1>6. job' = job
  BY <1>1, <1>3, <1>5, AdminHas, AnsweredAt DEF Deleting
<1>7. AdminAt("record", job[t])'
  <2>1. There(job[t])'
    BY <1>1, <1>3, <1>6 DEF There, Registered, Named, database
  <2>2. Serves(job[t].script, job[t].account, job[t].host)'
    BY <1>1, <1>2, <1>3, <1>6 DEF Serves, There
  <2>3. job'[t].host \in Domain => row'[job'[t].ca].domain = job'[t].host
    BY <1>1, <1>2, <1>3, <1>6 DEF database
  <2> QED  BY <1>1, <1>6, <2>1, <2>2, <2>3 DEF AdminAt, DeployInv, Deploying, Deleting
<1>8. \A s \in Script \ {job[t].script} : s \in devOn => s \in devOn'
  BY <1>3
<1> QED  BY <1>1, <1>2, <1>3, <1>4, <1>5, <1>7, <1>8, DeployCall

LEMMA RecordDomainKeeps ==
    ASSUME OneAdmin, WorkersInv, NEW t \in Admin, RecordDomain(t)
    PROVE  WorkersInv'
<1> DEFINE j == job[t]
           r == [row[j.ca] EXCEPT !.domain = j.host]
<1>1. t \in Proc /\ pc \in [Proc -> Pc] /\ job \in [Proc -> Job] /\ pc[t] = "domain"
  BY AdminHas DEF RecordDomain
<1>2. j.task = "deploy" /\ There(j) /\ j.host \in Domain /\ dns[j.host] = j.script
  BY <1>1, AdminHas DEF AdminAt, DeployInv, Deploying
<1>3. /\ Registered(j) /\ Named(j)
      /\ j.ca \in cas /\ j.ca \in Ca /\ j.script \in Script /\ j.account \in Account
      /\ row[j.ca] \in Row /\ row[j.ca].worker = j.script /\ row[j.ca].account = j.account /\ row[j.ca].host = None
  BY <1>2 DEF There, Registered, Named, WorkersInv, TypeOK
<1>4. /\ row' = [row EXCEPT ![j.ca] = r] /\ Goto(t, "devOff")
      /\ UNCHANGED <<cas, creds, certs, cloudflare, used, doomed, job, restarts>>
  BY <1>3 DEF RecordDomain, SetRow
<1>5. r \in Row
  BY <1>2, <1>3 DEF Row
<1>6. r.worker = j.script /\ r.account = j.account /\ r.host = None /\ r.domain = j.host
  BY <1>2, <1>3 DEF Row
<1> HIDE DEF r
<1>7. row'[j.ca] = r /\ \A ca \in Ca : ca # j.ca => row'[ca] = row[ca]
  BY <1>3, <1>4 DEF WorkersInv, TypeOK
<1>8. /\ pc'[t] = "devOff" /\ job' = job
      /\ Moves(t) /\ pc' \in [Proc -> Pc] /\ job' \in [Proc -> Job]
  BY <1>1, <1>4 DEF Goto, Moves, Pc
<1>9. TypeOK'
  BY <1>3, <1>4, <1>5, <1>8 DEF WorkersInv, TypeOK, cloudflare
<1>10. RowsInv'
  <2>1. r.worker # None /\ r.host \notin Domain /\ certs' = certs /\ cas' = cas
    BY <1>3, <1>4, <1>6 DEF Host
  <2> QED  BY <1>3, <1>6, <1>7, <2>1 DEF WorkersInv, RowsInv
<1>11. DistinctInv'
  <2>1. \A ca \in Ca : ca # j.ca => row[ca].worker # j.script /\ row[ca].domain # j.host
    BY <1>3, OthersDiffer
  <2> QED  BY <1>3, <1>6, <1>7, <2>1 DEF WorkersInv, DistinctInv
<1>12. \A ca \in Ca : row'[ca].worker = row[ca].worker /\ row'[ca].account = row[ca].account /\ row'[ca].host = row[ca].host
  BY <1>3, <1>6, <1>7
<1>13. FreshInv'
  BY <1>4, <1>12 DEF WorkersInv, FreshInv, cloudflare
<1>14. HomeInv'
  <2>1. UNCHANGED <<remote, doomed, job>> /\ \A p \in Proc : pc'[p] # "save" => pc[p] # "save"
    BY <1>1, <1>4, <1>8 DEF cloudflare, Moves
  <2> QED  BY <1>12, <2>1, HomeStays
<1>15. ServedInv'
  BY <1>4, <1>12 DEF WorkersInv, TypeOK, ServedInv, Serves, cloudflare
<1>16. RowsSteady /\ \A ca \in Ca : certs'[ca] \subseteq certs[ca]
  BY <1>4, <1>12 DEF RowsSteady
<1>17. AdminAt(pc[t], job[t])'
  <2>1. j.domains \subseteq Domain /\ j.domains \subseteq {row[j.ca].domain}
    BY <1>1, <1>3 DEF Registered, Job
  <2>2. There(job[t])'
    BY <1>2, <1>3, <1>4, <1>6, <1>7, <1>8, <2>1 DEF There, Registered, Named, cloudflare, Host
  <2>3. dns' = dns
    BY <1>4 DEF cloudflare
  <2> QED  BY <1>2, <1>6, <1>7, <1>8, <2>2, <2>3 DEF AdminAt, DeployInv, Deploying, Deleting
<1> QED  BY <1>8, <1>9, <1>10, <1>11, <1>13, <1>14, <1>15, <1>16, <1>17, AdminStep

LEMMA RecordKeeps ==
    ASSUME OneAdmin, WorkersInv, NEW t \in Admin, Record(t)
    PROVE  WorkersInv'
<1> DEFINE j == job[t]
           r == [row[j.ca] EXCEPT !.host = j.host]
<1>1. t \in Proc /\ pc \in [Proc -> Pc] /\ job \in [Proc -> Job] /\ pc[t] = "record"
  BY AdminHas DEF Record
<1>2. /\ j.task = "deploy" /\ There(j) /\ Serves(j.script, j.account, j.host)
      /\ j.host \in Domain => row[j.ca].domain = j.host
  BY <1>1, AdminHas DEF AdminAt, DeployInv, Deploying
<1>3. /\ Registered(j) /\ j.host \in Domain \cup {j.script}
      /\ j.ca \in cas /\ j.ca \in Ca /\ j.script \in Script /\ j.account \in Account
      /\ row[j.ca] \in Row /\ row[j.ca].worker = j.script /\ row[j.ca].account = j.account /\ row[j.ca].host = None
  BY <1>2 DEF There, Registered, Named, WorkersInv, TypeOK
<1>4. /\ row' = [row EXCEPT ![j.ca] = r] /\ Finish(t)
      /\ UNCHANGED <<cas, creds, certs, cloudflare, used, doomed, restarts>>
  BY <1>3 DEF Record, SetRow
<1>5. r \in Row
  BY <1>3 DEF Row, Host
<1>6. r.worker = j.script /\ r.account = j.account /\ r.host = j.host /\ r.domain = row[j.ca].domain
  BY <1>3 DEF Row
<1> HIDE DEF r
<1>7. row'[j.ca] = r /\ \A ca \in Ca : ca # j.ca => row'[ca] = row[ca]
  BY <1>3, <1>4 DEF WorkersInv, TypeOK
<1>8. /\ pc'[t] = "idle" /\ job'[t] = NoJob
      /\ Moves(t) /\ pc' \in [Proc -> Pc] /\ job' \in [Proc -> Job]
  BY <1>1, <1>4, FinishAt
<1>9. TypeOK'
  BY <1>3, <1>4, <1>5, <1>8 DEF WorkersInv, TypeOK, cloudflare
<1>10. RowsInv'
  <2>1. r.worker # None /\ certs' = certs /\ cas' = cas
    BY <1>3, <1>4, <1>6 DEF Host
  <2> QED  BY <1>2, <1>3, <1>6, <1>7, <2>1 DEF WorkersInv, RowsInv
<1>11. \A ca \in Ca : row'[ca].worker = row[ca].worker /\ row'[ca].account = row[ca].account /\ row'[ca].domain = row[ca].domain
  BY <1>3, <1>6, <1>7
<1>12. DistinctInv'
  BY <1>11 DEF WorkersInv, DistinctInv
<1>13. FreshInv'
  <2>1. \A p \in Proc : job'[p].script \in used \cup {None}
    BY <1>8, Drawn DEF Moves, NoJob
  <2> QED  BY <1>4, <1>11, <2>1 DEF WorkersInv, FreshInv, cloudflare, Host
<1>14. HomeInv'
  <2>1. UNCHANGED <<remote, doomed>>
    BY <1>4 DEF cloudflare
  <2>2. \A s \in Script : \A p \in Proc : job'[p].script = s /\ pc'[p] # "save" =>
            job[p].script = s /\ pc[p] # "save" /\ job'[p].account = job[p].account
    BY <1>8 DEF Moves, NoJob, Host
  <2> QED  BY <1>11, <2>1, <2>2, HomeStays
<1>15. ServedInv'
  <2> SUFFICES ASSUME NEW ca \in cas, row'[ca].host # None, row[ca].worker \notin doomed
               PROVE  Serves(row[ca].worker, row[ca].account, row[ca].host)'
    BY <1>4, <1>11 DEF ServedInv, WorkersInv, TypeOK
  <2>1. ca \in Ca
    BY DEF WorkersInv, TypeOK
  <2>2. CASE ca = j.ca
    BY <1>2, <1>3, <1>4, <1>6, <1>7, <2>2 DEF Serves, cloudflare
  <2>3. CASE ca # j.ca
    BY <1>4, <1>7, <2>1, <2>3 DEF WorkersInv, ServedInv, Serves, cloudflare
  <2> QED  BY <2>2, <2>3
<1>16. RowsSteady /\ \A ca \in Ca : certs'[ca] \subseteq certs[ca]
  BY <1>3, <1>4, <1>7 DEF RowsSteady
<1>17. AdminAt(pc[t], job[t])'
  BY <1>8, AtIdle
<1> QED  BY <1>8, <1>9, <1>10, <1>12, <1>13, <1>14, <1>15, <1>16, <1>17, AdminStep

-------------------------------------------------------------------------------
(* Deleting *)

\* No address of a certificate that counts is among what is being deleted.
LEMMA DeletesElsewhere ==
    ASSUME WorkersInv, NEW t \in Admin, pc[t] \in Deleting, NEW ca \in cas,
           row[ca].host # None, row[ca].worker \notin doomed
    PROVE  /\ ~(row[ca].worker = job[t].script /\ row[ca].account = job[t].account)
           /\ row[ca].host \notin job[t].domains
<1> DEFINE j == job[t]
<1>1. j \in Job /\ AdminAt(pc[t], j) /\ ca \in Ca
  BY AdminHas DEF WorkersInv, TypeOK
<1>2. row[ca].host \in Domain => row[ca].domain = row[ca].host
  BY <1>1 DEF WorkersInv, RowsInv
<1>3. CASE j.task = "deploy"
  <2>1. Registered(j)
    BY <1>1, <1>3 DEF AdminAt, DeployInv, Deleting
  <2>2. ca # j.ca /\ row[ca].worker # j.script
    BY <2>1, ServedElsewhere
  <2>3. j.ca \in Ca /\ j.domains \subseteq {row[j.ca].domain} /\ j.domains \subseteq Domain
    BY <1>1, <2>1 DEF Registered, Named, WorkersInv, TypeOK, Job
  <2>4. row[ca].domain = row[j.ca].domain => row[ca].domain = None
    BY <1>1, <2>2, <2>3 DEF WorkersInv, DistinctInv
  <2> QED  BY <1>2, <2>2, <2>3, <2>4
<1>4. CASE j.task = "teardown"
  <2>1. TeardownInv(j)
    BY <1>1, <1>4 DEF AdminAt, Deleting
  <2>2. ca # j.ca /\ row[ca].worker # j.script
    BY <2>1 DEF TeardownInv
  <2>3. j.ca \in Ca /\ j.domains \subseteq {row[j.ca].domain} /\ j.domains \subseteq Domain
    BY <1>1, <2>1 DEF TeardownInv, WorkersInv, TypeOK, Job
  <2>4. row[ca].domain = row[j.ca].domain => row[ca].domain = None
    BY <1>1, <2>2, <2>3 DEF WorkersInv, DistinctInv
  <2> QED  BY <1>2, <2>2, <2>3, <2>4
<1>5. CASE j.task = "unlinked"
  BY <1>1, <1>5 DEF AdminAt, Deleting, UnlinkedInv
<1> QED  BY <1>1, <1>3, <1>4, <1>5 DEF AdminAt, Job

\* A step that detaches or deletes.
LEMMA DeleteCall ==
    ASSUME OneAdmin, WorkersInv, NEW t \in Admin, pc[t] \in Deleting, Moves(t),
           UNCHANGED <<database, devOn, used, doomed, restarts>>,
           pc' \in [Proc -> Pc], job' \in [Proc -> Job],
           \/ pc'[t] = "idle" /\ job'[t] = NoJob
           \/ job'[t].script = job[t].script /\ job'[t].account = job[t].account /\ pc'[t] # "idle",
           remote' \in [Account -> SUBSET Script], dns' \in [Domain -> Script \cup {None}],
           \A a \in Account : /\ remote'[a] \subseteq remote[a] /\ remote[a] \ {job[t].script} \subseteq remote'[a]
                              /\ a # job[t].account => remote'[a] = remote[a],
           \A d \in Domain \ job[t].domains : dns'[d] = dns[d],
           AdminAt(pc[t], job[t])'
    PROVE  WorkersInv'
<1>1. TypeOK'
  BY DEF WorkersInv, TypeOK, database
<1>2. RowsInv' /\ DistinctInv' /\ RowsSteady /\ \A ca \in Ca : certs'[ca] \subseteq certs[ca]
  BY DEF WorkersInv, RowsInv, DistinctInv, RowsSteady, database
<1>3. t \in Proc /\ pc[t] # "save"
  BY AdminHas DEF Deleting
<1>4. FreshInv'
  <2>1. \A p \in Proc : job'[p].script \in used \cup {None}
    BY <1>3, Drawn DEF Moves, NoJob
  <2> QED  BY <2>1 DEF WorkersInv, FreshInv, database, Host
<1>5. HomeInv'
  <2>1. \A s \in Script : \A p \in Proc : job'[p].script = s /\ pc'[p] # "save" =>
            job[p].script = s /\ pc[p] # "save" /\ job'[p].account = job[p].account
    BY <1>3 DEF Moves, NoJob, Host
  <2> QED  BY <2>1, HomeStays DEF database
<1>6. ServedInv'
  <2> SUFFICES ASSUME NEW ca \in cas, row[ca].host # None, row[ca].worker \notin doomed
               PROVE  Serves(row[ca].worker, row[ca].account, row[ca].host)'
    BY DEF ServedInv, database
  <2>1. /\ ~(row[ca].worker = job[t].script /\ row[ca].account = job[t].account)
        /\ row[ca].host \notin job[t].domains
    BY DeletesElsewhere
  <2>2. /\ Serves(row[ca].worker, row[ca].account, row[ca].host) /\ ca \in Ca
        /\ row[ca].worker \in Script /\ row[ca].account \in Account
        /\ row[ca].host \in Domain \cup {row[ca].worker}
    BY DEF WorkersInv, ServedInv, TypeOK, Row, RowsInv, NoRow
  <2> QED  BY <2>1, <2>2 DEF Serves, database
<1>7. pc'[t] = "idle" => job'[t] = NoJob
  OBVIOUS
<1> QED  BY <1>1, <1>2, <1>4, <1>5, <1>6, <1>7, AdminStep

\* What deleting leaves true of the job.
LEMMA StillDeleting ==
    ASSUME WorkersInv, NEW t \in Admin, pc[t] \in Deleting, UNCHANGED <<database, doomed>>,
           job'[t].ca = job[t].ca, job'[t].script = job[t].script, job'[t].account = job[t].account,
           job'[t].host = job[t].host, job'[t].task = job[t].task, job'[t].domains \subseteq job[t].domains,
           \/ pc'[t] \in Deleting
           \/ pc'[t] = "clear" /\ job[t].task # "unlinked"
    PROVE  AdminAt(pc[t], job[t])'
<1>1. AdminAt(pc[t], job[t]) /\ job[t] \in Job /\ job[t].task # "none"
  BY AdminHas DEF AdminAt
<1>2. CASE job[t].task = "deploy"
  <2>1. Registered(job[t])
    BY <1>1, <1>2 DEF AdminAt, DeployInv, Deleting
  <2>2. Registered(job[t])'
    BY <2>1 DEF Registered, Named, database
  <2> QED  BY <1>2, <2>2 DEF AdminAt, DeployInv, Deploying, Deleting
<1>3. CASE job[t].task = "teardown"
  <2>1. TeardownInv(job[t])
    BY <1>1, <1>3 DEF AdminAt, Deleting
  <2>2. TeardownInv(job[t])'
    BY <2>1 DEF TeardownInv, database
  <2> QED  BY <1>3, <2>2 DEF AdminAt, Deploying, Deleting
<1>4. CASE job[t].task = "unlinked"
  <2>1. UnlinkedInv(job[t])
    BY <1>1, <1>4 DEF AdminAt, Deleting
  <2>2. UnlinkedInv(job[t])'
    BY <2>1 DEF UnlinkedInv, database
  <2> QED  BY <1>4, <2>2 DEF AdminAt, Deploying, Deleting
<1> QED  BY <1>1, <1>2, <1>3, <1>4 DEF Job

\* Giving up a deletion forgets the Worker, or returns.
LEMMA DeleteGivesUp ==
    ASSUME WorkersInv, NEW t \in Admin, pc[t] \in Deleting, GiveUp(t), UNCHANGED <<database, doomed>>
    PROVE  /\ Moves(t) /\ pc' \in [Proc -> Pc] /\ job' \in [Proc -> Job]
           /\ \/ pc'[t] = "idle" /\ job'[t] = NoJob
              \/ job'[t].script = job[t].script /\ job'[t].account = job[t].account /\ pc'[t] # "idle"
           /\ AdminAt(pc[t], job[t])'
<1>1. /\ Moves(t) /\ pc' \in [Proc -> Pc] /\ job' \in [Proc -> Job]
      /\ \/ pc'[t] = "idle" /\ job'[t] = NoJob
         \/ job'[t] = job[t] /\ job[t].task = "deploy" /\ pc'[t] = "clear"
  BY AdminHas, GiveUpAt
<1>2. CASE pc'[t] = "idle" /\ job'[t] = NoJob
  <2>1. AdminAt(pc[t], job[t])'
    BY <1>2, AtIdle
  <2> QED  BY <1>1, <1>2, <2>1
<1>3. CASE job'[t] = job[t] /\ job[t].task = "deploy" /\ pc'[t] = "clear"
  <2>1. AdminAt(pc[t], job[t])'
    BY <1>3, StillDeleting
  <2> QED  BY <1>1, <1>3, <2>1
<1> QED  BY <1>1, <1>2, <1>3

LEMMA DetachKeeps ==
    ASSUME OneAdmin, WorkersInv, NEW t \in Admin, NEW d \in Domain, Detach(t, d)
    PROVE  WorkersInv'
<1>1. t \in Proc /\ pc \in [Proc -> Pc] /\ job \in [Proc -> Job] /\ pc[t] \in Deleting
  BY AdminHas DEF Detach, Deleting
<1>2. /\ d \in job[t].domains /\ dns' = [dns EXCEPT ![d] = None]
      /\ UNCHANGED <<database, remote, devOn, used, doomed, restarts>>
  BY DEF Detach
<1>3. /\ Moves(t) /\ pc' \in [Proc -> Pc] /\ job' \in [Proc -> Job]
      /\ \/ pc'[t] = "idle" /\ job'[t] = NoJob
         \/ job'[t].script = job[t].script /\ job'[t].account = job[t].account /\ pc'[t] # "idle"
      /\ AdminAt(pc[t], job[t])'
  <2>1. CASE GiveUp(t)
    BY <1>1, <1>2, <2>1, DeleteGivesUp
  <2>2. CASE /\ job' = [job EXCEPT ![t].domains = @ \ {d}]
             /\ Goto(t, Removing(job[t].domains \ {d}))
    <3>1. PICK left : left = job[t].domains \ {d}
      OBVIOUS
    <3>2. left \subseteq Domain /\ job[t] \in Job
      BY <1>1, <3>1 DEF Job
    <3>3. job' = [job EXCEPT ![t].domains = left]
      BY <2>2, <3>1
    <3>4. job'[t] = [job[t] EXCEPT !.domains = left] /\ \A p \in Proc \ {t} : job'[p] = job[p]
      BY <1>1, <3>3
    <3>5. [job[t] EXCEPT !.domains = left] \in Job
      BY <3>2 DEF Job
    <3>6. job' \in [Proc -> Job]
      BY <1>1, <3>3, <3>5
    <3>7. /\ job'[t].ca = job[t].ca /\ job'[t].script = job[t].script /\ job'[t].account = job[t].account
          /\ job'[t].host = job[t].host /\ job'[t].task = job[t].task /\ job'[t].domains = left
      BY <3>2, <3>4 DEF Job
    <3>8. Removing(left) \in Deleting /\ Deleting \subseteq Pc
      BY DEF Removing, Deleting, Pc
    <3>9. /\ pc' \in [Proc -> Pc] /\ pc'[t] \in Deleting
          /\ \A p \in Proc \ {t} : pc'[p] = pc[p]
      BY <1>1, <2>2, <3>1, <3>8 DEF Goto
    <3>10. AdminAt(pc[t], job[t])'
      BY <1>1, <1>2, <3>1, <3>7, <3>9, StillDeleting
    <3> QED  BY <3>4, <3>6, <3>7, <3>9, <3>10 DEF Moves, Deleting
  <2> QED  BY <2>1, <2>2 DEF Detach
<1>4. dns' \in [Domain -> Script \cup {None}] /\ \A e \in Domain \ job[t].domains : dns'[e] = dns[e]
  BY <1>2 DEF WorkersInv, TypeOK
<1>5. remote' \in [Account -> SUBSET Script] /\ remote' = remote
  BY <1>2 DEF WorkersInv, TypeOK
<1> QED  BY <1>1, <1>2, <1>3, <1>4, <1>5, DeleteCall

LEMMA DeleteKeeps ==
    ASSUME OneAdmin, WorkersInv, NEW t \in Admin, Delete(t)
    PROVE  WorkersInv'
<1>1. t \in Proc /\ pc \in [Proc -> Pc] /\ job \in [Proc -> Job] /\ pc[t] \in Deleting /\ job[t].task # "none"
  BY AdminHas DEF Delete, Deleting, AdminAt
<1>2. /\ remote' = [remote EXCEPT ![job[t].account] = @ \ {job[t].script}]
      /\ UNCHANGED <<database, devOn, dns, used, doomed, restarts>>
  BY DEF Delete
<1>3. /\ Moves(t) /\ pc' \in [Proc -> Pc] /\ job' \in [Proc -> Job]
      /\ \/ pc'[t] = "idle" /\ job'[t] = NoJob
         \/ job'[t].script = job[t].script /\ job'[t].account = job[t].account /\ pc'[t] # "idle"
      /\ AdminAt(pc[t], job[t])'
  <2>1. CASE GiveUp(t)
    BY <1>1, <1>2, <2>1, DeleteGivesUp
  <2>2. CASE job[t].task = "unlinked" /\ Finish(t)
    <3>1. /\ Moves(t) /\ pc' \in [Proc -> Pc] /\ job' \in [Proc -> Job]
          /\ pc'[t] = "idle" /\ job'[t] = NoJob
      BY <1>1, <2>2, FinishAt
    <3>2. AdminAt(pc[t], job[t])'
      BY <3>1, AtIdle
    <3> QED  BY <3>1, <3>2
  <2>3. CASE job[t].task # "unlinked" /\ Goto(t, "clear") /\ UNCHANGED job
    <3>1. "clear" \in Pc
      BY DEF Pc
    <3>2. pc' \in [Proc -> Pc] /\ pc'[t] = "clear" /\ \A p \in Proc \ {t} : pc'[p] = pc[p]
      BY <1>1, <2>3, <3>1, GotoAt
    <3>3. AdminAt(pc[t], job[t])'
      BY <1>1, <1>2, <2>3, <3>2, StillDeleting
    <3> QED  BY <1>1, <2>3, <3>2, <3>3 DEF Moves
  <2> QED  BY <2>1, <2>2, <2>3 DEF Delete
<1>4. remote \in [Account -> SUBSET Script] /\ dns' \in [Domain -> Script \cup {None}]
  BY <1>2 DEF WorkersInv, TypeOK
<1>5. /\ remote' \in [Account -> SUBSET Script]
      /\ \A a \in Account : /\ remote'[a] \subseteq remote[a] /\ remote[a] \ {job[t].script} \subseteq remote'[a]
                            /\ a # job[t].account => remote'[a] = remote[a]
  BY <1>2, <1>4
<1> QED  BY <1>1, <1>2, <1>3, <1>4, <1>5, DeleteCall

LEMMA ClearKeeps ==
    ASSUME OneAdmin, WorkersInv, NEW t \in Admin, Clear(t)
    PROVE  WorkersInv'
<1> DEFINE j == job[t]
<1>1. t \in Proc /\ pc \in [Proc -> Pc] /\ job \in [Proc -> Job] /\ pc[t] = "clear"
  BY AdminHas DEF Clear
<1>2. \/ j.task = "deploy" /\ Registered(j)
      \/ j.task = "teardown" /\ TeardownInv(j)
  BY <1>1, AdminHas DEF AdminAt, DeployInv
<1>3. j.ca \in cas /\ j.ca \in Ca /\ (row[j.ca].host = None \/ row[j.ca].worker \in doomed)
  BY <1>2 DEF Registered, Named, TeardownInv, WorkersInv, TypeOK
<1>4. /\ row' = [row EXCEPT ![j.ca] = NoRow] /\ Finish(t)
      /\ UNCHANGED <<cas, creds, certs, cloudflare, used, doomed, restarts>>
  BY <1>3 DEF Clear, SetRow
<1>5. row'[j.ca] = NoRow /\ \A ca \in Ca : ca # j.ca => row'[ca] = row[ca]
  BY <1>3, <1>4 DEF WorkersInv, TypeOK
<1>6. NoRow \in Row /\ NoRow.worker = None /\ NoRow.host = None /\ NoRow.domain = None
  BY DEF NoRow, Row
<1>7. /\ pc'[t] = "idle" /\ job'[t] = NoJob
      /\ Moves(t) /\ pc' \in [Proc -> Pc] /\ job' \in [Proc -> Job]
  BY <1>1, <1>4, FinishAt
<1>8. TypeOK'
  BY <1>4, <1>6, <1>7 DEF WorkersInv, TypeOK, cloudflare
<1>9. None \notin Domain /\ None \notin Script
  BY DEF Host
<1>10. RowsInv'
  BY <1>3, <1>4, <1>5, <1>6, <1>9 DEF WorkersInv, RowsInv
<1>11. DistinctInv'
  BY <1>5, <1>6 DEF WorkersInv, DistinctInv
<1>12. FreshInv'
  <2>1. \A p \in Proc : job'[p].script \in used \cup {None}
    BY <1>7, Drawn DEF Moves, NoJob
  <2> QED  BY <1>4, <1>5, <1>6, <1>9, <2>1 DEF WorkersInv, FreshInv, cloudflare
<1>13. HomeInv'
  <2>1. UNCHANGED <<remote, doomed>>
    BY <1>4 DEF cloudflare
  <2>2. \A s \in Script : \A p \in Proc : job'[p].script = s /\ pc'[p] # "save" =>
            job[p].script = s /\ pc[p] # "save" /\ job'[p].account = job[p].account
    BY <1>7 DEF Moves, NoJob, Host
  <2>3. \A s \in Script : \A ca \in Ca : row'[ca].worker = s =>
            row[ca].worker = s /\ row'[ca].account = row[ca].account
    BY <1>5, <1>6, <1>9
  <2> QED  BY <2>1, <2>2, <2>3, HomeStays
<1>14. ServedInv'
  BY <1>4, <1>5, <1>6 DEF WorkersInv, TypeOK, ServedInv, Serves, cloudflare
<1>15. RowsSteady /\ \A ca \in Ca : certs'[ca] \subseteq certs[ca]
  BY <1>3, <1>4, <1>5 DEF RowsSteady
<1>16. AdminAt(pc[t], job[t])'
  BY <1>7, AtIdle
<1> QED  BY <1>7, <1>8, <1>10, <1>11, <1>12, <1>13, <1>14, <1>15, <1>16, AdminStep

LEMMA TeardownKeeps ==
    ASSUME OneAdmin, WorkersInv, NEW t \in Admin, NEW ca \in Ca, Teardown(t, ca)
    PROVE  WorkersInv'
<1>1. t \in Proc /\ pc \in [Proc -> Pc] /\ job \in [Proc -> Job] /\ pc[t] = "idle"
  BY AdminHas DEF Teardown
<1>2. PICK attached : attached = {row[ca].domain} \ {None}
  OBVIOUS
<1>3. /\ job' = [job EXCEPT ![t] = [NoJob EXCEPT !.ca = ca, !.script = row[ca].worker,
                         !.account = creds, !.domains = attached, !.task = "teardown"]]
      /\ Goto(t, Removing(attached)) /\ doomed' = doomed \cup {row[ca].worker}
      /\ UNCHANGED <<database, cloudflare, used, restarts>>
  BY <1>2 DEF Teardown
<1>4. /\ ca \in cas /\ row[ca] \in Row /\ row[ca].account = creds /\ row[ca].worker # None
      /\ row[ca].worker \in Script /\ creds \in Account /\ attached \subseteq Domain /\ attached \subseteq {row[ca].domain}
  BY <1>2 DEF Teardown, Deployed, WorkersInv, TypeOK, RowsInv, Row
<1>5. Removing(attached) \in Deleting
  BY DEF Removing, Deleting
<1>6. /\ pc'[t] \in Deleting
      /\ job'[t] = [NoJob EXCEPT !.ca = ca, !.script = row[ca].worker,
                         !.account = creds, !.domains = attached, !.task = "teardown"]
      /\ Moves(t) /\ pc' \in [Proc -> Pc] /\ job' \in [Proc -> Job]
  BY <1>1, <1>3, <1>4, <1>5 DEF Goto, Moves, Pc, Job, NoJob, Deleting
<1>7. /\ job'[t].ca = ca /\ job'[t].script = row[ca].worker /\ job'[t].account = creds
      /\ job'[t].domains = attached /\ job'[t].task = "teardown"
  BY <1>6 DEF NoJob
<1>8. TypeOK'
  BY <1>3, <1>4, <1>6 DEF WorkersInv, TypeOK, database, cloudflare
<1>9. RowsInv' /\ DistinctInv' /\ ServedInv' /\ RowsSteady /\ \A c \in Ca : certs'[c] \subseteq certs[c]
  BY <1>3 DEF WorkersInv, RowsInv, DistinctInv, ServedInv, Serves, RowsSteady, database, cloudflare
<1>10. row[ca].worker \in used
  BY <1>4, Drawn
<1>11. FreshInv'
  <2>1. \A p \in Proc : job'[p].script \in used \cup {None}
    BY <1>6, <1>7, <1>10, Drawn DEF Moves
  <2> QED  BY <1>3, <1>10, <2>1 DEF WorkersInv, FreshInv, database, cloudflare, Host
<1>12. HomeInv'
  <2>1. UNCHANGED <<row, remote>> /\ doomed \subseteq doomed'
    BY <1>3 DEF database, cloudflare
  <2>2. \A s \in Script : \A p \in Proc :
            job'[p].script = s /\ pc'[p] # "save" =>
                   \/ job[p].script = s /\ pc[p] # "save" /\ job'[p].account = job[p].account
                   \/ \E c \in Ca : row[c].worker = s /\ job'[p].account = row[c].account
    <3>1. row[ca].worker = job'[t].script /\ job'[t].account = row[ca].account
      BY <1>4, <1>7
    <3>2. \A p \in Proc \ {t} : job'[p] = job[p] /\ pc'[p] = pc[p]
      BY <1>6 DEF Moves
    <3> QED  BY <3>1, <3>2
  <2> QED  BY <2>1, <2>2, HomeStays
<1>13. AdminAt(pc[t], job[t])'
  <2>1. TeardownInv(job[t])'
    BY <1>3, <1>4, <1>7 DEF TeardownInv, database
  <2> QED  BY <1>6, <1>7, <2>1 DEF AdminAt, Deploying, Deleting
<1>14. pc'[t] # "idle"
  BY <1>6 DEF Deleting
<1> QED  BY <1>6, <1>8, <1>9, <1>11, <1>12, <1>13, <1>14, AdminStep

-------------------------------------------------------------------------------
(* The account, and deleting a CA *)

LEMMA ConnectKeeps ==
    ASSUME OneAdmin, WorkersInv, NEW t \in Admin, Connect(t) \/ Disconnect(t)
    PROVE  WorkersInv'
<1>1. t \in Proc /\ job[t] \in Job
  BY AdminHas
<1>2. /\ creds' \in Account \cup {None} /\ Finish(t)
      /\ UNCHANGED <<cas, row, certs, cloudflare, used, doomed, restarts>>
  BY AdminHas DEF Connect, Disconnect, AdminAt
<1>3. /\ pc'[t] = "idle" /\ job'[t] = NoJob
      /\ Moves(t) /\ pc' \in [Proc -> Pc] /\ job' \in [Proc -> Job]
  BY <1>1, <1>2, FinishAt
<1>4. TypeOK'
  BY <1>2, <1>3 DEF WorkersInv, TypeOK, cloudflare
<1>5. RowsInv' /\ DistinctInv' /\ ServedInv' /\ RowsSteady /\ \A ca \in Ca : certs'[ca] \subseteq certs[ca]
  BY <1>2 DEF WorkersInv, RowsInv, DistinctInv, ServedInv, Serves, RowsSteady, cloudflare
<1>6. FreshInv'
  <2>1. \A p \in Proc : job'[p].script \in used \cup {None}
    BY <1>3, Drawn DEF Moves, NoJob
  <2> QED  BY <1>2, <2>1 DEF WorkersInv, FreshInv, cloudflare, Host
<1>7. HomeInv'
  <2>1. \A s \in Script : \A p \in Proc : job'[p].script = s /\ pc'[p] # "save" =>
            job[p].script = s /\ pc[p] # "save" /\ job'[p].account = job[p].account
    BY <1>3 DEF Moves, NoJob, Host
  <2> QED  BY <1>2, <2>1, HomeStays DEF cloudflare
<1>8. AdminAt(pc[t], job[t])'
  BY <1>3, AtIdle
<1> QED  BY <1>3, <1>4, <1>5, <1>6, <1>7, <1>8, AdminStep

LEMMA DeleteCaKeeps ==
    ASSUME OneAdmin, WorkersInv, NEW t \in Admin, DeleteCa(t)
    PROVE  WorkersInv'
<1> DEFINE j == job[t]
<1>1. t \in Proc /\ pc[t] = "deleteCa" /\ j.ca \in Ca /\ row[j.ca] = NoRow
  BY AdminHas DEF DeleteCa, AdminAt
<1>2. /\ cas' = cas \ {j.ca} /\ row' = [row EXCEPT ![j.ca] = NoRow] /\ certs' = [certs EXCEPT ![j.ca] = {}]
      /\ Finish(t) /\ UNCHANGED <<creds, cloudflare, used, doomed, restarts>>
  BY DEF DeleteCa
<1>3. row' = row /\ certs'[j.ca] = {} /\ \A ca \in Ca : ca # j.ca => certs'[ca] = certs[ca]
  BY <1>1, <1>2 DEF WorkersInv, TypeOK
<1>4. /\ pc'[t] = "idle" /\ job'[t] = NoJob
      /\ Moves(t) /\ pc' \in [Proc -> Pc] /\ job' \in [Proc -> Job]
  BY <1>1, <1>2, FinishAt
<1>5. TypeOK'
  BY <1>1, <1>2, <1>3, <1>4 DEF WorkersInv, TypeOK, cloudflare
<1>6. RowsInv'
  <2>1. row[j.ca].worker = None /\ row[j.ca].host = None /\ None \notin Domain
    BY <1>1 DEF NoRow, Host
  <2> QED  BY <1>1, <1>2, <1>3, <2>1 DEF WorkersInv, RowsInv
<1>7. DistinctInv' /\ ServedInv' /\ RowsSteady
  BY <1>2, <1>3 DEF WorkersInv, DistinctInv, ServedInv, Serves, RowsSteady, cloudflare
<1>8. \A ca \in Ca : certs'[ca] \subseteq certs[ca]
  BY <1>3
<1>9. FreshInv'
  <2>1. \A p \in Proc : job'[p].script \in used \cup {None}
    BY <1>4, Drawn DEF Moves, NoJob
  <2> QED  BY <1>2, <1>3, <2>1 DEF WorkersInv, FreshInv, cloudflare, Host
<1>10. HomeInv'
  <2>1. \A s \in Script : \A p \in Proc : job'[p].script = s /\ pc'[p] # "save" =>
            job[p].script = s /\ pc[p] # "save" /\ job'[p].account = job[p].account
    BY <1>4 DEF Moves, NoJob, Host
  <2> QED  BY <1>2, <1>3, <2>1, HomeStays DEF cloudflare
<1>11. AdminAt(pc[t], job[t])'
  BY <1>4, AtIdle
<1> QED  BY <1>4, <1>5, <1>6, <1>7, <1>8, <1>9, <1>10, <1>11, AdminStep

-------------------------------------------------------------------------------
(* Publishers and restarts *)

\* The admin does not mind what publishers do: they change no row, and take no
\* Worker away.
LEMMA AdminStays ==
    ASSUME WorkersInv, NEW p \in Publisher, Moves(p), UNCHANGED <<cas, row, creds, devOn, dns, doomed>>,
           \A a \in Account : remote[a] \subseteq remote'[a]
    PROVE  AdminInv'
<1> SUFFICES ASSUME NEW t \in Admin
             PROVE  AdminAt(pc[t], job[t])'
  BY DEF AdminInv
<1>1. AdminAt(pc[t], job[t]) /\ pc'[t] = pc[t] /\ job'[t] = job[t]
  BY AdminHas DEF Moves
<1>2. Named(job[t]) => Named(job[t])'
  BY <1>1 DEF Named
<1>3. Registered(job[t]) => Registered(job[t])'
  BY <1>1, <1>2 DEF Registered
<1>4. There(job[t]) => There(job[t])'
  <2>1. Registered(job[t]) => job[t].account \in Account
    BY DEF Registered, Named
  <2> QED  BY <1>1, <1>3, <2>1 DEF There
<1>5. There(job[t]) /\ Serves(job[t].script, job[t].account, job[t].host) =>
          Serves(job[t].script, job[t].account, job[t].host)'
  <2>1. There(job[t]) => job[t].account \in Account
    BY DEF There, Registered, Named
  <2> QED  BY <1>1, <2>1 DEF Serves
<1>6. DeployInv(pc[t], job[t]) => DeployInv(pc[t], job[t])'
  BY <1>1, <1>2, <1>3, <1>4, <1>5 DEF DeployInv
<1>7. TeardownInv(job[t]) => TeardownInv(job[t])'
  BY <1>1 DEF TeardownInv
<1>8. UnlinkedInv(job[t]) => UnlinkedInv(job[t])'
  BY <1>1 DEF UnlinkedInv
<1> QED  BY <1>1, <1>6, <1>7, <1>8 DEF AdminAt, Deployed

\* A step of a publisher: what is left to show.
LEMMA PublisherStep ==
    ASSUME WorkersInv, NEW p \in Publisher, Moves(p),
           UNCHANGED <<cas, row, creds, devOn, dns, used, doomed, restarts>>,
           pc' \in [Proc -> Pc], job' \in [Proc -> Job],
           remote' \in [Account -> SUBSET Script], certs' \in [Ca -> SUBSET (Script \X Host)],
           \A a \in Account : /\ remote[a] \subseteq remote'[a]
                              /\ \A s \in remote'[a] : s \in remote[a] \/ (job[p].script = s /\ pc[p] # "save" /\ job[p].account = a),
           \A ca \in Ca : ca \notin cas => certs'[ca] = {},
           CertsInv',
           \/ pc'[p] = "idle" /\ job'[p] = NoJob
           \/ /\ pc'[p] = "push" /\ job'[p].script \in Script /\ job'[p].account \in Account
              /\ \E ca \in Ca : row[ca].worker = job'[p].script /\ job'[p].account = row[ca].account
           \/ /\ pc'[p] = "save" /\ job'[p].ca \in Ca /\ job'[p].script \in Script /\ job'[p].host \in Host
              /\ row[job'[p].ca].worker = job'[p].script /\ row[job'[p].ca].host = job'[p].host
    PROVE  WorkersInv'
<1>1. TypeOK'
  BY DEF WorkersInv, TypeOK
<1>2. RowsInv' /\ DistinctInv' /\ RowsSteady
  BY DEF WorkersInv, RowsInv, DistinctInv, RowsSteady
<1>3. p \in Proc
  BY DEF Proc
<1>4. FreshInv'
  <2>1. job'[p].script \in used \cup {None}
    BY Drawn DEF NoJob
  <2>2. \A q \in Proc : job'[q].script \in used \cup {None}
    BY <2>1, Drawn DEF Moves
  <2>3. \A a \in Account : remote'[a] \subseteq used
    <3> SUFFICES ASSUME NEW a \in Account, NEW s \in remote'[a] PROVE s \in used
      OBVIOUS
    <3>1. s \in Script
      OBVIOUS
    <3> QED  BY <1>3, <3>1, Drawn DEF Host
  <2> QED  BY <2>2, <2>3 DEF WorkersInv, FreshInv, Host
<1>5. HomeInv'
  <2>1. \A q \in Proc \ {p} : job'[q] = job[q] /\ pc'[q] = pc[q]
    BY DEF Moves
  <2>2. \A s \in Script : job'[p].script = s /\ pc'[p] # "save" =>
            \E ca \in Ca : row[ca].worker = s /\ job'[p].account = row[ca].account
    BY DEF NoJob, Host
  <2>3. \A s \in Script : \A q \in Proc : job'[q].script = s /\ pc'[q] # "save" =>
            \/ job[q].script = s /\ pc[q] # "save" /\ job'[q].account = job[q].account
            \/ \E ca \in Ca : row[ca].worker = s /\ job'[q].account = row[ca].account
    BY <2>1, <2>2
  <2>4. \A s \in Script : \A b \in Account :
               s \in remote'[b] => s \in remote[b] \/ \E q \in Proc : job[q].script = s /\ pc[q] # "save" /\ job[q].account = b
    BY <1>3
  <2> QED  BY <2>3, <2>4, HomeStays
<1>6. ServedInv'
  <2> SUFFICES ASSUME NEW ca \in cas, row[ca].host # None, row[ca].worker \notin doomed
               PROVE  Serves(row[ca].worker, row[ca].account, row[ca].host)'
    BY DEF ServedInv
  <2>1. /\ Serves(row[ca].worker, row[ca].account, row[ca].host)
        /\ row[ca].account \in Account
    BY DEF WorkersInv, ServedInv, TypeOK, RowsInv, NoRow
  <2> QED  BY <2>1 DEF Serves
<1>7. IdleInv'
  BY DEF WorkersInv, IdleInv, Moves
<1>8. PublisherInv'
  <2>1. pc'[p] = "save" => OnRow(job[p].ca, job[p].script, job[p].host)'
    BY DEF OnRow
  <2>2. /\ pc'[p] \in {"idle", "push", "save"}
        /\ pc'[p] = "push" => job'[p].script \in Script /\ job'[p].account \in Account
        /\ pc'[p] = "save" => job'[p].ca \in Ca /\ job'[p].script \in Script /\ job'[p].host \in Host
    OBVIOUS
  <2>3. \A q \in Publisher \ {p} :
               /\ pc'[q] \in {"idle", "push", "save"}
               /\ pc'[q] = "push" => job'[q].script \in Script /\ job'[q].account \in Account
               /\ pc'[q] = "save" => /\ job'[q].ca \in Ca /\ job'[q].script \in Script /\ job'[q].host \in Host
                                     /\ OnRow(job[q].ca, job[q].script, job[q].host)'
    BY <1>2, <1>3, PublishersStay DEF WorkersInv
  <2> QED  BY <2>1, <2>2, <2>3 DEF PublisherInv
<1>9. AdminInv'
  BY AdminStays
<1> QED  BY <1>1, <1>2, <1>4, <1>5, <1>6, <1>7, <1>8, <1>9 DEF WorkersInv

\* Certificates that were not changed name what they did.
LEMMA CertsStay ==
    ASSUME WorkersInv, UNCHANGED <<cas, row, doomed, certs>>
    PROVE  CertsInv' /\ \A ca \in Ca : ca \notin cas => certs'[ca] = {}
  BY DEF WorkersInv, CertsInv, OnRow, RowsInv

LEMMA PublisherHas ==
    ASSUME WorkersInv, NEW p \in Publisher
    PROVE  /\ p \in Proc /\ job[p] \in Job
           /\ pc \in [Proc -> Pc] /\ job \in [Proc -> Job]
           /\ remote \in [Account -> SUBSET Script] /\ certs \in [Ca -> SUBSET (Script \X Host)]
           /\ pc[p] = "idle" => job[p] = NoJob
  BY DEF WorkersInv, TypeOK, IdleInv, Proc

LEMMA PushBeginKeeps ==
    ASSUME WorkersInv, NEW p \in Publisher, NEW ca \in Ca, PushBegin(p, ca)
    PROVE  WorkersInv'
<1>1. /\ p \in Proc /\ pc \in [Proc -> Pc] /\ job \in [Proc -> Job] /\ job[p] = NoJob
      /\ remote' \in [Account -> SUBSET Script] /\ certs' \in [Ca -> SUBSET (Script \X Host)]
      /\ UNCHANGED <<cas, row, creds, certs, remote, devOn, dns, used, doomed, restarts>>
  BY PublisherHas DEF PushBegin, database, cloudflare
<1>2. row[ca].worker \in Script /\ creds \in Account /\ row[ca].account = creds
  BY DEF PushBegin, Deployed, WorkersInv, TypeOK, Row, RowsInv
<1>3. /\ pc'[p] = "push" /\ job'[p] = [NoJob EXCEPT !.script = row[ca].worker, !.account = creds]
      /\ Moves(p) /\ pc' \in [Proc -> Pc] /\ job' \in [Proc -> Job]
  BY <1>1, <1>2 DEF PushBegin, Goto, Moves, Pc, Job, NoJob
<1>4. job'[p].script = row[ca].worker /\ job'[p].account = creds
  BY <1>3 DEF NoJob
<1>5. CertsInv' /\ \A c \in Ca : c \notin cas => certs'[c] = {}
  BY <1>1, CertsStay
<1> QED  BY <1>1, <1>2, <1>3, <1>4, <1>5, PublisherStep

LEMMA PushKeeps ==
    ASSUME WorkersInv, NEW p \in Publisher, Push(p)
    PROVE  WorkersInv'
<1>1. /\ p \in Proc /\ remote \in [Account -> SUBSET Script] /\ certs' \in [Ca -> SUBSET (Script \X Host)]
      /\ UNCHANGED <<cas, row, creds, certs, devOn, dns, used, doomed, restarts>> /\ Finish(p)
      /\ remote' = [remote EXCEPT ![job[p].account] = @ \cup {job[p].script}] \/ remote' = remote
  BY PublisherHas DEF Push, database
<1>2. pc[p] = "push" /\ job[p].script \in Script /\ job[p].account \in Account
  BY DEF Push, WorkersInv, PublisherInv
<1>3. /\ pc'[p] = "idle" /\ job'[p] = NoJob
      /\ Moves(p) /\ pc' \in [Proc -> Pc] /\ job' \in [Proc -> Job]
  BY <1>1, FinishAt
<1>4. /\ remote' \in [Account -> SUBSET Script]
      /\ \A a \in Account : /\ remote[a] \subseteq remote'[a]
                            /\ \A s \in remote'[a] : s \in remote[a] \/ (job[p].script = s /\ pc[p] # "save" /\ job[p].account = a)
  BY <1>1, <1>2
<1>5. CertsInv' /\ \A ca \in Ca : ca \notin cas => certs'[ca] = {}
  BY <1>1, CertsStay
<1> QED  BY <1>1, <1>3, <1>4, <1>5, PublisherStep

LEMMA IssueBeginKeeps ==
    ASSUME WorkersInv, NEW p \in Publisher, NEW ca \in Ca, IssueBegin(p, ca)
    PROVE  WorkersInv'
<1>1. /\ p \in Proc /\ pc \in [Proc -> Pc] /\ job \in [Proc -> Job] /\ job[p] = NoJob
      /\ remote' \in [Account -> SUBSET Script] /\ certs' \in [Ca -> SUBSET (Script \X Host)]
      /\ UNCHANGED <<cas, row, creds, certs, remote, devOn, dns, used, doomed, restarts>>
  BY PublisherHas DEF IssueBegin, database, cloudflare
<1>2. row[ca].worker \in Script /\ row[ca].host \in Host
  BY DEF IssueBegin, WorkersInv, TypeOK, Row, RowsInv, NoRow
<1>3. /\ pc'[p] = "save" /\ job'[p] = [NoJob EXCEPT !.ca = ca, !.script = row[ca].worker, !.host = row[ca].host]
      /\ Moves(p) /\ pc' \in [Proc -> Pc] /\ job' \in [Proc -> Job]
  BY <1>1, <1>2 DEF IssueBegin, Goto, Moves, Pc, Job, NoJob
<1>4. job'[p].ca = ca /\ job'[p].script = row[ca].worker /\ job'[p].host = row[ca].host
  BY <1>3 DEF NoJob
<1>5. CertsInv' /\ \A c \in Ca : c \notin cas => certs'[c] = {}
  BY <1>1, CertsStay
<1> QED  BY <1>1, <1>2, <1>3, <1>4, <1>5, PublisherStep

LEMMA SaveCertKeeps ==
    ASSUME WorkersInv, NEW p \in Publisher, SaveCert(p)
    PROVE  WorkersInv'
<1> DEFINE j == job[p]
<1>1. /\ p \in Proc /\ certs \in [Ca -> SUBSET (Script \X Host)] /\ remote' \in [Account -> SUBSET Script]
      /\ UNCHANGED <<cas, row, creds, remote, devOn, dns, used, doomed, restarts>> /\ Finish(p)
      /\ certs' = IF j.ca \in cas THEN [certs EXCEPT ![j.ca] = @ \cup {<<j.script, j.host>>}] ELSE certs
  BY PublisherHas DEF SaveCert, cloudflare
<1>2. j.ca \in Ca /\ j.script \in Script /\ j.host \in Host /\ OnRow(j.ca, j.script, j.host)
  BY DEF SaveCert, WorkersInv, PublisherInv
<1>3. /\ pc'[p] = "idle" /\ job'[p] = NoJob
      /\ Moves(p) /\ pc' \in [Proc -> Pc] /\ job' \in [Proc -> Job]
  BY <1>1, FinishAt
<1>4. certs' \in [Ca -> SUBSET (Script \X Host)]
  BY <1>1, <1>2
<1>5. \A ca \in Ca : ca \notin cas => certs'[ca] = {}
  BY <1>1, <1>2 DEF WorkersInv, RowsInv
<1>6. CertsInv'
  <2> SUFFICES ASSUME NEW ca \in Ca, NEW named \in certs'[ca]
               PROVE  OnRow(ca, named[1], named[2])'
    BY DEF CertsInv
  <2>1. named \in certs[ca] \/ (ca = j.ca /\ named = <<j.script, j.host>>)
    BY <1>1, <1>2
  <2>2. OnRow(ca, named[1], named[2])
    BY <1>2, <2>1 DEF WorkersInv, CertsInv
  <2> QED  BY <1>1, <2>2 DEF OnRow
<1> QED  BY <1>1, <1>3, <1>4, <1>5, <1>6, PublisherStep

LEMMA RestartKeeps ==
    ASSUME WorkersInv, Restart
    PROVE  WorkersInv'
<1>1. /\ pc' = [p \in Proc |-> "idle"] /\ job' = [p \in Proc |-> NoJob] /\ restarts' \in 0..MaxRestarts
      /\ UNCHANGED <<cas, row, creds, certs, remote, devOn, dns, used, doomed>>
  BY RestartAssumption DEF Restart, database, cloudflare, WorkersInv, TypeOK
<1>2. NoJob \in Job /\ NoJob.script = None /\ NoJob.task = "none" /\ "idle" \in Pc
  BY DEF NoJob, Job, Pc
<1>3. TypeOK'
  BY <1>1, <1>2 DEF WorkersInv, TypeOK
<1>4. RowsInv' /\ DistinctInv' /\ ServedInv' /\ CertsInv'
  BY <1>1 DEF WorkersInv, RowsInv, DistinctInv, ServedInv, Serves, CertsInv, OnRow
<1>5. None \notin Script /\ \A p \in Proc : job'[p].script = None
  BY <1>1, <1>2 DEF Host
<1>6. FreshInv' /\ HomeInv'
  BY <1>1, <1>5 DEF WorkersInv, FreshInv, HomeInv, Home
<1>7. IdleInv' /\ PublisherInv'
  BY <1>1 DEF IdleInv, PublisherInv, Proc
<1>8. AdminInv'
  BY <1>1, <1>2 DEF AdminInv, AdminAt, Deploying, Deleting, Proc
<1> QED  BY <1>3, <1>4, <1>6, <1>7, <1>8 DEF WorkersInv

-------------------------------------------------------------------------------
(* The theorems *)

LEMMA WorkersInit == Init => WorkersInv
<1> SUFFICES ASSUME Init PROVE WorkersInv
  OBVIOUS
<1>1. PICK old \in SUBSET Script, ca \in Ca, a \in Account, there \in BOOLEAN :
           /\ Cardinality(old) <= 1
           /\ row = [c \in Ca |-> IF c # ca \/ old = {} THEN NoRow
                                  ELSE [worker |-> CHOOSE s \in old : TRUE, account |-> a,
                                        host |-> CHOOSE s \in old : TRUE, domain |-> None]]
           /\ remote = [b \in Account |-> IF b = a /\ there THEN old ELSE {}]
           /\ used = old /\ doomed = old /\ devOn = old
  BY Zenon DEF Init
<1>2. PICK s : s = CHOOSE r \in old : TRUE
  OBVIOUS
<1>3. old # {} => s \in old
  BY <1>2
<1>4. /\ cas = Ca /\ creds \in Account \cup {None} /\ dns = [d \in Domain |-> None] /\ certs = [c \in Ca |-> {}]
      /\ pc = [p \in Proc |-> "idle"] /\ job = [p \in Proc |-> NoJob] /\ restarts = 0
  BY DEF Init
<1>5. NoJob \in Job /\ NoJob.script = None /\ NoJob.task = "none" /\ "idle" \in Pc
  BY DEF NoJob, Job, Pc
<1>6. None \notin Script /\ None \notin Domain
  BY DEF Host
<1>7. /\ \A c \in Ca : row[c] = NoRow \/ (/\ c = ca /\ old # {} /\ row[c] \in Row
                                          /\ row[c].worker = s /\ row[c].account = a
                                          /\ row[c].host = s /\ row[c].domain = None)
      /\ row = [c \in Ca |-> row[c]]
  BY <1>1, <1>2, <1>3 DEF Row, Host
<1>8. NoRow \in Row /\ NoRow.worker = None /\ NoRow.host = None /\ NoRow.domain = None
  BY DEF NoRow, Row
<1>9. TypeOK
  <2>1. row \in [Ca -> Row]
    BY <1>7, <1>8
  <2> QED  BY <1>1, <1>4, <1>5, <2>1, RestartAssumption DEF TypeOK
<1>10. s \in old => s \in Script
  OBVIOUS
<1>11. RowsInv /\ DistinctInv
  BY <1>3, <1>4, <1>6, <1>7, <1>8, <1>10 DEF RowsInv, DistinctInv
<1>12. FreshInv
  BY <1>1, <1>3, <1>4, <1>5, <1>6, <1>7, <1>8 DEF FreshInv
<1>13. HomeInv
  <2> SUFFICES ASSUME NEW r \in Script \ doomed PROVE Home(r, a)
    BY DEF HomeInv
  <2> QED  BY <1>1, <1>3, <1>4, <1>5, <1>6, <1>7, <1>8 DEF Home
<1>14. ServedInv
  BY <1>1, <1>3, <1>4, <1>7, <1>8 DEF ServedInv
<1>15. CertsInv /\ IdleInv /\ PublisherInv
  BY <1>4 DEF CertsInv, IdleInv, PublisherInv, Proc
<1>16. AdminInv
  BY <1>4, <1>5 DEF AdminInv, AdminAt, Deploying, Deleting, Proc
<1> QED  BY <1>9, <1>11, <1>12, <1>13, <1>14, <1>15, <1>16 DEF WorkersInv

LEMMA WorkersNext == ASSUME OneAdmin, WorkersInv, [Next]_vars PROVE WorkersInv'
<1>1. ASSUME NEW t \in Admin, AdminStarts(t) PROVE WorkersInv'
  BY <1>1, DeployBeginKeeps, TeardownKeeps, DeleteCaCheckKeeps, DeleteUnlinkedKeeps,
     ConnectCheckKeeps, DisconnectCheckKeeps DEF AdminStarts
<1>2. ASSUME NEW t \in Admin, AdminContinues(t) PROVE WorkersInv'
  BY <1>2, DeployNameKeeps, RefusedKeeps, RegisterKeeps, UploadKeeps, AttachKeeps,
     RecordDomainKeeps, SetWorkersDevKeeps, RecordKeeps, CallFailsKeeps, UndoDeployKeeps,
     DeleteKeeps, ClearKeeps, DetachKeeps, ConnectKeeps, DeleteCaKeeps DEF AdminContinues
<1>3. ASSUME NEW p \in Publisher, Publishes(p) PROVE WorkersInv'
  BY <1>3, PushBeginKeeps, IssueBeginKeeps, PushKeeps, SaveCertKeeps DEF Publishes
<1>4. CASE Restart
  BY <1>4, RestartKeeps
<1>5. CASE UNCHANGED vars
  <2>1. UNCHANGED <<cas, row, creds, certs, remote, devOn, dns, used, doomed, pc, job, restarts>>
    BY <1>5 DEF vars
  <2>2. TypeOK' /\ RowsInv' /\ DistinctInv' /\ IdleInv'
    BY <2>1 DEF WorkersInv, TypeOK, RowsInv, DistinctInv, IdleInv
  <2>3. FreshInv' /\ HomeInv'
    BY <2>1 DEF WorkersInv, FreshInv, HomeInv, Home
  <2>4. ServedInv' /\ CertsInv' /\ PublisherInv'
    BY <2>1 DEF WorkersInv, ServedInv, Serves, CertsInv, OnRow, PublisherInv
  <2>5. AdminInv'
    <3>1. ASSUME NEW j PROVE /\ Named(j) => Named(j)'
                             /\ Serves(j.script, j.account, j.host) => Serves(j.script, j.account, j.host)'
                             /\ TeardownInv(j) => TeardownInv(j)'
                             /\ UnlinkedInv(j) => UnlinkedInv(j)'
      BY <2>1 DEF Named, Serves, TeardownInv, UnlinkedInv
    <3>2. ASSUME NEW label, NEW j, AdminAt(label, j) PROVE AdminAt(label, j)'
      BY <2>1, <3>1, <3>2 DEF AdminAt, DeployInv, There, Registered, Deployed
    <3>3. ASSUME NEW t \in Admin PROVE AdminAt(pc[t], job[t])'
      <4>1. PICK label, j : label = pc[t] /\ j = job[t]
        OBVIOUS
      <4>2. pc'[t] = label /\ job'[t] = j
        BY <2>1, <4>1
      <4>3. AdminAt(label, j)'
        BY <3>2, <4>1, AdminHas
      <4> QED  BY <4>2, <4>3 DEF AdminAt
    <3> QED  BY <3>3 DEF AdminInv
  <2> QED  BY <2>2, <2>3, <2>4, <2>5 DEF WorkersInv
<1> QED  BY <1>1, <1>2, <1>3, <1>4, <1>5 DEF Next

\* The invariant holds of every behaviour with one admin.
THEOREM WorkersInvHolds == ASSUME OneAdmin PROVE Spec => []WorkersInv
<1>1. WorkersInv /\ [Next]_vars => WorkersInv'
  BY WorkersNext
<1> QED  BY <1>1, WorkersInit, PTL DEF Spec

\* Types, which need the invariant: what is put in a row or a certificate comes
\* from rows read long before.
THEOREM WorkersTypeCorrect == ASSUME OneAdmin PROVE Spec => []TypeOK
<1>1. WorkersInv => TypeOK
  BY DEF WorkersInv
<1> QED  BY <1>1, WorkersInvHolds, PTL

\* A certificate's address answers, at the Worker its CA pushes to, until the
\* admin begins to delete that Worker (deploy, _undo_deploy, teardown,
\* delete_by_name, push, issue_cert).
THEOREM AddressesStayGoodHolds == ASSUME OneAdmin PROVE Spec => []AddressesStayGood
<1>1. ASSUME WorkersInv PROVE AddressesStayGood
  <2> SUFFICES ASSUME NEW ca \in cas, NEW named \in certs[ca], named[1] \notin doomed
               PROVE  /\ row[ca].worker = named[1] /\ row[ca].host = named[2]
                      /\ Answers(named[1], named[2])
    BY DEF AddressesStayGood
  <2>1. ca \in Ca /\ named[1] \in Script /\ named[2] \in Host
    BY <1>1 DEF WorkersInv, TypeOK
  <2>2. row[ca].worker = named[1] /\ row[ca].host = named[2]
    BY <1>1, <2>1 DEF WorkersInv, CertsInv, OnRow
  <2>3. row[ca].host # None /\ row[ca].worker # None
    BY <2>1, <2>2 DEF Host
  <2>4. Serves(named[1], row[ca].account, named[2])
    BY <1>1, <2>2, <2>3 DEF WorkersInv, ServedInv
  <2>5. row[ca].account \in Account
    BY <1>1, <2>1, <2>3 DEF WorkersInv, RowsInv
  <2> QED  BY <2>2, <2>4, <2>5 DEF Serves, Answers
<1> QED  BY <1>1, WorkersInvHolds, PTL

\* An account that a Worker belongs to stays connected (connect, disconnect),
\* however long the handler waited for Cloudflare after its check.
THEOREM AccountKeptHolds == ASSUME OneAdmin PROVE Spec => AccountKept
<1> DEFINE Kept == \A ca \in Deployed : row[ca].account = creds => creds' = creds
<1>1. WorkersInv /\ [Next]_vars => [Kept]_creds
  <2> SUFFICES ASSUME WorkersInv, [Next]_vars, creds' # creds
               PROVE  Kept
    OBVIOUS
  <2>1. PICK t \in Admin : Connect(t) \/ Disconnect(t)
    <3>1. ASSUME NEW t \in Admin, AdminStarts(t) PROVE FALSE
      BY <3>1 DEF AdminStarts, DeployBegin, Teardown, DeleteCaCheck, DeleteUnlinked, ConnectCheck,
         DisconnectCheck, database
    <3>2. ASSUME NEW t \in Admin, AdminContinues(t) PROVE Connect(t) \/ Disconnect(t)
      BY <3>2 DEF AdminContinues, DeployName, Refused, Register, Upload, Attach, RecordDomain, SetWorkersDev,
         Record, CallFails, UndoDeploy, Delete, Clear, Detach, DeleteCa, database
    <3>3. ASSUME NEW p \in Publisher, Publishes(p) PROVE FALSE
      BY <3>3 DEF Publishes, PushBegin, Push, IssueBegin, SaveCert, database
    <3>4. ~Restart
      BY DEF Restart, database
    <3> QED  BY <3>1, <3>2, <3>3, <3>4 DEF Next, vars
  <2>2. CASE Disconnect(t)
    BY <2>2, AdminHas DEF AdminAt, Disconnect
  <2>3. CASE Connect(t)
    <3>1. creds = None \/ Deployed = {}
      BY <2>3, AdminHas DEF AdminAt, Connect
    <3>2. \A ca \in Deployed : row[ca].account \in Account
      BY DEF Deployed, WorkersInv, TypeOK, RowsInv
    <3> QED  BY <3>1, <3>2
  <2> QED  BY <2>1, <2>2, <2>3
<1> QED  BY <1>1, WorkersInvHolds, PTL DEF Spec, AccountKept
===============================================================================
