------------------------------ MODULE Authority ------------------------------
(***************************************************************************)
(* The CA tree and what hangs on it: creating roots and intermediates,     *)
(* issuing, revoking and deleting (app/routes/pki.py), the rows they keep  *)
(* (app/db.py), what is signed (app/crypto_engine.py), revocation lists    *)
(* that are handed out, and backup and restore (app/routes/settings.py).   *)
(*                                                                         *)
(* A certificate is made in memory from the issuer read before, and saved  *)
(* by a later transaction; a backup reads its tables one after the other,  *)
(* each as it then is.  The threads of the server interleave between those *)
(* steps, and a restore replaces every row under them.                     *)
(*                                                                         *)
(* Certificates are numbered in the order they are made: the number is the *)
(* serial and names the key pair.  Time is counted in units of BACKDATE.   *)
(* Whether a CA's revocations are published, and its Worker, are the       *)
(* matter of CrlPublishing and CrlWorkers; a locked database, which signs  *)
(* nothing, is KeyStore's; what else is read meanwhile, that of Lookups.   *)
(***************************************************************************)
EXTENDS Naturals, FiniteSets, Sequences

CONSTANTS Thread,      \* requests that make certificates
          Reader,      \* requests that back up, hand out revocation lists, look up
          Name,        \* subjects of CAs
          Days,        \* lifetimes asked for
          Foreign,     \* a backup of another installation
          MaxMade,     \* bound: certificates made
          MaxNow,      \* bound: time
          MaxRestores  \* bound: restores

ASSUME BoundAssumption == MaxMade \in Nat /\ MaxNow \in Nat \ {0} /\ MaxRestores \in Nat
ASSUME DaysAssumption == Days \subseteq Nat \ {0}      \* _lifetime_error

VARIABLES
    now,
    made,       \* how many certificates were made so far
    lastId,     \* sqlite_sequence: the highest CA id there has been
    cas,        \* certificate_authorities: id -> the CA's certificate and parent
    certs,      \* certificates
    deleted,    \* deleted_revocations
    backup,     \* the last backup file, or NoBackup
    pc, req,    \* where each thread is, and what it has in hand
    restores,
    \* What follows is for the properties only; no code reads it.
    owner,      \* the rows each CA id ever stood for
    gone,       \* CA, serial and end of what was revoked, of CAs still there
    mixed,      \* another installation's backup was restored
    strays      \* certificates made, or read for a backup, across such a restore

tables == <<lastId, cas, certs, deleted>>
ghosts == <<owner, gone, mixed, strays>>
vars   == <<now, made, tables, backup, pc, req, restores, ghosts>>

Ids    == 1..MaxMade

\* The other installation's CAs and certificates
ForeignCas    == {Foreign.cas[id].cert : id \in DOMAIN Foreign.cas}
ForeignLeaves == {c.cert.serial : c \in Foreign.certs} \cup {r.serial : r \in Foreign.deleted}
ForeignSerial == {cert.serial : cert \in ForeignCas} \cup ForeignLeaves

Serial     == 1..MaxMade \cup ForeignSerial
Subject    == Name \cup {cert.subject : cert \in ForeignCas}
NoCert     == [serial |-> 0]
Cert(subjects) == [serial : Serial, subject : subjects, issuer : Subject, signer : Serial,
                   from : Nat, to : Nat, path : {"any", "none", "leaf"}]
CertOfAny  == Cert(Subject) \cup Cert({"leaf"})
CaRow      == [cert : Cert(Subject), parent : Ids \cup {0}]
CertRow    == [cert : Cert({"leaf"}), ca : Ids, revoked : BOOLEAN]
DeletedRow == [ca : Ids, serial : Serial, to : Nat]
NoBackup   == [cas |-> <<>>, certs |-> {}, deleted |-> {}, torn |-> TRUE, gone |-> {}]
CaRows(f)  == DOMAIN f \subseteq Ids /\ f \in [DOMAIN f -> CaRow]
Gone       == Ids \X Serial \X Nat
Backup(b)  == CaRows(b.cas) /\ b \in [cas : {b.cas}, certs : SUBSET CertRow,
                  deleted : SUBSET DeletedRow, torn : BOOLEAN, gone : SUBSET Gone]

\* A leaf is named for a machine or a user, never for a CA.
ASSUME NameAssumption == "leaf" \notin Subject

Idle == [ca |-> 0, cert |-> NoCert, file |-> NoBackup, up |-> 0, seen |-> {}]
Pc   == {"idle", "saveCa", "saveCert", "readCerts", "readDeleted", "list", "nextCa"}

Exists(id) == id \in DOMAIN cas

TypeOK ==
    /\ now \in 1..MaxNow
    /\ made \in 0..MaxMade /\ lastId \in 0..MaxMade
    /\ DOMAIN cas \subseteq 1..lastId
    /\ \A id \in DOMAIN cas : cas[id] \in CaRow
    /\ certs \subseteq CertRow
    /\ deleted \subseteq DeletedRow
    /\ pc \in [Thread \cup Reader -> Pc]
    /\ restores \in 0..MaxRestores

Init ==
    /\ now = 1 /\ made = 0 /\ lastId = 0
    /\ cas = <<>> /\ certs = {} /\ deleted = {}
    /\ backup = NoBackup
    /\ pc = [t \in Thread \cup Reader |-> "idle"]
    /\ req = [t \in Thread \cup Reader |-> Idle]
    /\ restores = 0
    /\ owner = [id \in Ids |-> {}]
    /\ gone = {} /\ mixed = FALSE /\ strays = {}

-----------------------------------------------------------------------------
(* The tree.                                                               *)

Least(a, b)    == IF a < b THEN a ELSE b
Greatest(a, b) == IF a > b THEN a ELSE b

\* get_ca_cert_chain, get_ca_named_chain: from id up the parents, never over the
\* same CA twice, at most MaxDepth of them (here with nothing in between; the
\* steps they are taken in are Lookups').
MaxDepth == 16
Depth == Least(MaxDepth, Cardinality(DOMAIN cas))    \* it has no more to find

Climb(id, below) ==
    LET next == IF below = <<>> THEN id ELSE cas[below[Len(below)]].parent
    IN IF Exists(next) /\ \A k \in 1..Len(below) : below[k] # next
       THEN Append(below, next) ELSE below

Walk(id) ==
    LET up[n \in 0..Depth] == IF n = 0 THEN <<>> ELSE Climb(id, up[n - 1])
    IN up[Depth]

\* ca_tree_ids, of a CA that is there: it and everything below it, the least
\* set that has it and the CAs whose parent is in the set.
ClosedBelow(S) == \A k \in DOMAIN cas : cas[k].parent \in S => k \in S
Tree(id) == {d \in DOMAIN cas :
                \A S \in SUBSET DOMAIN cas : id \in S /\ ClosedBelow(S) => d \in S}

Chain(id) == LET walk == Walk(id) IN [k \in 1..Len(walk) |-> cas[walk[k]].cert]

-----------------------------------------------------------------------------
(* What crypto_engine signs.                                               *)

Backdate == 1

\* _validity: dated a little back, never outside the issuer's own time.
From(issuer) == Greatest(now - Backdate, issuer.from)
\* Mutated: the lifetime asked for, whatever the issuer's.
ToUnclipped(issuer, days) == now + days

To(issuer, days) == Least(now + days, issuer.to)
Expired(cert) == cert.to <= now

Root(name, days) ==
    [serial |-> made + 1, subject |-> name, issuer |-> name, signer |-> made + 1,
     from |-> now - Backdate, to |-> now + days, path |-> "any"]

Sub(issuer, name, path, days) ==
    [serial |-> made + 1, subject |-> name, issuer |-> issuer.subject, signer |-> issuer.serial,
     from |-> From(issuer), to |-> To(issuer, days), path |-> path]

Intermediate(issuer, name, days) == Sub(issuer, name, "none", days)
Leaf(issuer, days) == Sub(issuer, "leaf", "leaf", days)

\* ca_allows_subordinate_ca, and the name check of create_intermediate_ca
MaySignCa(cert)   == cert.path = "any"
MayBeNamed(name, issuer) == name # issuer.subject

-----------------------------------------------------------------------------
(* Creating and issuing.                                                   *)

Go(t, place, r) == pc' = [pc EXCEPT ![t] = place] /\ req' = [req EXCEPT ![t] = r]
Answer(t) == Go(t, "idle", Idle)

\* Mutated: plain INTEGER PRIMARY KEY, one more than the highest there is.
NextIdReused == 1 + Cardinality({id \in Ids : \E k \in DOMAIN cas : id <= k})

\* AUTOINCREMENT: an id is never handed out again.
NextId == lastId + 1

Insert(ca, parent) ==
    /\ NextId \in Ids
    /\ lastId' = NextId
    /\ LET row == [cert |-> ca, parent |-> parent]
       IN /\ cas' = [id \in DOMAIN cas \cup {NextId} |-> IF id = NextId THEN row ELSE cas[id]]
          /\ owner' = [owner EXCEPT ![NextId] = @ \cup {row}]

\* For the properties: a backup whose reading is under way is of two states.
Tear == [t \in Thread \cup Reader |-> IF pc[t] \in {"readCerts", "readDeleted"}
                          THEN [req[t] EXCEPT !.file.torn = TRUE] ELSE req[t]]

CreateCa(t, name, days) ==
    /\ pc[t] = "idle"
    /\ made < MaxMade
    /\ made' = made + 1
    /\ Insert(Root(name, days), 0)
    /\ req' = Tear
    /\ UNCHANGED <<now, certs, deleted, backup, pc, restores, gone, mixed, strays>>

\* The parent is read, checked, and signs; nothing is saved yet.
CreateIntermediate(t, id, name, days) ==
    /\ pc[t] = "idle" /\ Exists(id)
    /\ MaySignCa(cas[id].cert)
    /\ MayBeNamed(name, cas[id].cert)
    /\ ~Expired(cas[id].cert)
    /\ made < MaxMade
    /\ made' = made + 1
    /\ Go(t, "saveCa", [Idle EXCEPT !.ca = id, !.cert = Intermediate(cas[id].cert, name, days)])
    /\ UNCHANGED <<now, tables, backup, restores, ghosts>>

\* The parent must still be there (a foreign key), whatever it is by now.
SaveCa(t) ==
    /\ pc[t] = "saveCa"
    /\ IF Exists(req[t].ca)
       THEN /\ Insert(req[t].cert, req[t].ca)
            /\ req' = [Tear EXCEPT ![t] = Idle]
       ELSE req' = [req EXCEPT ![t] = Idle] /\ UNCHANGED <<lastId, cas, owner>>
    /\ pc' = [pc EXCEPT ![t] = "idle"]
    /\ UNCHANGED <<now, made, certs, deleted, backup, restores, gone, mixed, strays>>

IssueCert(t, id, days) ==
    /\ pc[t] = "idle" /\ Exists(id)
    /\ ~Expired(cas[id].cert)
    /\ made < MaxMade
    /\ made' = made + 1
    /\ Go(t, "saveCert", [Idle EXCEPT !.ca = id, !.cert = Leaf(cas[id].cert, days)])
    /\ UNCHANGED <<now, tables, backup, restores, ghosts>>

SaveCert(t) ==
    /\ pc[t] = "saveCert"
    /\ certs' = IF Exists(req[t].ca)
                THEN certs \cup {[cert |-> req[t].cert, ca |-> req[t].ca, revoked |-> FALSE]}
                ELSE certs
    /\ Answer(t)
    /\ UNCHANGED <<now, made, lastId, cas, deleted, backup, restores, ghosts>>

-----------------------------------------------------------------------------
(* Revoking and deleting.                                                  *)

\* Of certificates that name a distribution point, see CrlPublishing.
RevokeCert(c) ==
    /\ c \in certs /\ ~c.revoked
    /\ certs' = (certs \ {c}) \cup {[c EXCEPT !.revoked = TRUE]}
    /\ gone' = gone \cup {<<c.ca, c.cert.serial, c.cert.to>>}
    /\ UNCHANGED <<now, made, lastId, cas, deleted, backup, pc, req, restores,
                   owner, mixed, strays>>

\* delete_cert: a revoked one leaves its serial behind.
DeleteCert(c) ==
    /\ c \in certs
    /\ certs' = certs \ {c}
    /\ deleted' = IF c.revoked
                  THEN deleted \cup {[ca |-> c.ca, serial |-> c.cert.serial, to |-> c.cert.to]}
                  ELSE deleted
    /\ UNCHANGED <<now, made, lastId, cas, backup, pc, req, restores, ghosts>>

\* delete_ca: the whole tree below goes, with its certificates and revocations.
DeleteCa(id) ==
    /\ Exists(id)
    /\ LET tree == Tree(id)
       IN /\ cas' = [k \in DOMAIN cas \ tree |-> cas[k]]
          /\ certs' = {c \in certs : c.ca \notin tree}
          /\ deleted' = {r \in deleted : r.ca \notin tree}
          /\ gone' = {g \in gone : g[1] \notin tree}
    /\ req' = Tear
    /\ UNCHANGED <<now, made, lastId, backup, pc, restores, owner, mixed, strays>>

-----------------------------------------------------------------------------
(* Revocation lists handed out to be served elsewhere.  The CA and its key *)
(* are read, then its revocations, and what is signed goes out at once.    *)
(* (When a list was last handed out is only shown, and left out here.)     *)

\* Mutated: what was deleted is forgotten.
ListedLive(id) == {c.cert.serial : c \in {d \in certs : d.ca = id /\ d.revoked}}

\* list_revoked_serials
Listed(id) ==
    {c.cert.serial : c \in {d \in certs : d.ca = id /\ d.revoked}}
      \cup {r.serial : r \in {d \in deleted : d.ca = id /\ now < d.to}}

\* generate_crl
Crl(ca, serials) == [issuer |-> ca.subject, signer |-> ca.serial, revoked |-> serials]

\* bound: asked for once there are certificates to list
Worthwhile == certs # {} \/ deleted # {}

ReadSigner(t, id, parent, seen) ==
    Go(t, "list", [Idle EXCEPT !.ca = id, !.cert = cas[id].cert, !.up = parent, !.seen = seen])

\* download_crl: this CA's only.
DownloadCrl(t, id) ==
    /\ pc[t] = "idle" /\ Exists(id) /\ Worthwhile
    /\ ReadSigner(t, id, 0, {id})
    /\ UNCHANGED <<now, made, tables, backup, restores, ghosts>>

\* self_hosted_crls: this CA's and those of the CAs above it.
AskLists(t, id) ==
    /\ pc[t] = "idle" /\ Exists(id) /\ Worthwhile
    /\ ReadSigner(t, id, cas[id].parent, {id})
    /\ UNCHANGED <<now, made, tables, backup, restores, ghosts>>

Sent(t) == Crl(req[t].cert, Listed(req[t].ca))

SignList(t) ==                              \* with Sent(t)
    /\ pc[t] = "list"
    /\ IF req[t].up = 0 \/ req[t].up \in req[t].seen
       THEN Answer(t)
       ELSE Go(t, "nextCa", [Idle EXCEPT !.ca = req[t].up, !.seen = req[t].seen \cup {req[t].up}])
    /\ UNCHANGED <<now, made, tables, backup, restores, ghosts>>

\* One of the CAs above was deleted meanwhile: the lists so far are the answer.
NextCa(t) ==
    /\ pc[t] = "nextCa"
    /\ IF Exists(req[t].ca)
       THEN ReadSigner(t, req[t].ca, cas[req[t].ca].parent, req[t].seen)
       ELSE Answer(t)
    /\ UNCHANGED <<now, made, tables, backup, restores, ghosts>>

-----------------------------------------------------------------------------
(* Backup and restore.                                                     *)

\* export_all_data reads three tables, each by a query of its own; before a
\* write, sqlite3 opens no transaction, so others write in between.
\* Mutated: only the roots are read.
ReadCasRoots(t) ==
    /\ pc[t] = "idle" /\ backup = NoBackup /\ cas # <<>>
    /\ Go(t, "readCerts", [Idle EXCEPT !.file =
              [cas |-> [id \in {k \in DOMAIN cas : cas[k].parent = 0} |-> cas[id]],
               certs |-> {}, deleted |-> {}, torn |-> FALSE, gone |-> gone]])
    /\ UNCHANGED <<now, made, tables, backup, restores, ghosts>>

ReadCas(t) ==
    /\ pc[t] = "idle"
    \* bound: one backup, of something, that can be restored
    /\ backup = NoBackup /\ cas # <<>> /\ restores < MaxRestores
    /\ \A u \in Reader : pc[u] \notin {"readCerts", "readDeleted"}
    /\ Go(t, "readCerts", [Idle EXCEPT !.file =
              [cas |-> cas, certs |-> {}, deleted |-> {}, torn |-> FALSE, gone |-> gone]])
    /\ UNCHANGED <<now, made, tables, backup, restores, ghosts>>

ReadCerts(t) ==
    /\ pc[t] = "readCerts"
    /\ Go(t, "readDeleted", [req[t] EXCEPT !.file.certs = certs])
    /\ UNCHANGED <<now, made, tables, backup, restores, ghosts>>

ReadDeleted(t) ==
    /\ pc[t] = "readDeleted"
    /\ backup' = [req[t].file EXCEPT !.deleted = deleted]
    /\ Answer(t)
    /\ UNCHANGED <<now, made, tables, restores, ghosts>>

\* The foreign keys of what import_all_data inserts, and its unique serials
Restorable(b) ==
    /\ \A id \in DOMAIN b.cas : b.cas[id].parent = 0 \/ b.cas[id].parent \in DOMAIN b.cas
    /\ \A c \in b.certs : c.ca \in DOMAIN b.cas
    /\ \A r \in b.deleted : r.ca \in DOMAIN b.cas

\* Mutated: the sequence is not moved.
HighestIdForgotten(b) == 0

HighestId(b) == IF DOMAIN b.cas = {} THEN 0 ELSE CHOOSE m \in DOMAIN b.cas : \A id \in DOMAIN b.cas : id <= m

\* One transaction: everything is replaced, or (any error) nothing is.
Restore(b, foreign) ==
    /\ restores < MaxRestores
    /\ restores' = restores + 1
    /\ Restorable(b)
    /\ cas' = b.cas
    /\ certs' = b.certs
    /\ deleted' = b.deleted
    /\ lastId' = Greatest(lastId, HighestId(b))
    /\ owner' = [id \in Ids |-> owner[id] \cup {b.cas[i] : i \in DOMAIN b.cas \cap {id}}]
    /\ gone' = IF b.torn THEN {} ELSE b.gone
    /\ mixed' = (mixed \/ foreign)
    /\ strays' = IF ~mixed' THEN strays
                 ELSE strays \cup {req[t].cert.serial : t \in Thread \cup Reader}
                             \cup {c.cert.serial : c \in {d \in b.certs : b.torn}}
    /\ req' = Tear
    /\ UNCHANGED <<now, made, backup, pc>>

RestoreOwn == backup # NoBackup /\ Restore(backup, FALSE)
RestoreForeign == Restore(Foreign, TRUE)

Tick ==
    /\ now < MaxNow
    /\ now' = now + 1
    /\ UNCHANGED <<made, tables, backup, pc, req, restores, ghosts>>

Next ==
    \/ \E t \in Thread :
         \/ \E n \in Name, d \in Days : CreateCa(t, n, d)
         \/ \E id \in DOMAIN cas, n \in Name, d \in Days : CreateIntermediate(t, id, n, d)
         \/ SaveCa(t)
         \/ \E id \in DOMAIN cas, d \in Days : IssueCert(t, id, d)
         \/ SaveCert(t)
    \/ \E t \in Reader :
         \/ \E id \in DOMAIN cas : DownloadCrl(t, id) \/ AskLists(t, id)
         \/ SignList(t) \/ NextCa(t)
         \/ ReadCas(t) \/ ReadCerts(t) \/ ReadDeleted(t)
    \/ \E c \in certs : RevokeCert(c) \/ DeleteCert(c)
    \/ \E id \in DOMAIN cas : DeleteCa(id)
    \/ RestoreOwn \/ RestoreForeign
    \/ Tick

Spec == Init /\ [][Next]_vars

-----------------------------------------------------------------------------
(* What the tree promises.                                                 *)

\* A relying party accepts the chain: each certificate is signed by the next,
\* under its name, within its time, and with its leave, up to a root.
SignedBy(cert, issuer) ==
    /\ cert.signer = issuer.serial /\ cert.issuer = issuer.subject
    /\ cert.subject # cert.issuer
    /\ issuer.path = "any" \/ (issuer.path = "none" /\ cert.path = "leaf")
    /\ issuer.from <= cert.from /\ cert.from < cert.to /\ cert.to <= issuer.to

RootCert(cert) == cert.signer = cert.serial /\ cert.path = "any"
Linked(chain)  == \A k \in 1..(Len(chain) - 1) : SignedBy(chain[k], chain[k + 1])
Verifies(chain) == chain # <<>> /\ RootCert(chain[Len(chain)]) /\ Linked(chain)

\* Unless something in it was in hand while one installation's backup replaced
\* another's rows, or was read for a backup across that: what was signed by the
\* CA that had the id before is saved under the new.
Holds(chain) ==
    (\E k \in 1..Len(chain) : chain[k].serial \in strays) \/ Verifies(chain)

\* Every stored CA and certificate has a chain a client accepts, whatever was
\* deleted or restored while it was made (_validity: "past that date no client
\* could build its chain anyway").
ChainsHold ==
    /\ \A id \in DOMAIN cas : Holds(Chain(id))
    /\ \A c \in certs : Holds(<<c.cert>> \o Chain(c.ca))

\* /crl/<id>.crl never comes to mean another CA: certificates out there carry
\* that address longer than the CA's row lives (AUTOINCREMENT).  Restoring the
\* backup of another installation is exempt: it brings that one's ids along.
AddressKeepsCa == mixed \/ \A id \in Ids : Cardinality(owner[id]) <= 1

\* A list that goes out names every certificate its signer has revoked and that
\* is still in its time, whatever was deleted since (self_hosted_crls,
\* download_crl, list_revoked_serials).  Of a CA that was deleted between the
\* reading of its key and of its revocations nothing is left to name.
ListsComplete == \A t \in Reader : pc[t] = "list" =>
    \A g \in gone :
        (cas[g[1]].cert.serial = Sent(t).signer /\ now < g[3]) => g[2] \in Sent(t).revoked

\* A backup can be restored, unless CAs came or went while its tables were read
\* (export_all_data, import_all_data).
BackupRestores == backup.torn \/ Restorable(backup)

-----------------------------------------------------------------------------
(* What the rows of any installation look like, and so those of Foreign:   *)
(* roots that sign themselves, intermediates that sign no CA, each the     *)
(* child of the CA that signed it, unless a stray.                         *)

RootRow(row) == row.parent = 0 /\ RootCert(row.cert)

RowsVerify(rows, exempt) == \A id \in DOMAIN rows :
    LET row == rows[id]
    IN \/ RootRow(row)
       \/ /\ row.cert.path = "none"
          /\ row.cert.serial \notin exempt =>
                 /\ row.parent \in DOMAIN rows /\ RootRow(rows[row.parent])
                 /\ SignedBy(row.cert, rows[row.parent].cert)

CertsVerify(rows, issued, exempt) == \A c \in issued :
    c.cert.serial \notin exempt /\ c.ca \in DOMAIN rows => SignedBy(c.cert, rows[c.ca].cert)

\* The revocation is on record.
Recorded(g, issued, dropped) ==
    \/ \E c \in issued : c.revoked /\ c.ca = g[1] /\ c.cert.serial = g[2] /\ c.cert.to = g[3]
    \/ \E r \in dropped : r.ca = g[1] /\ r.serial = g[2] /\ r.to = g[3]

\* Serials are drawn at random: no two are the same, here or there.
ASSUME SerialAssumption ==
    /\ ForeignSerial \cap 1..MaxMade = {}
    /\ \A i, j \in DOMAIN Foreign.cas :
           Foreign.cas[i].cert.serial = Foreign.cas[j].cert.serial => i = j
    /\ \A cert \in ForeignCas : cert.serial \notin ForeignLeaves

\* The other installation's CAs were made before, and it runs this program.
ASSUME ForeignAssumption ==
    /\ Backup(Foreign) /\ ~Foreign.torn
    /\ \A cert \in ForeignCas : cert.from <= 1 /\ cert.from < cert.to
    /\ RowsVerify(Foreign.cas, {}) /\ CertsVerify(Foreign.cas, Foreign.certs, {})
    /\ \A g \in Foreign.gone :
           g[1] \in DOMAIN Foreign.cas /\ Recorded(g, Foreign.certs, Foreign.deleted)
=============================================================================
