---------------------------- MODULE Authority_proof ----------------------------
(***************************************************************************)
(* Proofs about Authority and Lookups, for any number of threads, names,   *)
(* certificates and restores, and any other installation's backup.         *)
(***************************************************************************)
EXTENDS Lookups, TLAPS, FiniteSetTheorems, WellFoundedInduction

USE BoundAssumption, DaysAssumption

Proc == Thread \cup Reader

-------------------------------------------------------------------------------
(* The inductive invariant, in parts.                                      *)

CaCert   == Cert(Subject)
LeafCert == Cert({"leaf"})

\* What a request has in hand
Job(r) == Backup(r.file) /\ r \in [ca : Ids \cup {0}, cert : CaCert \cup LeafCert \cup {NoCert}, file : {r.file},
                                   up : Ids \cup {0}, seen : SUBSET Ids]

TypesInv ==
    /\ now \in Nat /\ now \in 1..MaxNow
    /\ made \in 0..MaxMade /\ lastId \in 0..MaxMade
    /\ CaRows(cas)
    /\ certs \subseteq CertRow /\ deleted \subseteq DeletedRow
    /\ Backup(backup)
    /\ pc \in [Proc -> Pc] /\ req = [t \in Proc |-> req[t]] /\ \A t \in Proc : Job(req[t])
    /\ restores \in 0..MaxRestores
    /\ owner \in [Ids -> SUBSET CaRow]
    /\ gone \subseteq Gone
    /\ mixed \in BOOLEAN

\* The serials of CAs: of rows there ever were, or are about to be saved, and of
\* the other installation's.
Owned(s) == \E id \in Ids : \E row \in owner[id] : row.cert.serial = s
Coming(s) == \E t \in Proc : pc[t] = "saveCa" /\ req[t].cert.serial = s
OfForeignCa(s) == \E id \in DOMAIN Foreign.cas : Foreign.cas[id].cert.serial = s

\* A serial of a certificate, and of no CA
Leafy(s) == (s \in 1..made \/ s \in ForeignLeaves) /\ ~Owned(s) /\ ~Coming(s) /\ ~OfForeignCa(s)

\* The rows that ids ever stood for: of an id not handed out yet none, of two
\* ids never the same CA, and of one id only one while no other installation's
\* backup was restored.
OwnerInv ==
    /\ \A id \in Ids : \A row \in owner[id] :
           /\ id <= lastId
           /\ RootRow(row) \/ row.cert.path = "none"
           /\ row.cert.from <= now /\ row.cert.from < row.cert.to
           /\ row.cert.serial \in 1..made \/ OfForeignCa(row.cert.serial)
           /\ \A j \in DOMAIN Foreign.cas : Foreign.cas[j].cert.serial = row.cert.serial => j = id
    /\ \A i, j \in Ids : \A a \in owner[i], b \in owner[j] : a.cert.serial = b.cert.serial => i = j
    /\ ~mixed => \A id \in Ids : \A a, b \in owner[id] : a = b

\* The tables: what is there verifies, and refers to what is there.
RowsInv(rows) ==
    /\ \A id \in DOMAIN rows : rows[id] \in owner[id]
    /\ \A id \in DOMAIN rows : rows[id].parent = 0 \/ rows[id].parent \in DOMAIN rows
    /\ RowsVerify(rows, strays)

TablesInv ==
    /\ RowsInv(cas)
    /\ CertsVerify(cas, certs, strays)
    /\ \A c \in certs : c.ca \in DOMAIN cas /\ Leafy(c.cert.serial)
    /\ \A r \in deleted : r.ca \in DOMAIN cas /\ Leafy(r.serial)
    /\ \A g \in gone : g[1] \in DOMAIN cas /\ Leafy(g[2]) /\ Recorded(g, certs, deleted)

\* A backup, done or in the making; only one read across another installation's
\* restore may hold certificates of other CAs than its own.
FileInv(f) ==
    /\ RowsInv(f.cas)
    /\ (mixed /\ f.torn) \/ CertsVerify(f.cas, f.certs, strays)
    /\ \A c \in f.certs : Leafy(c.cert.serial)
    /\ \A r \in f.deleted : Leafy(r.serial)
    /\ \A g \in f.gone : Leafy(g[2])

\* A backup that is whole
Whole(f, issued, dropped) ==
    /\ \A c \in issued : c.ca \in DOMAIN f.cas
    /\ \A r \in dropped : r.ca \in DOMAIN f.cas
    /\ \A g \in f.gone : g[1] \in DOMAIN f.cas /\ Recorded(g, issued, dropped)

BackupInv ==
    /\ FileInv(backup)
    /\ ~backup.torn => Whole(backup, backup.certs, backup.deleted)

\* Only a backup in the making: if not torn, it is of the tables as they are.
Reading(t) ==
    /\ FileInv(req[t].file)
    /\ pc[t] = "readCerts" /\ ~req[t].file.torn =>
           req[t].file.cas = cas /\ Whole(req[t].file, certs, deleted)
    /\ pc[t] = "readDeleted" /\ ~req[t].file.torn =>
           req[t].file.cas = cas /\ Whole(req[t].file, req[t].file.certs, deleted)

ReadingInv == \A t \in Proc : Reading(t)

\* A certificate in hand: made for the CA that had the id when it was read.
Signed(t) ==
    req[t].cert.serial \notin strays =>
        /\ \E row \in owner[req[t].ca] : SignedBy(req[t].cert, row.cert)
        /\ req[t].ca \in DOMAIN cas => SignedBy(req[t].cert, cas[req[t].ca].cert)

Hand(t) ==
    /\ pc[t] \in {"saveCa", "saveCert", "list", "nextCa"} => req[t].ca \in Ids
    /\ pc[t] \in {"saveCa", "list"} => req[t].cert \in CaCert
    /\ pc[t] = "saveCert" => req[t].cert \in LeafCert
    /\ pc[t] \in {"saveCa", "saveCert"} => Signed(t)
    /\ pc[t] = "saveCa" =>
           /\ req[t].cert.path = "none"
           /\ req[t].cert.from <= now /\ req[t].cert.from < req[t].cert.to
           /\ req[t].cert.serial \in 1..made /\ ~Owned(req[t].cert.serial)
    /\ pc[t] = "saveCert" => Leafy(req[t].cert.serial)
    /\ pc[t] = "list" => \E row \in owner[req[t].ca] : row.cert = req[t].cert

\* No certificate is in two hands.
Apart == \A t, u \in Proc :
    pc[t] = "saveCa" /\ pc[u] = "saveCa" /\ req[t].cert.serial = req[u].cert.serial => t = u

HandsInv == Apart /\ \A t \in Proc : Hand(t)

Inv == TypesInv /\ OwnerInv /\ TablesInv /\ BackupInv /\ ReadingInv /\ HandsInv

-------------------------------------------------------------------------------
(* Types                                                                   *)

USE DEF Proc, Ids

LEMMA NoBackupType == Backup(NoBackup)
<1>1. CaRows(<<>>)
  BY DEF CaRows
<1> QED
  BY <1>1 DEF Backup, NoBackup

LEMMA IdleType == Job(Idle)
  BY NoBackupType DEF Job, Idle

LEMMA BackupFields ==
    \A b : Backup(b) => /\ CaRows(b.cas) /\ b.certs \subseteq CertRow /\ b.deleted \subseteq DeletedRow
                       /\ b.torn \in BOOLEAN /\ b.gone \subseteq Gone
  BY DEF Backup

LEMMA JobFields ==
    \A r : Job(r) => /\ r.ca \in Ids \cup {0} /\ r.cert \in CaCert \cup LeafCert \cup {NoCert} /\ Backup(r.file)
                    /\ r.up \in Ids \cup {0} /\ r.seen \subseteq Ids
  BY DEF Job

\* A file that is torn
LEMMA TornBackup ==
    ASSUME NEW b, Backup(b)
    PROVE  LET c == [b EXCEPT !.torn = TRUE]
           IN /\ Backup(c) /\ c.torn = TRUE
              /\ c.cas = b.cas /\ c.certs = b.certs /\ c.deleted = b.deleted /\ c.gone = b.gone
  BY DEF Backup

LEMMA TornJob ==
    ASSUME NEW r, Job(r)
    PROVE  LET q == [r EXCEPT !.file.torn = TRUE]
           IN /\ Job(q) /\ q.ca = r.ca /\ q.cert = r.cert /\ q.up = r.up /\ q.seen = r.seen
              /\ q.file = [r.file EXCEPT !.torn = TRUE]
<1>1. [r EXCEPT !.file.torn = TRUE] = [r EXCEPT !.file = [r.file EXCEPT !.torn = TRUE]]
  BY DEF Job
<1>2. Backup([r.file EXCEPT !.torn = TRUE])
  BY TornBackup DEF Job
<1> QED
  BY <1>1, <1>2 DEF Job

\* What tearing leaves of what is in hand
LEMMA TearKeeps ==
    ASSUME TypesInv, NEW t \in Proc
    PROVE  /\ Job(Tear[t])
           /\ Tear[t].ca = req[t].ca /\ Tear[t].cert = req[t].cert
           /\ Tear[t].up = req[t].up /\ Tear[t].seen = req[t].seen
           /\ Tear[t].file.cas = req[t].file.cas /\ Tear[t].file.certs = req[t].file.certs
           /\ Tear[t].file.deleted = req[t].file.deleted /\ Tear[t].file.gone = req[t].file.gone
           /\ req[t].file.torn => Tear[t].file.torn
           /\ pc[t] \in {"readCerts", "readDeleted"} => Tear[t].file.torn
<1>1. Job(req[t])
  BY DEF TypesInv
<1>2. CASE pc[t] \in {"readCerts", "readDeleted"}
  <2>1. Tear[t] = [req[t] EXCEPT !.file.torn = TRUE]
    BY <1>2 DEF Tear
  <2> DEFINE r == req[t]
             q == [r EXCEPT !.file.torn = TRUE]
             f == r.file
             g == [f EXCEPT !.torn = TRUE]
  <2>2. Job(r) /\ Backup(f)
    BY <1>1 DEF Job
  <2>3. Job(q) /\ q.ca = r.ca /\ q.cert = r.cert /\ q.up = r.up /\ q.seen = r.seen /\ q.file = g
    BY <2>2, TornJob
  <2>4. g.torn = TRUE /\ g.cas = f.cas /\ g.certs = f.certs /\ g.deleted = f.deleted /\ g.gone = f.gone
    BY <2>2, TornBackup
  <2>5. Tear[t] = q
    BY <2>1
  <2> HIDE DEF q, g
  <2> QED
    BY <2>3, <2>4, <2>5
<1>3. CASE pc[t] \notin {"readCerts", "readDeleted"}
  BY <1>1, <1>3 DEF Tear
<1> QED
  BY <1>2, <1>3

-------------------------------------------------------------------------------
(* What is signed                                                          *)

LEMMA RootFacts ==
    ASSUME TypesInv, made < MaxMade, NEW name \in Name, NEW days \in Days
    PROVE  /\ Root(name, days) \in CaCert
           /\ Root(name, days).serial = made + 1
           /\ RootRow([cert |-> Root(name, days), parent |-> 0])
           /\ Root(name, days).from <= now /\ Root(name, days).from < Root(name, days).to
<1>1. now \in Nat /\ now >= 1 /\ days \in Nat /\ made \in Nat /\ made + 1 \in 1..MaxMade
  BY DEF TypesInv
<1>2. name \in Subject /\ made + 1 \in Serial
  BY <1>1 DEF Subject, Serial
<1> QED
  BY <1>1, <1>2 DEF Root, RootRow, RootCert, CaCert, Cert, Backdate

\* Signed by a CA that is allowed to and in its time, a certificate verifies.
LEMMA SubFacts ==
    ASSUME TypesInv, made < MaxMade, NEW issuer \in CaCert, NEW subjects, NEW name \in subjects,
           NEW path \in {"none", "leaf"}, NEW days \in Days,
           issuer.from <= now, issuer.from < issuer.to, ~Expired(issuer), name # issuer.subject,
           issuer.path = "any" \/ (issuer.path = "none" /\ path = "leaf")
    PROVE  LET cert == Sub(issuer, name, path, days)
           IN /\ cert \in Cert(subjects)
              /\ cert.serial = made + 1 /\ cert.path = path
              /\ cert.from <= now /\ cert.from < cert.to
              /\ SignedBy(cert, issuer)
<1>1. now \in Nat /\ now >= 1 /\ days \in Nat /\ made \in Nat /\ made + 1 \in Serial
  BY DEF TypesInv, Serial
<1>2. /\ issuer.from \in Nat /\ issuer.to \in Nat /\ issuer.subject \in Subject /\ issuer.serial \in Serial
      /\ now < issuer.to
  BY <1>1 DEF CaCert, Cert, Expired
<1>3. /\ From(issuer) \in Nat /\ To(issuer, days) \in Nat
      /\ issuer.from <= From(issuer) /\ From(issuer) <= now
      /\ From(issuer) < To(issuer, days) /\ To(issuer, days) <= issuer.to
  BY <1>1, <1>2 DEF From, To, Greatest, Least, Backdate
<1> QED
  BY <1>1, <1>2, <1>3 DEF Sub, Cert, SignedBy

-------------------------------------------------------------------------------
(* Every step keeps the types.                                             *)

LEMMA RowFields ==
    \A row \in CaRow : row.cert \in CaCert /\ row.parent \in Ids \cup {0} /\ row.cert.serial \in Serial
  BY DEF CaRow, CaCert, Cert

LEMMA CasFields ==
    ASSUME TypesInv, NEW id \in DOMAIN cas
    PROVE  id \in Ids /\ cas[id] \in CaRow /\ cas[id].cert \in CaCert /\ cas[id].parent \in Ids \cup {0}
  BY RowFields DEF TypesInv, CaRows

LEMMA GoTyped ==
    ASSUME TypesInv, NEW t \in Proc, NEW place \in Pc, NEW r, Job(r), Go(t, place, r)
    PROVE  /\ pc' \in [Proc -> Pc] /\ req' = [u \in Proc |-> req'[u]] /\ \A u \in Proc : Job(req'[u])
           /\ pc'[t] = place /\ req'[t] = r
           /\ \A u \in Proc \ {t} : pc'[u] = pc[u] /\ req'[u] = req[u]
<1>1. pc' = [pc EXCEPT ![t] = place] /\ req' = [req EXCEPT ![t] = r]
  BY DEF Go
<1>2. req = [u \in Proc |-> req[u]] /\ pc \in [Proc -> Pc] /\ \A u \in Proc : Job(req[u])
  BY DEF TypesInv
<1>3. req' = [u \in Proc |-> IF u = t THEN r ELSE req[u]]
  BY <1>1, <1>2
<1>4. \A u \in Proc : req'[u] = IF u = t THEN r ELSE req[u]
  BY <1>3
<1> QED
  BY <1>1, <1>2, <1>3, <1>4

LEMMA AnswerTyped ==
    ASSUME TypesInv, NEW t \in Proc, Answer(t)
    PROVE  /\ pc' \in [Proc -> Pc] /\ req' = [u \in Proc |-> req'[u]] /\ \A u \in Proc : Job(req'[u])
           /\ pc'[t] = "idle" /\ req'[t] = Idle
           /\ \A u \in Proc \ {t} : pc'[u] = pc[u] /\ req'[u] = req[u]
  BY IdleType, GoTyped DEF Answer, Pc

LEMMA TearTyped ==
    ASSUME TypesInv
    PROVE  Tear = [t \in Proc |-> Tear[t]] /\ \A t \in Proc : Job(Tear[t])
<1>1. Tear = [t \in Proc |-> Tear[t]]
  BY DEF Tear
<1> QED
  BY <1>1, TearKeeps

\* What a new row leaves of the rows there are
LEMMA InsertTyped ==
    ASSUME TypesInv, NEW ca \in CaCert, NEW parent \in Ids \cup {0}, Insert(ca, parent)
    PROVE  /\ NextId \in Ids /\ lastId' = NextId /\ lastId' \in 0..MaxMade
           /\ CaRows(cas') /\ DOMAIN cas' = DOMAIN cas \cup {NextId}
           /\ [cert |-> ca, parent |-> parent] \in CaRow
           /\ cas'[NextId] = [cert |-> ca, parent |-> parent]
           /\ \A id \in DOMAIN cas \ {NextId} : cas'[id] = cas[id]
           /\ owner' \in [Ids -> SUBSET CaRow]
           /\ owner'[NextId] = owner[NextId] \cup {[cert |-> ca, parent |-> parent]}
           /\ \A id \in Ids \ {NextId} : owner'[id] = owner[id]
<1> DEFINE row == [cert |-> ca, parent |-> parent]
<1>1. row \in CaRow
  BY DEF CaRow, CaCert
<1>2. /\ NextId \in Ids /\ lastId' = NextId
      /\ cas' = [id \in DOMAIN cas \cup {NextId} |-> IF id = NextId THEN row ELSE cas[id]]
      /\ owner' = [owner EXCEPT ![NextId] = @ \cup {row}]
  BY DEF Insert
<1>3. CaRows(cas) /\ owner \in [Ids -> SUBSET CaRow]
  BY DEF TypesInv
<1> HIDE DEF row
<1>4. CaRows(cas')
  BY <1>1, <1>2, <1>3 DEF CaRows
<1>5. /\ owner' \in [Ids -> SUBSET CaRow] /\ owner'[NextId] = owner[NextId] \cup {row}
      /\ \A id \in Ids \ {NextId} : owner'[id] = owner[id]
  BY <1>1, <1>2, <1>3
<1>6. DOMAIN cas' = DOMAIN cas \cup {NextId} /\ cas'[NextId] = row
      /\ \A id \in DOMAIN cas \ {NextId} : cas'[id] = cas[id]
  BY <1>2
<1>7. lastId' \in 0..MaxMade
  BY <1>2
<1> QED
  BY <1>1, <1>2, <1>4, <1>5, <1>6, <1>7 DEF row

\* A set of numbers up to n that is not empty has a greatest one.
LEMMA HasGreatest ==
    ASSUME NEW n \in Nat, NEW S \in SUBSET (1..n), S # {}
    PROVE  \E m \in S : \A k \in S : k <= m
<1> DEFINE T == {n - k : k \in S}
<1>1. T \subseteq Nat /\ T # {}
  <2>1. \A k \in S : k \in 1..n
    OBVIOUS
  <2>2. \A k \in S : n - k \in Nat
    BY <2>1
  <2> QED  BY <2>2
<1>2. PICK x \in T : \A y \in T : ~(<<y, x>> \in OpToRel(<, Nat))
  <2> HIDE DEF T
  <2> QED  BY <1>1, NatLessThanWellFounded, WFMin
<1>3. \A y \in T : ~(y < x)
  <2>1. \A y \in T : y \in Nat /\ x \in Nat
    BY <1>1, <1>2
  <2> QED  BY <1>2, <2>1 DEF OpToRel
<1>4. PICK m \in S : x = n - m
  BY <1>2
<1>5. \A k \in S : ~(n - k < n - m)
  BY <1>3, <1>4
<1> HIDE DEF T
<1>6. ASSUME NEW k \in S PROVE k <= m
  <2>1. k \in Nat /\ m \in Nat /\ ~(n - k < n - m)
    BY <1>5
  <2> QED  BY ONLY n \in Nat, <2>1, SMTT(30)
<1> QED  BY <1>6

LEMMA HighestIdFacts ==
    ASSUME NEW b, CaRows(b.cas)
    PROVE  HighestId(b) \in 0..MaxMade /\ \A id \in DOMAIN b.cas : id <= HighestId(b)
<1>1. DOMAIN b.cas \in SUBSET (1..MaxMade)
  BY DEF CaRows
<1>2. CASE DOMAIN b.cas = {}
  BY <1>2 DEF HighestId
<1>3. CASE DOMAIN b.cas # {}
  <2>1. \E m \in DOMAIN b.cas : \A id \in DOMAIN b.cas : id <= m
    BY <1>1, <1>3, HasGreatest
  <2>2. HighestId(b) \in DOMAIN b.cas /\ \A id \in DOMAIN b.cas : id <= HighestId(b)
    BY <1>3, <2>1 DEF HighestId
  <2> QED
    BY <1>1, <2>2
<1> QED
  BY <1>2, <1>3

\* A restore brings rows of an installation that keeps the invariant.
LEMMA RestoreTyped ==
    ASSUME TypesInv, NEW b, Backup(b), NEW foreign \in BOOLEAN, Restore(b, foreign)
    PROVE  TypesInv'
<1>1. CaRows(cas') /\ certs' \subseteq CertRow /\ deleted' \subseteq DeletedRow
  BY DEF Restore, Backup
<1>2. HighestId(b) \in 0..MaxMade
  BY HighestIdFacts DEF Backup
<1>3. lastId' \in 0..MaxMade
  BY <1>2 DEF Restore, Greatest, TypesInv
<1>4. owner' \in [Ids -> SUBSET CaRow]
  <2>1. \A id \in Ids : {b.cas[i] : i \in DOMAIN b.cas \cap {id}} \subseteq CaRow
    BY DEF Backup, CaRows
  <2> QED
    BY <2>1 DEF Restore, TypesInv
<1>5. gone' \subseteq Gone
  BY BackupFields DEF Restore
<1>6. req' = [t \in Proc |-> req'[t]] /\ \A t \in Proc : Job(req'[t])
  BY TearTyped DEF Restore
<1>7. restores' \in 0..MaxRestores
  BY DEF Restore, TypesInv
<1>8. mixed' \in BOOLEAN
  BY DEF Restore, TypesInv
<1>9. /\ now' \in Nat /\ now' \in 1..MaxNow /\ made' \in 0..MaxMade /\ Backup(backup') /\ pc' \in [Proc -> Pc]
  BY DEF Restore, TypesInv
<1> QED
  BY <1>1, <1>3, <1>4, <1>5, <1>6, <1>7, <1>8, <1>9 DEF TypesInv

\* A CA in the table is in order.
LEMMA IssuerFacts ==
    ASSUME TypesInv, OwnerInv, TablesInv, NEW id \in DOMAIN cas
    PROVE  /\ id \in Ids /\ cas[id] \in CaRow /\ cas[id].cert \in CaCert /\ cas[id].parent \in Ids \cup {0}
           /\ cas[id] \in owner[id]
           /\ cas[id].cert.from <= now /\ cas[id].cert.from < cas[id].cert.to
           /\ RootRow(cas[id]) \/ cas[id].cert.path = "none"
<1>1. /\ id \in Ids /\ cas[id] \in CaRow /\ cas[id].cert \in CaCert /\ cas[id].parent \in Ids \cup {0}
  BY CasFields
<1>2. cas[id] \in owner[id]
  BY DEF TablesInv, RowsInv
<1> QED
  BY <1>1, <1>2 DEF OwnerInv

LEMMA IntermediateFacts ==
    ASSUME TypesInv, OwnerInv, TablesInv, NEW t \in Proc, NEW id \in DOMAIN cas, NEW name \in Name,
           NEW days \in Days, CreateIntermediate(t, id, name, days)
    PROVE  LET cert == Intermediate(cas[id].cert, name, days)
           IN /\ cert \in CaCert /\ cert.serial = made + 1 /\ cert.path = "none"
              /\ cert.from <= now /\ cert.from < cert.to
              /\ SignedBy(cert, cas[id].cert)
              /\ made + 1 \in 1..MaxMade /\ made' = made + 1
              /\ Go(t, "saveCa", [Idle EXCEPT !.ca = id, !.cert = cert])
<1>1. /\ MaySignCa(cas[id].cert) /\ MayBeNamed(name, cas[id].cert) /\ ~Expired(cas[id].cert)
      /\ made < MaxMade /\ made' = made + 1
      /\ Go(t, "saveCa", [Idle EXCEPT !.ca = id, !.cert = Intermediate(cas[id].cert, name, days)])
  BY DEF CreateIntermediate
<1>2. name \in Subject /\ made + 1 \in 1..MaxMade
  BY <1>1 DEF Subject, TypesInv
<1>3. cas[id].cert.path = "any" /\ name # cas[id].cert.subject
  BY <1>1 DEF MaySignCa, MayBeNamed
<1>4. /\ cas[id].cert \in CaCert /\ cas[id].cert.from <= now /\ cas[id].cert.from < cas[id].cert.to
  BY IssuerFacts
<1>5. "none" \in {"none", "leaf"}
  OBVIOUS
<1>6. LET cert == Sub(cas[id].cert, name, "none", days)
      IN /\ cert \in Cert(Subject) /\ cert.serial = made + 1 /\ cert.path = "none"
         /\ cert.from <= now /\ cert.from < cert.to
         /\ SignedBy(cert, cas[id].cert)
  BY <1>1, <1>2, <1>3, <1>4, <1>5, SubFacts
<1> QED
  BY <1>1, <1>2, <1>6 DEF Intermediate, CaCert

LEMMA LeafFacts ==
    ASSUME TypesInv, OwnerInv, TablesInv, NEW t \in Proc, NEW id \in DOMAIN cas,
           NEW days \in Days, IssueCert(t, id, days)
    PROVE  LET cert == Leaf(cas[id].cert, days)
           IN /\ cert \in LeafCert /\ cert.serial = made + 1
              /\ SignedBy(cert, cas[id].cert)
              /\ made + 1 \in 1..MaxMade /\ made' = made + 1
              /\ Go(t, "saveCert", [Idle EXCEPT !.ca = id, !.cert = cert])
<1>1. /\ ~Expired(cas[id].cert)
      /\ made < MaxMade /\ made' = made + 1
      /\ Go(t, "saveCert", [Idle EXCEPT !.ca = id, !.cert = Leaf(cas[id].cert, days)])
  BY DEF IssueCert
<1>2. made + 1 \in 1..MaxMade
  BY <1>1 DEF TypesInv
<1>3. /\ cas[id].cert \in CaCert /\ cas[id].cert.from <= now /\ cas[id].cert.from < cas[id].cert.to
      /\ cas[id].cert.path \in {"any", "none"}
  BY IssuerFacts DEF RootRow, RootCert
<1>4. "leaf" # cas[id].cert.subject
  BY <1>3, NameAssumption DEF CaCert, Cert
<1> DEFINE issuer == cas[id].cert
<1>5. /\ "leaf" \in {"none", "leaf"} /\ "leaf" \in {"leaf"}
      /\ issuer.path = "any" \/ (issuer.path = "none" /\ "leaf" = "leaf")
  BY <1>3
<1> HIDE DEF issuer
<1>6. /\ issuer \in CaCert /\ issuer.from <= now /\ issuer.from < issuer.to
      /\ ~Expired(issuer) /\ "leaf" # issuer.subject
  BY <1>1, <1>3, <1>4 DEF issuer
<1>7. /\ Sub(issuer, "leaf", "leaf", days) \in Cert({"leaf"})
      /\ Sub(issuer, "leaf", "leaf", days).serial = made + 1
      /\ SignedBy(Sub(issuer, "leaf", "leaf", days), issuer)
  BY <1>1, <1>5, <1>6, SubFacts
<1> QED
  BY <1>1, <1>2, <1>7 DEF Leaf, LeafCert, issuer

\* What a request has in hand after it read something
LEMMA HandTyped ==
    ASSUME NEW id \in Ids, NEW cert \in CaCert \cup LeafCert
    PROVE  LET q == [Idle EXCEPT !.ca = id, !.cert = cert]
           IN Job(q) /\ q.ca = id /\ q.cert = cert /\ q.file = NoBackup
  BY NoBackupType DEF Idle, Job

LEMMA SignerTyped ==
    ASSUME NEW id \in Ids, NEW cert \in CaCert, NEW up \in Ids \cup {0}, NEW seen \in SUBSET Ids
    PROVE  LET q == [Idle EXCEPT !.ca = id, !.cert = cert, !.up = up, !.seen = seen]
           IN Job(q) /\ q.ca = id /\ q.cert = cert /\ q.file = NoBackup /\ q.up = up /\ q.seen = seen
  BY NoBackupType DEF Idle, Job

LEMMA NextTyped ==
    ASSUME NEW id \in Ids, NEW seen \in SUBSET Ids
    PROVE  LET q == [Idle EXCEPT !.ca = id, !.seen = seen]
           IN Job(q) /\ q.ca = id /\ q.file = NoBackup /\ q.seen = seen
  BY NoBackupType DEF Idle, Job

LEMMA ReadingTyped ==
    ASSUME TypesInv, NEW t \in Proc
    PROVE  /\ LET q == [Idle EXCEPT !.file = [cas |-> cas, certs |-> {}, deleted |-> {}, torn |-> FALSE, gone |-> gone]]
              IN /\ Job(q) /\ q.file.cas = cas /\ q.file.certs = {} /\ q.file.deleted = {}
                 /\ q.file.torn = FALSE /\ q.file.gone = gone
           /\ LET q == [req[t] EXCEPT !.file.certs = certs]
              IN /\ Job(q) /\ q.file.cas = req[t].file.cas /\ q.file.certs = certs
                 /\ q.file.deleted = req[t].file.deleted
                 /\ q.file.torn = req[t].file.torn /\ q.file.gone = req[t].file.gone
           /\ LET b == [req[t].file EXCEPT !.deleted = deleted]
              IN /\ Backup(b) /\ b.cas = req[t].file.cas /\ b.certs = req[t].file.certs
                 /\ b.deleted = deleted /\ b.torn = req[t].file.torn /\ b.gone = req[t].file.gone
<1> DEFINE new == [cas |-> cas, certs |-> {}, deleted |-> {}, torn |-> FALSE, gone |-> gone]
           r   == req[t]
           f   == r.file
           g   == [f EXCEPT !.certs = certs]
           h   == [f EXCEPT !.deleted = deleted]
<1>1. Job(r) /\ Backup(f) /\ certs \subseteq CertRow /\ deleted \subseteq DeletedRow
  BY DEF TypesInv, Job
<1>2. Backup(new)
  BY DEF TypesInv, Backup
<1>3. /\ Backup(g) /\ g.cas = f.cas /\ g.certs = certs /\ g.deleted = f.deleted
      /\ g.torn = f.torn /\ g.gone = f.gone
  BY <1>1 DEF Backup
<1>4. /\ Backup(h) /\ h.cas = f.cas /\ h.certs = f.certs /\ h.deleted = deleted
      /\ h.torn = f.torn /\ h.gone = f.gone
  BY <1>1 DEF Backup
<1>5. /\ new.cas = cas /\ new.certs = {} /\ new.deleted = {} /\ new.torn = FALSE /\ new.gone = gone
  OBVIOUS
<1>6. Job([Idle EXCEPT !.file = new]) /\ [Idle EXCEPT !.file = new].file = new
  <2> HIDE DEF new
  <2> QED  BY <1>2 DEF Job, Idle
<1>7. Job([r EXCEPT !.file.certs = certs]) /\ [r EXCEPT !.file.certs = certs].file = g
  <2>1. [r EXCEPT !.file.certs = certs] = [r EXCEPT !.file = g]
    <3> HIDE DEF r
    <3> QED  BY <1>1 DEF Job
  <2> HIDE DEF r, f, g
  <2>2. Job([r EXCEPT !.file = g]) /\ [r EXCEPT !.file = g].file = g
    BY <1>1, <1>3 DEF Job
  <2> QED  BY <2>1, <2>2
<1> HIDE DEF new, g, h
<1>8. LET q == [Idle EXCEPT !.file = new]
      IN /\ Job(q) /\ q.file.cas = cas /\ q.file.certs = {} /\ q.file.deleted = {}
         /\ q.file.torn = FALSE /\ q.file.gone = gone
  BY <1>5, <1>6
<1>9. LET q == [r EXCEPT !.file.certs = certs]
      IN /\ Job(q) /\ q.file.cas = f.cas /\ q.file.certs = certs
         /\ q.file.deleted = f.deleted /\ q.file.torn = f.torn /\ q.file.gone = f.gone
  BY <1>3, <1>7
<1> QED
  BY <1>4, <1>8, <1>9 DEF new, h

LEMMA MadeStep ==
    ASSUME TypesInv, made < MaxMade, made' = made + 1
    PROVE  made' \in Nat /\ made' \in 1..MaxMade /\ made' \in 0..MaxMade
  BY DEF TypesInv

\* Every variable keeps its type, what is in hand included.
LEMMA TypesKept ==
    ASSUME TypesInv, OwnerInv, TablesInv, HandsInv, BackupInv, [Next]_vars
    PROVE  TypesInv'
<1> DEFINE Rest == /\ CaRows(cas) /\ lastId \in 0..MaxMade
                   /\ certs \subseteq CertRow /\ deleted \subseteq DeletedRow /\ Backup(backup)
                   /\ restores \in 0..MaxRestores /\ owner \in [Ids -> SUBSET CaRow]
                   /\ gone \subseteq Gone /\ mixed \in BOOLEAN
           Clock == now \in Nat /\ now \in 1..MaxNow
           Hands == /\ pc \in [Proc -> Pc]
                    /\ req = [t \in Proc |-> req[t]] /\ \A t \in Proc : Job(req[t])
<1>0. Rest /\ Clock /\ Hands /\ made \in 0..MaxMade
  BY DEF TypesInv
<1>a. Rest' /\ Clock' /\ Hands' /\ made' \in 0..MaxMade => TypesInv'
  BY DEF TypesInv
<1>b. ASSUME UNCHANGED <<tables, backup, restores, ghosts>> PROVE Rest'
  BY <1>0, <1>b DEF tables, ghosts
<1>1. ASSUME NEW t \in Thread, NEW n \in Name, NEW d \in Days, CreateCa(t, n, d) PROVE TypesInv'
  <2>1. Root(n, d) \in CaCert /\ made' \in 0..MaxMade
    <3>1. made < MaxMade /\ made' = made + 1
      BY <1>1 DEF CreateCa
    <3>2. Root(n, d) \in CaCert
      BY <3>1, RootFacts
    <3> QED  BY <3>1, <3>2, MadeStep
  <2>2. Insert(Root(n, d), 0)
    BY <1>1 DEF CreateCa
  <2>3. CaRows(cas') /\ lastId' \in 0..MaxMade /\ owner' \in [Ids -> SUBSET CaRow]
    BY <2>1, <2>2, InsertTyped
  <2>4. Hands'
    BY <1>0, <1>1, TearTyped DEF CreateCa
  <2>5. Rest' /\ Clock'
    BY <1>0, <1>1, <2>3 DEF CreateCa
  <2> QED  BY <1>a, <2>1, <2>4, <2>5
<1>2. ASSUME NEW t \in Thread, NEW id \in DOMAIN cas, NEW n \in Name, NEW d \in Days,
             CreateIntermediate(t, id, n, d)
      PROVE TypesInv'
  <2>1. /\ Intermediate(cas[id].cert, n, d) \in CaCert /\ made' \in 0..MaxMade
        /\ Go(t, "saveCa", [Idle EXCEPT !.ca = id, !.cert = Intermediate(cas[id].cert, n, d)])
    <3>1. made' \in 0..MaxMade
      BY <1>2, MadeStep DEF CreateIntermediate
    <3>2. Intermediate(cas[id].cert, n, d) \in CaCert
      BY <1>2, IntermediateFacts
    <3>3. Go(t, "saveCa", [Idle EXCEPT !.ca = id, !.cert = Intermediate(cas[id].cert, n, d)])
      BY <1>2 DEF CreateIntermediate
    <3> QED  BY <3>1, <3>2, <3>3
  <2>2. Job([Idle EXCEPT !.ca = id, !.cert = Intermediate(cas[id].cert, n, d)])
    BY <2>1, HandTyped, CasFields
  <2>3. Hands'
    BY <2>1, <2>2, GoTyped DEF Pc
  <2> QED  BY <1>0, <1>2, <1>a, <1>b, <2>1, <2>3 DEF CreateIntermediate
<1>3. ASSUME NEW t \in Thread, SaveCa(t) PROVE TypesInv'
  <2>1. CASE Exists(req[t].ca)
    <3>1. Insert(req[t].cert, req[t].ca) /\ req' = [Tear EXCEPT ![t] = Idle]
      BY <1>3, <2>1 DEF SaveCa
    <3>2. req[t].cert \in CaCert /\ req[t].ca \in Ids
      BY <1>3 DEF SaveCa, HandsInv, Hand
    <3>3. CaRows(cas') /\ lastId' \in 0..MaxMade /\ owner' \in [Ids -> SUBSET CaRow]
      BY <3>1, <3>2, InsertTyped
    <3>4. Hands'
      BY <1>0, <1>3, <3>1, TearTyped, IdleType DEF SaveCa, Pc
    <3>5. Rest' /\ Clock'
      BY <1>0, <1>3, <3>3 DEF SaveCa
    <3> QED  BY <1>0, <1>3, <1>a, <3>4, <3>5 DEF SaveCa
  <2>2. CASE ~Exists(req[t].ca)
    <3>1. Hands'
      BY <1>0, <1>3, <2>2, IdleType DEF SaveCa, Pc
    <3>2. Rest' /\ Clock'
      BY <1>0, <1>3, <2>2 DEF SaveCa
    <3> QED  BY <1>0, <1>3, <1>a, <3>1, <3>2 DEF SaveCa
  <2> QED  BY <2>1, <2>2
<1>4. ASSUME NEW t \in Thread, NEW id \in DOMAIN cas, NEW d \in Days, IssueCert(t, id, d) PROVE TypesInv'
  <2>1. /\ Leaf(cas[id].cert, d) \in LeafCert /\ made' \in 0..MaxMade
        /\ Go(t, "saveCert", [Idle EXCEPT !.ca = id, !.cert = Leaf(cas[id].cert, d)])
    <3>1. made' \in 0..MaxMade
      BY <1>4, MadeStep DEF IssueCert
    <3>2. Leaf(cas[id].cert, d) \in LeafCert
      BY <1>4, LeafFacts
    <3>3. Go(t, "saveCert", [Idle EXCEPT !.ca = id, !.cert = Leaf(cas[id].cert, d)])
      BY <1>4 DEF IssueCert
    <3> QED  BY <3>1, <3>2, <3>3
  <2>2. Job([Idle EXCEPT !.ca = id, !.cert = Leaf(cas[id].cert, d)])
    BY <2>1, HandTyped, CasFields
  <2>3. Hands'
    BY <2>1, <2>2, GoTyped DEF Pc
  <2> QED  BY <1>0, <1>4, <1>a, <1>b, <2>1, <2>3 DEF IssueCert
<1>5. ASSUME NEW t \in Thread, SaveCert(t) PROVE TypesInv'
  <2>1. Hands'
    BY <1>5, AnswerTyped DEF SaveCert
  <2>2. req[t].cert \in LeafCert /\ req[t].ca \in Ids
    BY <1>5 DEF SaveCert, HandsInv, Hand
  <2>3. [cert |-> req[t].cert, ca |-> req[t].ca, revoked |-> FALSE] \in CertRow
    BY <2>2 DEF CertRow, LeafCert
  <2>4. certs' \subseteq CertRow
    BY <1>0, <1>5, <2>3 DEF SaveCert
  <2> QED  BY <1>0, <1>5, <1>a, <2>1, <2>4 DEF SaveCert, ghosts
<1>6. ASSUME NEW t \in Reader, NEW id \in DOMAIN cas, DownloadCrl(t, id) \/ AskLists(t, id) PROVE TypesInv'
  <2>1. PICK up \in Ids \cup {0} : ReadSigner(t, id, up, {id})
    BY <1>6, CasFields DEF DownloadCrl, AskLists
  <2>2. id \in Ids /\ cas[id].cert \in CaCert /\ {id} \in SUBSET Ids
    BY CasFields
  <2>3. Job([Idle EXCEPT !.ca = id, !.cert = cas[id].cert, !.up = up, !.seen = {id}])
    BY <2>2, SignerTyped
  <2>4. Hands'
    BY <2>1, <2>3, GoTyped DEF ReadSigner, Pc
  <2> QED  BY <1>0, <1>6, <1>a, <1>b, <2>4 DEF DownloadCrl, AskLists
<1>7. ASSUME NEW t \in Reader, SignList(t) PROVE TypesInv'
  <2>1. Job(req[t])
    BY <1>0
  <2>2. Hands'
    <3>1. CASE Answer(t)
      BY <3>1, AnswerTyped
    <3>2. CASE req[t].up # 0 /\ Go(t, "nextCa", [Idle EXCEPT !.ca = req[t].up, !.seen = req[t].seen \cup {req[t].up}])
      <4>1. req[t].up \in Ids /\ req[t].seen \cup {req[t].up} \in SUBSET Ids
        BY <2>1, <3>2, JobFields
      <4>2. Job([Idle EXCEPT !.ca = req[t].up, !.seen = req[t].seen \cup {req[t].up}])
        BY <4>1, NextTyped
      <4> QED  BY <3>2, <4>2, GoTyped DEF Pc
    <3> QED  BY <1>7, <3>1, <3>2 DEF SignList
  <2> QED  BY <1>0, <1>7, <1>a, <1>b, <2>2 DEF SignList
<1>8. ASSUME NEW t \in Reader, NextCa(t) PROVE TypesInv'
  <2>1. Hands'
    <3>1. CASE Answer(t)
      BY <3>1, AnswerTyped
    <3>2. CASE Exists(req[t].ca) /\ ReadSigner(t, req[t].ca, cas[req[t].ca].parent, req[t].seen)
      <4> DEFINE id == req[t].ca
      <4>1. id \in Ids /\ cas[id].cert \in CaCert /\ cas[id].parent \in Ids \cup {0}
        BY <3>2, CasFields DEF Exists
      <4>2. req[t].seen \in SUBSET Ids
        BY <1>0, JobFields
      <4> HIDE DEF id
      <4>3. Job([Idle EXCEPT !.ca = id, !.cert = cas[id].cert, !.up = cas[id].parent, !.seen = req[t].seen])
        BY <4>1, <4>2, SignerTyped
      <4>4. Go(t, "list", [Idle EXCEPT !.ca = id, !.cert = cas[id].cert, !.up = cas[id].parent, !.seen = req[t].seen])
        BY <3>2 DEF ReadSigner, id
      <4> QED  BY <4>3, <4>4, GoTyped DEF Pc
    <3> QED  BY <1>8, <3>1, <3>2 DEF NextCa
  <2> QED  BY <1>0, <1>8, <1>a, <1>b, <2>1 DEF NextCa
<1>9. ASSUME NEW t \in Reader, ReadCas(t) PROVE TypesInv'
  <2>1. Hands'
    BY <1>9, ReadingTyped, GoTyped DEF ReadCas, Pc
  <2> QED  BY <1>0, <1>9, <1>a, <1>b, <2>1 DEF ReadCas
<1>10. ASSUME NEW t \in Reader, ReadCerts(t) PROVE TypesInv'
  <2>1. Hands'
    BY <1>10, ReadingTyped, GoTyped DEF ReadCerts, Pc
  <2> QED  BY <1>0, <1>10, <1>a, <1>b, <2>1 DEF ReadCerts
<1>11. ASSUME NEW t \in Reader, ReadDeleted(t) PROVE TypesInv'
  <2>1. Backup(backup')
    BY <1>11, ReadingTyped DEF ReadDeleted
  <2>2. Hands'
    BY <1>11, AnswerTyped DEF ReadDeleted
  <2>3. Rest'
    BY <1>0, <1>11, <2>1 DEF ReadDeleted, tables, ghosts
  <2> QED  BY <1>0, <1>11, <1>a, <2>2, <2>3 DEF ReadDeleted
<1>12. ASSUME NEW c \in certs, RevokeCert(c) PROVE TypesInv'
  <2>1. c.ca \in Ids /\ c.cert.serial \in Serial /\ c.cert.to \in Nat /\ [c EXCEPT !.revoked = TRUE] \in CertRow
    BY <1>0 DEF CertRow, Cert
  <2>2. certs' \subseteq CertRow
    BY <1>0, <1>12, <2>1 DEF RevokeCert
  <2>3. <<c.ca, c.cert.serial, c.cert.to>> \in Gone
    BY <2>1 DEF Gone
  <2>4. gone' \subseteq Gone
    BY <1>0, <1>12, <2>3 DEF RevokeCert
  <2> QED  BY <1>0, <1>12, <1>a, <2>2, <2>4 DEF RevokeCert
<1>13. ASSUME NEW c \in certs, DeleteCert(c) PROVE TypesInv'
  <2>1. c.ca \in Ids /\ c.cert.serial \in Serial /\ c.cert.to \in Nat
    BY <1>0 DEF CertRow, Cert
  <2>2. certs' \subseteq CertRow /\ deleted' \subseteq DeletedRow
    BY <1>0, <1>13, <2>1 DEF DeleteCert, DeletedRow
  <2> QED  BY <1>0, <1>13, <1>a, <2>2 DEF DeleteCert, ghosts
<1>14. ASSUME NEW id \in DOMAIN cas, DeleteCa(id) PROVE TypesInv'
  <2>1. Hands'
    BY <1>0, <1>14, TearTyped DEF DeleteCa
  <2>2. CaRows(cas')
    BY <1>0, <1>14 DEF DeleteCa, CaRows
  <2>3. Rest' /\ Clock'
    BY <1>0, <1>14, <2>2 DEF DeleteCa
  <2> QED  BY <1>0, <1>14, <1>a, <2>1, <2>3 DEF DeleteCa
<1>15. CASE RestoreOwn
  BY <1>0, <1>15, RestoreTyped DEF RestoreOwn
<1>16. CASE RestoreForeign
  BY <1>16, RestoreTyped, ForeignAssumption DEF RestoreForeign
<1>17. CASE Tick
  <2>1. now < MaxNow /\ now' = now + 1
    BY <1>17 DEF Tick
  <2>2. Clock'
    BY <1>0, <2>1
  <2> QED  BY <1>0, <1>17, <1>a, <1>b, <2>2 DEF Tick
<1>18. CASE UNCHANGED vars
  BY <1>18 DEF vars, tables, ghosts, TypesInv
<1> QED
  BY <1>1, <1>2, <1>3, <1>4, <1>5, <1>6, <1>7, <1>8, <1>9, <1>10, <1>11, <1>12, <1>13,
     <1>14, <1>15, <1>16, <1>17, <1>18 DEF Next

-------------------------------------------------------------------------------
(* What a step keeps.                                                      *)

\* Nothing of this is ever taken back.
Grows ==
    /\ made \in Nat /\ made' \in Nat /\ made <= made'
    /\ now \in Nat /\ now' \in Nat /\ now <= now'
    /\ \A id \in Ids : owner[id] \subseteq owner'[id]
    /\ strays \subseteq strays'
    /\ mixed => mixed'
    /\ \A s : Leafy(s) => Leafy(s)'

\* A new serial is no other's.
LEMMA NewSerial ==
    ASSUME made < MaxMade, made \in 0..MaxMade
    PROVE  /\ made + 1 \notin 1..made /\ made + 1 \in 1..MaxMade
           /\ made + 1 \notin ForeignLeaves /\ ~OfForeignCa(made + 1)
<1>1. made + 1 \notin 1..made /\ made + 1 \in 1..MaxMade
  OBVIOUS
<1>2. made + 1 \notin ForeignSerial
  BY <1>1, SerialAssumption
<1>3. made + 1 \notin ForeignLeaves
  BY <1>2 DEF ForeignSerial
<1>4. ~OfForeignCa(made + 1)
  BY <1>2 DEF OfForeignCa, ForeignSerial, ForeignCas
<1> QED
  BY <1>1, <1>3, <1>4

\* What is of no CA stays so: a new row has a new serial, that of one in hand,
\* or that of another installation's CA.
LEMMA LeafyStays ==
    ASSUME TypesInv, made' = made \/ (made < MaxMade /\ made' = made + 1),
           \A s : Owned(s)' => Owned(s) \/ Coming(s) \/ OfForeignCa(s) \/ (made' = made + 1 /\ s = made'),
           \A s : Coming(s)' => Coming(s) \/ (made' = made + 1 /\ s = made')
    PROVE  \A s : Leafy(s) => Leafy(s)'
<1> SUFFICES ASSUME NEW s, Leafy(s) PROVE Leafy(s)'
  OBVIOUS
<1>1. /\ s \in 1..made \/ s \in ForeignLeaves
      /\ ~Owned(s) /\ ~Coming(s) /\ ~OfForeignCa(s)
  BY DEF Leafy
<1>2. ~(made' = made + 1 /\ s = made')
  BY <1>1, NewSerial DEF TypesInv
<1>3. ~Owned(s)' /\ ~Coming(s)'
  BY <1>1, <1>2
<1>4. s \in 1..made' \/ s \in ForeignLeaves
  BY <1>1 DEF TypesInv
<1> QED
  BY <1>1, <1>3, <1>4 DEF Leafy, OfForeignCa

LEMMA FileStays ==
    ASSUME Grows, NEW f, CaRows(f.cas), FileInv(f)
    PROVE  FileInv(f)'
<1>1. /\ \A id \in DOMAIN f.cas : id \in Ids /\ f.cas[id] \in owner'[id]
      /\ \A id \in DOMAIN f.cas : f.cas[id].parent = 0 \/ f.cas[id].parent \in DOMAIN f.cas
  BY DEF FileInv, RowsInv, Grows, CaRows
<1>2. RowsVerify(f.cas, strays')
  BY DEF FileInv, RowsInv, Grows, RowsVerify
<1>3. (mixed' /\ f.torn) \/ CertsVerify(f.cas, f.certs, strays')
  BY DEF FileInv, Grows, CertsVerify
<1>4. /\ \A c \in f.certs : Leafy(c.cert.serial)'
      /\ \A r \in f.deleted : Leafy(r.serial)'
      /\ \A g \in f.gone : Leafy(g[2])'
  BY DEF FileInv, Grows
<1> QED
  BY <1>1, <1>2, <1>3, <1>4 DEF FileInv, RowsInv

\* A file that holds no more, and is perhaps torn now
LEMMA FileTorn ==
    ASSUME NEW f, NEW g, FileInv(f), g.cas = f.cas, g.certs = f.certs, g.deleted = f.deleted,
           g.gone = f.gone, f.torn => g.torn
    PROVE  FileInv(g)
  BY DEF FileInv

LEMMA NoFile == FileInv(NoBackup)
<1>1. NoBackup.cas = <<>> /\ NoBackup.certs = {} /\ NoBackup.deleted = {} /\ NoBackup.gone = {}
  BY DEF NoBackup
<1>2. DOMAIN NoBackup.cas = {}
  BY <1>1
<1> QED
  BY <1>1, <1>2 DEF FileInv, RowsInv, RowsVerify, CertsVerify

\* Of what is in hand, nothing is lost when only others step.
LEMMA HandStays ==
    ASSUME Grows, NEW u \in Proc, Hand(u), pc'[u] = pc[u],
           req'[u].ca = req[u].ca, req'[u].cert = req[u].cert,
           pc[u] = "saveCa" => ~Owned(req[u].cert.serial)',
           pc[u] \in {"saveCa", "saveCert"} /\ req[u].cert.serial \notin strays'
               /\ req[u].ca \in DOMAIN cas' => SignedBy(req[u].cert, cas'[req[u].ca].cert)
    PROVE  Hand(u)'
<1>1. /\ pc[u] \in {"saveCa", "saveCert", "list", "nextCa"} => req[u].ca \in Ids
      /\ pc[u] \in {"saveCa", "list"} => req[u].cert \in CaCert
      /\ pc[u] = "saveCert" => req[u].cert \in LeafCert
  BY DEF Hand
<1>2. pc[u] \in {"saveCa", "saveCert"} => Signed(u)'
  <2> SUFFICES ASSUME pc[u] \in {"saveCa", "saveCert"}, req[u].cert.serial \notin strays'
               PROVE  /\ \E row \in owner'[req[u].ca] : SignedBy(req[u].cert, row.cert)
                      /\ req[u].ca \in DOMAIN cas' => SignedBy(req[u].cert, cas'[req[u].ca].cert)
    BY DEF Signed
  <2>1. \E row \in owner[req[u].ca] : SignedBy(req[u].cert, row.cert)
    BY DEF Hand, Signed, Grows
  <2>2. owner[req[u].ca] \subseteq owner'[req[u].ca]
    BY <1>1 DEF Grows
  <2> QED
    BY <2>1, <2>2
<1>3. pc[u] = "saveCa" =>
          /\ req[u].cert.path = "none"
          /\ req[u].cert.from <= now' /\ req[u].cert.from < req[u].cert.to
          /\ req[u].cert.serial \in 1..made' /\ ~Owned(req[u].cert.serial)'
  <2> SUFFICES ASSUME pc[u] = "saveCa"
               PROVE  /\ req[u].cert.path = "none"
                      /\ req[u].cert.from <= now' /\ req[u].cert.from < req[u].cert.to
                      /\ req[u].cert.serial \in 1..made' /\ ~Owned(req[u].cert.serial)'
    OBVIOUS
  <2>1. /\ req[u].cert.path = "none" /\ req[u].cert.from <= now /\ req[u].cert.from < req[u].cert.to
        /\ req[u].cert.serial \in 1..made /\ req[u].cert \in CaCert
    BY DEF Hand
  <2>2. req[u].cert.from \in Nat
    BY <2>1 DEF CaCert, Cert
  <2> QED
    BY <2>1, <2>2 DEF Grows
<1>4. pc[u] = "saveCert" => Leafy(req[u].cert.serial)'
  BY DEF Hand, Grows
<1>5. pc[u] = "list" => \E row \in owner'[req[u].ca] : row.cert = req[u].cert
  BY <1>1 DEF Hand, Grows
<1> QED
  BY <1>1, <1>2, <1>3, <1>4, <1>5 DEF Hand

LEMMA OwnerKept ==
    ASSUME OwnerInv, TypesInv, Grows, owner' = owner, mixed' = mixed, lastId' \in Nat, lastId <= lastId'
    PROVE  OwnerInv'
<1>1. \A id \in Ids : \A row \in owner[id] :
          /\ id <= lastId'
          /\ RootRow(row) \/ row.cert.path = "none"
          /\ row.cert.from <= now' /\ row.cert.from < row.cert.to
          /\ row.cert.serial \in 1..made' \/ OfForeignCa(row.cert.serial)
          /\ \A j \in DOMAIN Foreign.cas : Foreign.cas[j].cert.serial = row.cert.serial => j = id
  <2> SUFFICES ASSUME NEW id \in Ids, NEW row \in owner[id]
               PROVE  /\ id <= lastId' /\ row.cert.from <= now'
                      /\ row.cert.serial \in 1..made' \/ OfForeignCa(row.cert.serial)
    BY DEF OwnerInv
  <2>1. row.cert.from \in Nat
    BY DEF TypesInv, CaRow, Cert
  <2>2. id <= lastId /\ row.cert.from <= now /\ (row.cert.serial \in 1..made \/ OfForeignCa(row.cert.serial))
    BY DEF OwnerInv
  <2>3. id \in Nat /\ lastId \in Nat
    BY DEF TypesInv
  <2> QED
    BY <2>1, <2>2, <2>3 DEF Grows
<1> QED
  BY <1>1 DEF OwnerInv, OfForeignCa

LEMMA OwnerStays ==
    ASSUME OwnerInv, TypesInv, Grows, UNCHANGED <<lastId, owner>>, mixed' = mixed
    PROVE  OwnerInv'
<1>1. lastId' \in Nat /\ lastId <= lastId'
  BY DEF TypesInv
<1> QED
  BY <1>1, OwnerKept

LEMMA TablesStay ==
    ASSUME TablesInv, Grows, UNCHANGED <<cas, certs, deleted, gone, owner, strays>>
    PROVE  TablesInv'
  BY DEF TablesInv, Grows, RowsInv, RowsVerify

LEMMA BackupStays ==
    ASSUME TypesInv, BackupInv, Grows, backup' = backup
    PROVE  BackupInv'
<1>1. CaRows(backup.cas)
  BY BackupFields DEF TypesInv
<1>2. FileInv(backup)'
  BY <1>1, FileStays DEF BackupInv
<1>3. ~backup'.torn => Whole(backup', backup'.certs, backup'.deleted)
  BY DEF BackupInv
<1> QED
  BY <1>2, <1>3 DEF BackupInv

LEMMA FileTyped == ASSUME TypesInv, NEW u \in Proc PROVE CaRows(req[u].file.cas)
  BY BackupFields, JobFields DEF TypesInv

\* The CAs are as they were, and nothing recorded was dropped: what the others
\* have in hand is in order.
LEMMA OthersStay ==
    ASSUME TypesInv, Grows, UNCHANGED <<cas, owner, strays>>, TablesInv', deleted \subseteq deleted',
           \A g : Recorded(g, certs, deleted) => Recorded(g, certs', deleted'),
           NEW u \in Proc, Hand(u), Reading(u), pc'[u] = pc[u], req'[u] = req[u]
    PROVE  Hand(u)' /\ Reading(u)'
<1>1. Hand(u)'
  <2>1. pc[u] = "saveCa" => ~Owned(req[u].cert.serial)'
    BY DEF Hand, Owned
  <2>2. pc[u] \in {"saveCa", "saveCert"} /\ req[u].cert.serial \notin strays'
            /\ req[u].ca \in DOMAIN cas' => SignedBy(req[u].cert, cas'[req[u].ca].cert)
    BY DEF Hand, Signed
  <2>3. req'[u].ca = req[u].ca /\ req'[u].cert = req[u].cert
    OBVIOUS
  <2> QED
    BY <2>1, <2>2, <2>3, HandStays
<1>2. Reading(u)'
  <2> DEFINE f == req[u].file
  <2>1. FileInv(f)'
    BY FileStays, FileTyped DEF Reading
  <2>2. /\ \A c \in certs' : c.ca \in DOMAIN cas
        /\ \A r \in deleted' : r.ca \in DOMAIN cas
    BY DEF TablesInv
  <2>3. f.cas = cas /\ Whole(f, certs, deleted) => Whole(f, certs', deleted')
    BY <2>2 DEF Whole
  <2>4. f.cas = cas /\ Whole(f, f.certs, deleted) => Whole(f, f.certs, deleted')
    BY <2>2 DEF Whole, Recorded
  <2> QED
    BY <2>1, <2>3, <2>4 DEF Reading
<1> QED
  BY <1>1, <1>2

\* CAs came or went: a backup in the making is torn from then on.
LEMMA TornReading ==
    ASSUME TypesInv, Grows, NEW u \in Proc, Reading(u), pc'[u] = pc[u], req'[u] = Tear[u]
    PROVE  Reading(u)'
<1>0. PICK f, g : f = req[u].file /\ g = Tear[u].file
  OBVIOUS
<1>1. /\ g.cas = f.cas /\ g.certs = f.certs /\ g.deleted = f.deleted /\ g.gone = f.gone
      /\ f.torn => g.torn
      /\ pc[u] \in {"readCerts", "readDeleted"} => g.torn
  BY <1>0, TearKeeps
<1>2. FileInv(f) /\ CaRows(f.cas)
  BY <1>0, FileTyped DEF Reading
<1>3. FileInv(g) /\ CaRows(g.cas)
  BY <1>1, <1>2, FileTorn
<1>4. FileInv(g)'
  BY <1>3, FileStays
<1> QED
  BY <1>0, <1>1, <1>4 DEF Reading

\* A step of one thread that leaves the tables as they are
LEMMA QuietGrows ==
    ASSUME TypesInv, UNCHANGED <<now, cas, owner, mixed, strays>>, NEW t \in Proc,
           made' = made \/ (made < MaxMade /\ made' = made + 1),
           \A u \in Proc \ {t} : pc'[u] = pc[u] /\ req'[u] = req[u],
           pc'[t] = "saveCa" => made' = made + 1 /\ req'[t].cert.serial = made'
    PROVE  Grows
<1>1. \A s : Owned(s)' => Owned(s)
  BY DEF Owned
<1>2. \A s : Coming(s)' => Coming(s) \/ (made' = made + 1 /\ s = made')
  BY DEF Coming
<1>3. \A s : Leafy(s) => Leafy(s)'
  BY <1>1, <1>2, LeafyStays
<1> QED
  BY <1>3 DEF Grows, TypesInv

LEMMA QuietStep ==
    ASSUME Inv, Grows, UNCHANGED <<tables, ghosts>>, NEW t \in Proc,
           \A u \in Proc \ {t} : pc'[u] = pc[u] /\ req'[u] = req[u],
           Hand(t)', Reading(t)', pc'[t] = "saveCa" => req'[t].cert.serial \notin 1..made
    PROVE  OwnerInv' /\ TablesInv' /\ ReadingInv' /\ HandsInv'
<1>1. UNCHANGED <<lastId, cas, certs, deleted, owner, gone, mixed, strays>>
  BY DEF tables, ghosts
<1>2. OwnerInv' /\ TablesInv'
  BY <1>1, OwnerStays, TablesStay DEF Inv
<1>3. \A u \in Proc \ {t} : Hand(u)' /\ Reading(u)'
  <2> TAKE u \in Proc \ {t}
  <2>1. Hand(u) /\ Reading(u) /\ TypesInv
    BY DEF Inv, HandsInv, ReadingInv
  <2> QED
    BY <1>1, <1>2, <2>1, OthersStay
<1>4. Apart'
  <2> SUFFICES ASSUME NEW u \in Proc, NEW v \in Proc, pc'[u] = "saveCa", pc'[v] = "saveCa",
                      req'[u].cert.serial = req'[v].cert.serial
               PROVE  u = v
    BY DEF Apart
  <2>1. \A w \in Proc \ {t} : pc'[w] = "saveCa" => req'[w].cert.serial \in 1..made
    BY DEF Inv, HandsInv, Hand
  <2>2. CASE u # t /\ v # t
    BY <2>2 DEF Inv, HandsInv, Apart
  <2> QED
    BY <2>1, <2>2
<1> QED
  BY <1>2, <1>3, <1>4 DEF HandsInv, ReadingInv

LEMMA EmptyReading ==
    ASSUME Grows, NEW t \in Proc, req'[t].file = NoBackup
    PROVE  Reading(t)'
<1>1. CaRows(NoBackup.cas) /\ NoBackup.torn
  BY NoBackupType, BackupFields DEF NoBackup
<1>2. FileInv(NoBackup)'
  BY <1>1, NoFile, FileStays
<1> QED
  BY <1>1, <1>2 DEF Reading

LEMMA IdleHand ==
    ASSUME Grows, NEW t \in Proc, pc'[t] = "idle", req'[t] = Idle
    PROVE  Hand(t)' /\ Reading(t)'
<1>1. req'[t].file = NoBackup
  BY DEF Idle
<1> QED
  BY <1>1, EmptyReading DEF Hand

\* Nobody knows the number of the certificate that is made next.
LEMMA FreshSerial ==
    ASSUME TypesInv, OwnerInv, HandsInv, made < MaxMade
    PROVE  ~Owned(made + 1) /\ ~Coming(made + 1) /\ ~OfForeignCa(made + 1)
<1>1. made + 1 \notin 1..made /\ ~OfForeignCa(made + 1)
  BY NewSerial DEF TypesInv
<1>2. \A id \in Ids : \A row \in owner[id] : row.cert.serial # made + 1
  BY <1>1 DEF OwnerInv
<1>3. \A t \in Proc : pc[t] = "saveCa" => req[t].cert.serial # made + 1
  BY <1>1 DEF HandsInv, Hand
<1> QED
  BY <1>1, <1>2, <1>3 DEF Owned, Coming

LEMMA CreateIntermediateKeeps ==
    ASSUME Inv, TypesInv', NEW t \in Thread, NEW id \in DOMAIN cas, NEW name \in Name, NEW days \in Days,
           CreateIntermediate(t, id, name, days)
    PROVE  Inv'
<1>0. PICK cert : cert = Intermediate(cas[id].cert, name, days)
  OBVIOUS
<1> DEFINE q == [Idle EXCEPT !.ca = id, !.cert = cert]
<1>1. /\ made < MaxMade /\ made' = made + 1
      /\ UNCHANGED <<now, lastId, cas, certs, deleted, backup, restores, owner, gone, mixed, strays>>
  BY DEF CreateIntermediate, tables, ghosts
<1>2. /\ cert \in CaCert /\ cert.serial = made + 1 /\ cert.path = "none"
      /\ cert.from <= now /\ cert.from < cert.to /\ SignedBy(cert, cas[id].cert)
      /\ Go(t, "saveCa", q)
  BY <1>0, IntermediateFacts DEF Inv
<1>3. id \in Ids /\ cas[id] \in owner[id]
  BY IssuerFacts DEF Inv
<1>4. Job(q) /\ q.ca = id /\ q.cert = cert /\ q.file = NoBackup
  BY <1>2, <1>3, HandTyped
<1> HIDE DEF q
<1>5. pc'[t] = "saveCa" /\ req'[t] = q /\ \A u \in Proc \ {t} : pc'[u] = pc[u] /\ req'[u] = req[u]
  BY <1>2, <1>4, GoTyped DEF Pc, Inv
<1>6. Grows
  BY <1>1, <1>2, <1>4, <1>5, QuietGrows DEF Inv
<1>7. ~Owned(cert.serial)'
  BY <1>1, <1>2, FreshSerial DEF Inv, Owned
<1>8. Hand(t)'
  <2>1. Signed(t)'
    BY <1>1, <1>2, <1>3, <1>4, <1>5 DEF Signed
  <2>2. cert.serial \in 1..made'
    BY <1>1, <1>2, <1>6 DEF Grows
  <2> QED
    BY <1>1, <1>2, <1>3, <1>4, <1>5, <1>7, <2>1, <2>2 DEF Hand
<1>9. Reading(t)'
  BY <1>4, <1>5, <1>6, EmptyReading
<1>10. made + 1 \notin 1..made
  BY <1>1, NewSerial DEF Inv, TypesInv
<1>11. OwnerInv' /\ TablesInv' /\ ReadingInv' /\ HandsInv'
  BY <1>1, <1>2, <1>4, <1>5, <1>6, <1>8, <1>9, <1>10, QuietStep DEF tables, ghosts
<1> QED
  BY <1>1, <1>6, <1>11, BackupStays DEF Inv

LEMMA IssueCertKeeps ==
    ASSUME Inv, TypesInv', NEW t \in Thread, NEW id \in DOMAIN cas, NEW days \in Days, IssueCert(t, id, days)
    PROVE  Inv'
<1>0. PICK cert : cert = Leaf(cas[id].cert, days)
  OBVIOUS
<1> DEFINE q == [Idle EXCEPT !.ca = id, !.cert = cert]
<1>1. /\ made < MaxMade /\ made' = made + 1
      /\ UNCHANGED <<now, lastId, cas, certs, deleted, backup, restores, owner, gone, mixed, strays>>
  BY DEF IssueCert, tables, ghosts
<1>2. /\ cert \in LeafCert /\ cert.serial = made + 1
      /\ SignedBy(cert, cas[id].cert)
      /\ Go(t, "saveCert", q)
  BY <1>0, LeafFacts DEF Inv
<1>3. id \in Ids /\ cas[id] \in owner[id]
  BY IssuerFacts DEF Inv
<1>4. Job(q) /\ q.ca = id /\ q.cert = cert /\ q.file = NoBackup
  BY <1>2, <1>3, HandTyped
<1> HIDE DEF q
<1>5. pc'[t] = "saveCert" /\ req'[t] = q /\ \A u \in Proc \ {t} : pc'[u] = pc[u] /\ req'[u] = req[u]
  BY <1>2, <1>4, GoTyped DEF Pc, Inv
<1>6. Grows
  BY <1>1, <1>5, QuietGrows DEF Inv
<1>7. Leafy(cert.serial)'
  <2>1. ~Owned(cert.serial) /\ ~Coming(cert.serial) /\ ~OfForeignCa(cert.serial)
    BY <1>1, <1>2, FreshSerial DEF Inv
  <2>2. ~Owned(cert.serial)' /\ ~Coming(cert.serial)' /\ ~OfForeignCa(cert.serial)
    BY <1>1, <1>5, <2>1 DEF Owned, Coming
  <2>3. cert.serial \in 1..made'
    BY <1>1, <1>2, <1>6 DEF Grows
  <2> QED
    BY <1>2, <2>2, <2>3 DEF Leafy, OfForeignCa
<1>8. Hand(t)'
  <2>1. Signed(t)'
    BY <1>1, <1>2, <1>3, <1>4, <1>5 DEF Signed
  <2> QED
    BY <1>2, <1>3, <1>4, <1>5, <1>7, <2>1 DEF Hand
<1>9. Reading(t)'
  BY <1>4, <1>5, <1>6, EmptyReading
<1>10. OwnerInv' /\ TablesInv' /\ ReadingInv' /\ HandsInv'
  BY <1>1, <1>5, <1>6, <1>8, <1>9, QuietStep DEF tables, ghosts
<1> QED
  BY <1>1, <1>6, <1>10, BackupStays DEF Inv

\* A step of one thread that makes nothing and changes no table
LEMMA ReadStep ==
    ASSUME Inv, TypesInv', UNCHANGED <<now, made, tables, ghosts>>, backup' = backup, NEW t \in Proc,
           \A u \in Proc \ {t} : pc'[u] = pc[u] /\ req'[u] = req[u], pc'[t] # "saveCa",
           Grows => Hand(t)' /\ Reading(t)'
    PROVE  Inv'
<1>1. UNCHANGED <<now, lastId, cas, certs, deleted, owner, gone, mixed, strays>>
  BY DEF tables, ghosts
<1>2. Grows
  BY <1>1, QuietGrows DEF Inv
<1> QED
  BY <1>2, QuietStep, BackupStays DEF Inv

LEMMA AnswerKeeps ==
    ASSUME Inv, TypesInv', NEW t \in Proc, Answer(t), UNCHANGED <<now, made, tables, backup, ghosts>>
    PROVE  Inv'
<1>1. pc'[t] = "idle" /\ req'[t] = Idle /\ \A u \in Proc \ {t} : pc'[u] = pc[u] /\ req'[u] = req[u]
  BY AnswerTyped DEF Inv
<1>2. Grows => Hand(t)' /\ Reading(t)'
  BY <1>1, IdleHand
<1> QED
  BY <1>1, <1>2, ReadStep

LEMMA ReadSignerKeeps ==
    ASSUME Inv, TypesInv', NEW t \in Reader, NEW id \in DOMAIN cas, NEW up \in Ids \cup {0}, NEW seen \in SUBSET Ids,
           ReadSigner(t, id, up, seen), UNCHANGED <<now, made, tables, backup, ghosts>>
    PROVE  Inv'
<1> DEFINE q == [Idle EXCEPT !.ca = id, !.cert = cas[id].cert, !.up = up, !.seen = seen]
<1>1. Go(t, "list", q)
  BY DEF ReadSigner
<1>2. id \in Ids /\ cas[id].cert \in CaCert /\ cas[id] \in owner[id]
  BY IssuerFacts DEF Inv
<1>3. Job(q) /\ q.ca = id /\ q.cert = cas[id].cert /\ q.file = NoBackup
  BY <1>2, NoBackupType DEF Idle, Job
<1> HIDE DEF q
<1>4. pc'[t] = "list" /\ req'[t] = q /\ \A u \in Proc \ {t} : pc'[u] = pc[u] /\ req'[u] = req[u]
  BY <1>1, <1>3, GoTyped DEF Pc, Inv
<1>5. Hand(t)'
  BY <1>2, <1>3, <1>4 DEF Hand, ghosts
<1>6. Grows => Hand(t)' /\ Reading(t)'
  BY <1>3, <1>4, <1>5, EmptyReading
<1> QED
  BY <1>4, <1>6, ReadStep

LEMMA SignListKeeps ==
    ASSUME Inv, TypesInv', NEW t \in Reader, SignList(t)
    PROVE  Inv'
<1>1. CASE Answer(t)
  BY <1>1, AnswerKeeps DEF SignList
<1>2. CASE /\ req[t].up # 0
           /\ Go(t, "nextCa", [Idle EXCEPT !.ca = req[t].up, !.seen = req[t].seen \cup {req[t].up}])
  <2> DEFINE q == [Idle EXCEPT !.ca = req[t].up, !.seen = req[t].seen \cup {req[t].up}]
  <2>1. req[t].up \in Ids /\ req[t].seen \cup {req[t].up} \in SUBSET Ids
    BY <1>2, JobFields DEF Inv, TypesInv
  <2>2. Job(q) /\ q.ca = req[t].up /\ q.file = NoBackup
    BY <2>1, NoBackupType DEF Idle, Job
  <2> HIDE DEF q
  <2>3. pc'[t] = "nextCa" /\ req'[t] = q /\ \A u \in Proc \ {t} : pc'[u] = pc[u] /\ req'[u] = req[u]
    BY <1>2, <2>2, GoTyped DEF Pc, Inv, q
  <2>4. Hand(t)'
    BY <2>1, <2>2, <2>3 DEF Hand
  <2>5. Grows => Hand(t)' /\ Reading(t)'
    BY <2>2, <2>3, <2>4, EmptyReading
  <2> QED
    BY <2>3, <2>5, ReadStep DEF SignList
<1> QED
  BY <1>1, <1>2 DEF SignList

LEMMA NextCaKeeps ==
    ASSUME Inv, TypesInv', NEW t \in Reader, NextCa(t)
    PROVE  Inv'
<1>1. CASE Answer(t)
  BY <1>1, AnswerKeeps DEF NextCa
<1>2. CASE Exists(req[t].ca) /\ ReadSigner(t, req[t].ca, cas[req[t].ca].parent, req[t].seen)
  <2>1. req[t].ca \in DOMAIN cas /\ cas[req[t].ca].parent \in Ids \cup {0} /\ req[t].seen \in SUBSET Ids
    BY <1>2, CasFields, JobFields DEF Inv, TypesInv, Exists
  <2> QED
    BY <1>2, <2>1, ReadSignerKeeps DEF NextCa
<1> QED
  BY <1>1, <1>2 DEF NextCa

LEMMA ReadCasKeeps ==
    ASSUME Inv, TypesInv', NEW t \in Reader, ReadCas(t)
    PROVE  Inv'
<1>0. PICK new : new = [cas |-> cas, certs |-> {}, deleted |-> {}, torn |-> FALSE, gone |-> gone]
  OBVIOUS
<1> DEFINE q == [Idle EXCEPT !.file = new]
<1>1. Go(t, "readCerts", q) /\ UNCHANGED <<now, made, tables, backup, ghosts>>
  BY <1>0 DEF ReadCas
<1>2. /\ Job(q) /\ q.file = new /\ new.cas = cas /\ new.certs = {} /\ new.deleted = {}
      /\ new.torn = FALSE /\ new.gone = gone
  BY <1>0, ReadingTyped DEF Inv, Idle
<1> HIDE DEF q
<1>3. pc'[t] = "readCerts" /\ req'[t] = q /\ \A u \in Proc \ {t} : pc'[u] = pc[u] /\ req'[u] = req[u]
  BY <1>1, <1>2, GoTyped DEF Pc, Inv
<1>4. CaRows(new.cas) /\ FileInv(new) /\ Whole(new, certs, deleted)
  BY <1>2 DEF Inv, TypesInv, TablesInv, FileInv, CertsVerify, Whole
<1>5. UNCHANGED <<cas, certs, deleted>>
  BY <1>1 DEF tables
<1>6. Grows => Hand(t)' /\ Reading(t)'
  <2> HAVE Grows
  <2>1. FileInv(new)'
    BY <1>4, FileStays
  <2> QED
    BY <1>2, <1>3, <1>4, <1>5, <2>1 DEF Hand, Reading
<1> QED
  BY <1>1, <1>3, <1>6, ReadStep

\* Certificates of the CAs there are now, beside CAs read before
LEMMA OfSameCas ==
    ASSUME TypesInv, OwnerInv, TablesInv, ~mixed, NEW f, CaRows(f.cas), FileInv(f)
    PROVE  CertsVerify(f.cas, certs, strays)
<1> SUFFICES ASSUME NEW c \in certs, c.cert.serial \notin strays, c.ca \in DOMAIN f.cas
             PROVE  SignedBy(c.cert, f.cas[c.ca].cert)
  BY DEF CertsVerify
<1>1. c.ca \in DOMAIN cas /\ c.ca \in Ids
  BY DEF TablesInv, CaRows
<1>2. cas[c.ca] \in owner[c.ca] /\ f.cas[c.ca] \in owner[c.ca]
  BY <1>1 DEF TablesInv, FileInv, RowsInv
<1>3. cas[c.ca] = f.cas[c.ca]
  BY <1>1, <1>2 DEF OwnerInv
<1> QED
  BY <1>1, <1>3 DEF TablesInv, CertsVerify

LEMMA ReadCertsKeeps ==
    ASSUME Inv, TypesInv', NEW t \in Reader, ReadCerts(t)
    PROVE  Inv'
<1>0. PICK f, g : f = req[t].file /\ g = [f EXCEPT !.certs = certs]
  OBVIOUS
<1> DEFINE q == [req[t] EXCEPT !.file.certs = certs]
<1>1. pc[t] = "readCerts" /\ Go(t, "readDeleted", q) /\ UNCHANGED <<now, made, tables, backup, ghosts>>
  BY DEF ReadCerts
<1>2. Job(req[t]) /\ Backup(f)
  BY <1>0, JobFields DEF Inv, TypesInv
<1>3. Job(q) /\ q.file = g
  BY <1>0, <1>2, ReadingTyped DEF Inv, Job
<1>4. /\ g.cas = f.cas /\ g.certs = certs /\ g.deleted = f.deleted
      /\ g.torn = f.torn /\ g.gone = f.gone
  BY <1>0, <1>2 DEF Backup
<1> HIDE DEF q
<1>5. pc'[t] = "readDeleted" /\ req'[t] = q /\ \A u \in Proc \ {t} : pc'[u] = pc[u] /\ req'[u] = req[u]
  BY <1>1, <1>3, GoTyped DEF Pc, Inv
<1>6. FileInv(f) /\ (~f.torn => f.cas = cas /\ Whole(f, certs, deleted))
  BY <1>0, <1>1 DEF Inv, ReadingInv, Reading
<1>7. CaRows(f.cas)
  BY <1>2, BackupFields
<1>8. (mixed /\ g.torn) \/ CertsVerify(g.cas, g.certs, strays)
  <2>1. CASE ~f.torn
    BY <1>4, <1>6, <2>1 DEF Inv, TablesInv
  <2>2. CASE ~mixed
    BY <1>4, <1>6, <1>7, <2>2, OfSameCas DEF Inv
  <2>3. CASE f.torn /\ mixed
    BY <1>4, <2>3
  <2> QED
    BY <1>2, <2>1, <2>2, <2>3 DEF Inv, TypesInv, Backup
<1>9. FileInv(g) /\ CaRows(g.cas) /\ (~g.torn => g.cas = cas /\ Whole(g, g.certs, deleted))
  BY <1>4, <1>6, <1>7, <1>8 DEF FileInv, Whole, Inv, TablesInv
<1>10. UNCHANGED <<cas, certs, deleted>>
  BY <1>1 DEF tables
<1>11. Grows => Hand(t)' /\ Reading(t)'
  <2> HAVE Grows
  <2>1. FileInv(g)'
    BY <1>9, FileStays
  <2> QED
    BY <1>3, <1>5, <1>9, <1>10, <2>1 DEF Hand, Reading
<1> QED
  BY <1>1, <1>5, <1>11, ReadStep

LEMMA ReadDeletedKeeps ==
    ASSUME Inv, TypesInv', NEW t \in Reader, ReadDeleted(t)
    PROVE  Inv'
<1>0. PICK f, g : f = req[t].file /\ g = [f EXCEPT !.deleted = deleted]
  OBVIOUS
<1>1. /\ pc[t] = "readDeleted" /\ backup' = g /\ Answer(t)
      /\ UNCHANGED <<now, made, lastId, cas, certs, deleted, owner, gone, mixed, strays>>
  BY <1>0 DEF ReadDeleted, tables, ghosts
<1>2. Backup(f)
  BY <1>0, JobFields DEF Inv, TypesInv
<1>3. /\ g.cas = f.cas /\ g.certs = f.certs /\ g.deleted = deleted
      /\ g.torn = f.torn /\ g.gone = f.gone
  BY <1>0, <1>2 DEF Backup
<1>4. pc'[t] = "idle" /\ req'[t] = Idle /\ \A u \in Proc \ {t} : pc'[u] = pc[u] /\ req'[u] = req[u]
  BY <1>1, AnswerTyped DEF Inv
<1>5. FileInv(f) /\ CaRows(f.cas) /\ (~f.torn => f.cas = cas /\ Whole(f, f.certs, deleted))
  BY <1>0, <1>1, <1>2, BackupFields DEF Inv, ReadingInv, Reading
<1>6. FileInv(g) /\ CaRows(g.cas) /\ (~g.torn => Whole(g, g.certs, g.deleted))
  BY <1>3, <1>5 DEF FileInv, Whole, Inv, TablesInv
<1>7. Grows
  BY <1>1, <1>4, QuietGrows DEF Inv
<1>8. FileInv(g)'
  BY <1>6, <1>7, FileStays
<1>9. BackupInv'
  BY <1>1, <1>6, <1>8 DEF BackupInv
<1>10. Hand(t)' /\ Reading(t)'
  BY <1>4, <1>7, IdleHand
<1> QED
  BY <1>1, <1>4, <1>7, <1>9, <1>10, QuietStep DEF Inv, tables, ghosts

-------------------------------------------------------------------------------
(* Steps that change certificates and revocations, and time                *)

LEMMA RecordStep ==
    ASSUME Inv, TypesInv', Grows, UNCHANGED <<lastId, cas, owner, mixed, strays, backup>>, TablesInv',
           deleted \subseteq deleted', \A g : Recorded(g, certs, deleted) => Recorded(g, certs', deleted'),
           \A u \in Proc : (pc'[u] = pc[u] /\ req'[u] = req[u]) \/ (pc'[u] = "idle" /\ req'[u] = Idle)
    PROVE  Inv'
<1>1. \A u \in Proc : Hand(u)' /\ Reading(u)'
  <2> TAKE u \in Proc
  <2>1. Hand(u) /\ Reading(u) /\ TypesInv
    BY DEF Inv, HandsInv, ReadingInv
  <2>2. CASE pc'[u] = pc[u] /\ req'[u] = req[u]
    BY <2>1, <2>2, OthersStay
  <2>3. CASE pc'[u] = "idle" /\ req'[u] = Idle
    BY <2>3, IdleHand
  <2> QED
    BY <2>2, <2>3
<1>2. Apart'
  BY DEF Inv, HandsInv, Apart
<1>3. OwnerInv'
  BY OwnerStays DEF Inv
<1>4. BackupInv'
  BY BackupStays DEF Inv
<1> QED
  BY <1>1, <1>2, <1>3, <1>4 DEF Inv, HandsInv, ReadingInv

LEMMA StillLeafy ==
    ASSUME TypesInv, UNCHANGED <<made, owner>>, 
           \A u \in Proc : pc'[u] = "saveCa" => pc[u] = "saveCa" /\ req'[u].cert = req[u].cert
    PROVE  \A s : Leafy(s) => Leafy(s)'
<1>1. \A s : Owned(s)' => Owned(s)
  BY DEF Owned
<1>2. \A s : Coming(s)' => Coming(s)
  BY DEF Coming
<1> QED
  BY <1>1, <1>2, LeafyStays

LEMMA SaveCertKeeps ==
    ASSUME Inv, TypesInv', NEW t \in Thread, SaveCert(t)
    PROVE  Inv'
<1>1. /\ pc[t] = "saveCert" /\ Answer(t)
      /\ UNCHANGED <<now, made, lastId, cas, deleted, backup, owner, gone, mixed, strays>>
  BY DEF SaveCert, ghosts
<1>2. pc'[t] = "idle" /\ req'[t] = Idle /\ \A u \in Proc \ {t} : pc'[u] = pc[u] /\ req'[u] = req[u]
  BY <1>1, AnswerTyped DEF Inv
<1>3. Grows
  BY <1>1, <1>2, QuietGrows DEF Inv
<1>4. PICK new : new = [cert |-> req[t].cert, ca |-> req[t].ca, revoked |-> FALSE]
  OBVIOUS
<1>5. new.ca = req[t].ca /\ new.cert = req[t].cert
  BY <1>4
<1>6. Hand(t)
  BY DEF Inv, HandsInv
<1>7. Leafy(new.cert.serial)
  BY <1>1, <1>5, <1>6 DEF Hand
<1>8. new.cert.serial \notin strays /\ new.ca \in DOMAIN cas => SignedBy(new.cert, cas[new.ca].cert)
  BY <1>1, <1>5, <1>6 DEF Hand, Signed
<1>9. /\ certs \subseteq certs'
      /\ \A c \in certs' : c \in certs \/ (c = new /\ new.ca \in DOMAIN cas)
  BY <1>4, <1>5 DEF SaveCert, Exists
<1>10. \A g : Recorded(g, certs, deleted) => Recorded(g, certs', deleted')
  BY <1>1, <1>9 DEF Recorded
<1>11. TablesInv'
  <2>1. RowsInv(cas)'
    BY <1>1 DEF Inv, TablesInv, RowsInv
  <2>2. CertsVerify(cas, certs', strays)
    BY <1>8, <1>9 DEF Inv, TablesInv, CertsVerify
  <2>3. \A c \in certs' : c.ca \in DOMAIN cas /\ Leafy(c.cert.serial)'
    BY <1>3, <1>7, <1>9 DEF Inv, TablesInv, Grows
  <2>4. /\ \A r \in deleted : r.ca \in DOMAIN cas /\ Leafy(r.serial)'
        /\ \A g \in gone : g[1] \in DOMAIN cas /\ Leafy(g[2])' /\ Recorded(g, certs', deleted')
    BY <1>3, <1>10 DEF Inv, TablesInv, Grows
  <2> QED
    BY <1>1, <2>1, <2>2, <2>3, <2>4 DEF TablesInv
<1>12. \A u \in Proc : (pc'[u] = pc[u] /\ req'[u] = req[u]) \/ (pc'[u] = "idle" /\ req'[u] = Idle)
  BY <1>2
<1> QED
  BY <1>1, <1>3, <1>10, <1>11, <1>12, RecordStep

LEMMA RevokeCertKeeps ==
    ASSUME Inv, TypesInv', NEW c \in certs, RevokeCert(c)
    PROVE  Inv'
<1>1. /\ ~c.revoked
      /\ UNCHANGED <<now, made, lastId, cas, deleted, backup, pc, req, owner, mixed, strays>>
  BY DEF RevokeCert
<1>2. PICK new, h : new = [c EXCEPT !.revoked = TRUE] /\ h = <<c.ca, c.cert.serial, c.cert.to>>
  OBVIOUS
<1>3. new.ca = c.ca /\ new.cert = c.cert /\ new.revoked
  BY <1>2 DEF Inv, TypesInv, CertRow
<1>4. certs' = (certs \ {c}) \cup {new} /\ gone' = gone \cup {h}
  BY <1>2 DEF RevokeCert
<1>5. \A s : Leafy(s) => Leafy(s)'
  BY <1>1, StillLeafy DEF Inv
<1>6. Grows
  BY <1>1, <1>5 DEF Grows, Inv, TypesInv
<1>7. \A g : Recorded(g, certs, deleted) => Recorded(g, certs', deleted')
  BY <1>1, <1>4 DEF Recorded
<1>8. h[1] = c.ca /\ h[2] = c.cert.serial /\ h[3] = c.cert.to
  BY <1>2
<1>9. Recorded(h, certs', deleted')
  BY <1>3, <1>4, <1>8 DEF Recorded
<1>10. TablesInv'
  <2>1. RowsInv(cas)'
    BY <1>1 DEF Inv, TablesInv, RowsInv
  <2>2. CertsVerify(cas, certs', strays)
    BY <1>3, <1>4 DEF Inv, TablesInv, CertsVerify
  <2>3. \A d \in certs' : d.ca \in DOMAIN cas /\ Leafy(d.cert.serial)'
    BY <1>3, <1>4, <1>5 DEF Inv, TablesInv
  <2>4. /\ \A r \in deleted : r.ca \in DOMAIN cas /\ Leafy(r.serial)'
        /\ \A g \in gone' : g[1] \in DOMAIN cas /\ Leafy(g[2])' /\ Recorded(g, certs', deleted')
    BY <1>4, <1>5, <1>7, <1>8, <1>9 DEF Inv, TablesInv
  <2> QED
    BY <1>1, <2>1, <2>2, <2>3, <2>4 DEF TablesInv
<1> QED
  BY <1>1, <1>6, <1>7, <1>10, RecordStep

LEMMA DeleteCertKeeps ==
    ASSUME Inv, TypesInv', NEW c \in certs, DeleteCert(c)
    PROVE  Inv'
<1>1. UNCHANGED <<now, made, lastId, cas, backup, pc, req, owner, gone, mixed, strays>>
  BY DEF DeleteCert, ghosts
<1>2. PICK dead : dead = [ca |-> c.ca, serial |-> c.cert.serial, to |-> c.cert.to]
  OBVIOUS
<1>3. dead.ca = c.ca /\ dead.serial = c.cert.serial /\ dead.to = c.cert.to
  BY <1>2
<1>4. certs' = certs \ {c} /\ deleted' = IF c.revoked THEN deleted \cup {dead} ELSE deleted
  BY <1>2 DEF DeleteCert
<1>5. \A s : Leafy(s) => Leafy(s)'
  BY <1>1, StillLeafy DEF Inv
<1>6. Grows
  BY <1>1, <1>5 DEF Grows, Inv, TypesInv
<1>7. \A g : Recorded(g, certs, deleted) => Recorded(g, certs', deleted')
  BY <1>3, <1>4 DEF Recorded
<1>8. TablesInv'
  <2>1. RowsInv(cas)'
    BY <1>1 DEF Inv, TablesInv, RowsInv
  <2>2. CertsVerify(cas, certs', strays)
    BY <1>4 DEF Inv, TablesInv, CertsVerify
  <2>3. \A d \in certs' : d.ca \in DOMAIN cas /\ Leafy(d.cert.serial)'
    BY <1>4, <1>5 DEF Inv, TablesInv
  <2>4. \A r \in deleted' : r.ca \in DOMAIN cas /\ Leafy(r.serial)'
    BY <1>3, <1>4, <1>5 DEF Inv, TablesInv
  <2>5. \A g \in gone : g[1] \in DOMAIN cas /\ Leafy(g[2])' /\ Recorded(g, certs', deleted')
    BY <1>5, <1>7 DEF Inv, TablesInv
  <2> QED
    BY <1>1, <2>1, <2>2, <2>3, <2>4, <2>5 DEF TablesInv
<1> QED
  BY <1>1, <1>4, <1>6, <1>7, <1>8, RecordStep

LEMMA TimeKeeps ==
    ASSUME Inv, TypesInv', now' = now \/ now' = now + 1,
           UNCHANGED <<made, tables, backup, pc, req, ghosts>>
    PROVE  Inv'
<1>1. UNCHANGED <<made, lastId, cas, certs, deleted, backup, pc, req, owner, gone, mixed, strays>>
  BY DEF tables, ghosts
<1>2. \A s : Leafy(s) => Leafy(s)'
  BY <1>1, StillLeafy DEF Inv
<1>3. Grows
  BY <1>1, <1>2 DEF Grows, Inv, TypesInv
<1>4. TablesInv'
  BY <1>1, <1>3, TablesStay DEF Inv
<1> QED
  BY <1>1, <1>3, <1>4, RecordStep DEF Recorded

LEMMA TickKeeps ==
    ASSUME Inv, TypesInv', Tick
    PROVE  Inv'
  BY TimeKeeps DEF Tick

LEMMA StutterKeeps ==
    ASSUME Inv, TypesInv', UNCHANGED vars
    PROVE  Inv'
  BY TimeKeeps DEF vars

-------------------------------------------------------------------------------
(* Steps that bring CAs                                                    *)

\* The next id never stood for a CA.
LEMMA NextIdNew ==
    ASSUME TypesInv, OwnerInv, TablesInv, NextId \in Ids
    PROVE  owner[NextId] = {} /\ NextId \notin DOMAIN cas /\ lastId \in Nat /\ lastId <= NextId
<1>1. lastId \in Nat /\ NextId \in Nat /\ lastId < NextId
  BY DEF NextId, TypesInv
<1>2. \A row \in owner[NextId] : NextId <= lastId
  BY DEF OwnerInv
<1>3. \A row \in owner[NextId] : FALSE
  <2> HIDE DEF Ids
  <2> QED  BY <1>1, <1>2
<1>4. NextId \notin DOMAIN cas
  BY <1>3 DEF TablesInv, RowsInv
<1> QED
  BY <1>1, <1>3, <1>4

LEMMA InsertKeeps ==
    ASSUME Inv, TypesInv', Grows, NEW ca \in CaCert, NEW parent \in Ids \cup {0}, NEW row,
           row = [cert |-> ca, parent |-> parent], Insert(ca, parent),
           parent = 0 \/ parent \in DOMAIN cas,
           \/ RootRow(row)
           \/ /\ ca.path = "none"
              /\ ca.serial \notin strays => /\ parent \in DOMAIN cas /\ RootRow(cas[parent])
                                            /\ SignedBy(ca, cas[parent].cert),
           ca.from <= now, ca.from < ca.to, ca.serial \in 1..made', ~Owned(ca.serial),
           UNCHANGED <<now, certs, deleted, gone, mixed, strays>>
    PROVE  OwnerInv' /\ TablesInv'
<1>0. TypesInv /\ OwnerInv /\ TablesInv
  BY DEF Inv
<1>1. /\ NextId \in Ids /\ lastId' = NextId
      /\ DOMAIN cas' = DOMAIN cas \cup {NextId} /\ cas'[NextId] = row
      /\ \A id \in DOMAIN cas \ {NextId} : cas'[id] = cas[id]
      /\ owner'[NextId] = owner[NextId] \cup {row}
      /\ \A id \in Ids \ {NextId} : owner'[id] = owner[id]
  BY <1>0, InsertTyped
<1>2. owner[NextId] = {} /\ NextId \notin DOMAIN cas /\ lastId \in Nat /\ lastId <= NextId
  BY <1>0, <1>1, NextIdNew
<1>3. PICK n : n = NextId
  OBVIOUS
<1>4. row.cert = ca /\ row.parent = parent
  OBVIOUS
<1>5. n \in Ids /\ n \notin DOMAIN cas /\ DOMAIN cas' = DOMAIN cas \cup {n} /\ lastId' = n
  BY <1>1, <1>2, <1>3
<1>6. /\ owner'[n] = {row} /\ \A id \in Ids \ {n} : owner'[id] = owner[id]
      /\ cas'[n] = row /\ \A id \in DOMAIN cas : cas'[id] = cas[id] /\ id # n
  BY <1>1, <1>2, <1>3
<1>7. OwnerInv'
  <2>1. \A j \in DOMAIN Foreign.cas : Foreign.cas[j].cert.serial # ca.serial
    <3>1. ca.serial \in 1..MaxMade
      BY DEF TypesInv
    <3>2. \A j \in DOMAIN Foreign.cas : Foreign.cas[j].cert.serial \in ForeignSerial
      BY DEF ForeignSerial, ForeignCas
    <3> QED  BY <3>1, <3>2, SerialAssumption
  <2>2. \A id \in Ids : \A a \in owner'[id] :
            /\ id <= lastId'
            /\ RootRow(a) \/ a.cert.path = "none"
            /\ a.cert.from <= now' /\ a.cert.from < a.cert.to
            /\ a.cert.serial \in 1..made' \/ OfForeignCa(a.cert.serial)
            /\ \A j \in DOMAIN Foreign.cas : Foreign.cas[j].cert.serial = a.cert.serial => j = id
    <3> TAKE id \in Ids
    <3>1. CASE id = n
      BY <1>4, <1>5, <1>6, <2>1, <3>1
    <3>2. CASE id # n
      <4>1. owner'[id] = owner[id] /\ lastId \in Nat /\ lastId <= lastId'
        BY <1>2, <1>3, <1>5, <1>6, <3>2
      <4>2. \A a \in owner[id] : id <= lastId /\ (a.cert.serial \in 1..made \/ OfForeignCa(a.cert.serial))
        BY <1>0 DEF OwnerInv
      <4>3. \A a \in owner[id] : id <= lastId' /\ (a.cert.serial \in 1..made' \/ OfForeignCa(a.cert.serial))
        BY <1>5, <4>1, <4>2 DEF Grows
      <4> QED
        BY <1>0, <4>1, <4>3 DEF OwnerInv
    <3> QED  BY <3>1, <3>2
  <2>3. \A i, j \in Ids : \A a \in owner'[i], b \in owner'[j] : a.cert.serial = b.cert.serial => i = j
    <3>1. \A i \in Ids : \A a \in owner[i] : a.cert.serial # ca.serial
      BY DEF Owned
    <3> QED
      BY <1>0, <1>4, <1>6, <3>1 DEF OwnerInv
  <2>4. ~mixed' => \A id \in Ids : \A a, b \in owner'[id] : a = b
    BY <1>0, <1>6 DEF OwnerInv
  <2> QED
    BY <2>2, <2>3, <2>4 DEF OwnerInv, OfForeignCa
<1>8. RowsInv(cas)'
  <2>1. \A id \in DOMAIN cas' : cas'[id] \in owner'[id]
    BY <1>0, <1>5, <1>6, CasFields DEF TablesInv, RowsInv
  <2>2. \A id \in DOMAIN cas' : cas'[id].parent = 0 \/ cas'[id].parent \in DOMAIN cas'
    BY <1>0, <1>4, <1>5, <1>6 DEF TablesInv, RowsInv
  <2>3. RowsVerify(cas', strays)
    <3> SUFFICES ASSUME NEW id \in DOMAIN cas'
                 PROVE  \/ RootRow(cas'[id])
                        \/ /\ cas'[id].cert.path = "none"
                           /\ cas'[id].cert.serial \notin strays =>
                                  /\ cas'[id].parent \in DOMAIN cas' /\ RootRow(cas'[cas'[id].parent])
                                  /\ SignedBy(cas'[id].cert, cas'[cas'[id].parent].cert)
      BY DEF RowsVerify
    <3>1. CASE id = n
      BY <1>4, <1>5, <1>6, <3>1
    <3>2. CASE id \in DOMAIN cas
      BY <1>0, <1>5, <1>6, <3>2 DEF TablesInv, RowsInv, RowsVerify
    <3> QED  BY <1>5, <3>1, <3>2
  <2> QED
    BY <2>1, <2>2, <2>3 DEF RowsInv
<1>9. CertsVerify(cas', certs, strays)
  BY <1>0, <1>6 DEF TablesInv, CertsVerify
<1>10. /\ \A c \in certs : c.ca \in DOMAIN cas' /\ Leafy(c.cert.serial)'
       /\ \A r \in deleted : r.ca \in DOMAIN cas' /\ Leafy(r.serial)'
       /\ \A g \in gone : g[1] \in DOMAIN cas' /\ Leafy(g[2])' /\ Recorded(g, certs, deleted)
  BY <1>0, <1>5 DEF TablesInv, Grows
<1> QED
  BY <1>7, <1>8, <1>9, <1>10 DEF TablesInv

\* What others have in hand is of CAs that had their ids before.
LEMMA InsertOthers ==
    ASSUME Inv, Grows, NEW ca \in CaCert, NEW parent \in Ids \cup {0}, Insert(ca, parent), strays' = strays,
           NEW u \in Proc, pc'[u] = pc[u], req'[u] = Tear[u],
           pc[u] = "saveCa" => req[u].cert.serial # ca.serial
    PROVE  Hand(u)' /\ Reading(u)'
<1>0. TypesInv /\ OwnerInv /\ TablesInv /\ Hand(u) /\ Reading(u)
  BY DEF Inv, HandsInv, ReadingInv
<1>1. PICK n : n = NextId
  OBVIOUS
<1>2. /\ n \in Ids /\ DOMAIN cas' = DOMAIN cas \cup {n}
      /\ \A id \in DOMAIN cas \ {n} : cas'[id] = cas[id]
      /\ owner'[n] = owner[n] \cup {[cert |-> ca, parent |-> parent]}
      /\ \A id \in Ids \ {n} : owner'[id] = owner[id]
      /\ owner[n] = {}
  BY <1>0, <1>1, InsertTyped, NextIdNew
<1>3. pc[u] = "saveCa" => ~Owned(req[u].cert.serial)'
  <2>1. req'[u].cert = req[u].cert
    BY <1>0, TearKeeps
  <2> QED
    BY <1>0, <1>2, <2>1 DEF Hand, Owned
<1>4. pc[u] \in {"saveCa", "saveCert"} /\ req[u].cert.serial \notin strays'
          /\ req[u].ca \in DOMAIN cas' => SignedBy(req[u].cert, cas'[req[u].ca].cert)
  BY <1>0, <1>2 DEF Hand, Signed
<1>5. req'[u].ca = req[u].ca /\ req'[u].cert = req[u].cert
  BY <1>0, TearKeeps
<1>6. Hand(u)'
  BY <1>0, <1>3, <1>4, <1>5, HandStays
<1> QED
  BY <1>0, <1>6, TornReading

LEMMA CreateCaKeeps ==
    ASSUME Inv, TypesInv', NEW t \in Thread, NEW name \in Name, NEW days \in Days, CreateCa(t, name, days)
    PROVE  Inv'
<1>0. PICK ca, row : ca = Root(name, days) /\ row = [cert |-> ca, parent |-> 0]
  OBVIOUS
<1>1. /\ made < MaxMade /\ made' = made + 1 /\ Insert(ca, 0) /\ req' = Tear
      /\ UNCHANGED <<now, certs, deleted, backup, pc, gone, mixed, strays>>
  BY <1>0 DEF CreateCa
<1>2. ca \in CaCert /\ ca.serial = made + 1 /\ RootRow(row) /\ ca.from <= now /\ ca.from < ca.to
  BY <1>0, <1>1, RootFacts DEF Inv
<1>3. ~Owned(ca.serial) /\ ~Coming(ca.serial)
  BY <1>1, <1>2, FreshSerial DEF Inv
<1>4. \A u \in Proc : req'[u].ca = req[u].ca /\ req'[u].cert = req[u].cert
  BY <1>1, TearKeeps DEF Inv
<1>5. PICK n : n = NextId
  OBVIOUS
<1>6. /\ n \in Ids /\ owner'[n] = owner[n] \cup {row} /\ \A id \in Ids \ {n} : owner'[id] = owner[id]
  BY <1>0, <1>1, <1>2, <1>5, InsertTyped DEF Inv
<1>7. Grows
  <2>1. \A s : Owned(s)' => Owned(s) \/ s = ca.serial
    BY <1>0, <1>6 DEF Owned
  <2>2. \A s : Coming(s)' => Coming(s)
    BY <1>1, <1>4 DEF Coming
  <2>3. \A s : Leafy(s) => Leafy(s)'
    BY <1>1, <1>2, <2>1, <2>2, LeafyStays DEF Inv
  <2> QED
    BY <1>1, <1>6, <2>3 DEF Grows, Inv, TypesInv
<1>8. ca.serial \in 1..made'
  BY <1>1, <1>2, <1>7 DEF Grows
<1>9. OwnerInv' /\ TablesInv'
  BY <1>0, <1>1, <1>2, <1>3, <1>7, <1>8, InsertKeeps
<1>10. \A u \in Proc : Hand(u)' /\ Reading(u)'
  <2> TAKE u \in Proc
  <2>1. pc[u] = "saveCa" => req[u].cert.serial # ca.serial
    BY <1>3 DEF Coming
  <2> QED
    BY <1>1, <1>2, <1>7, <2>1, InsertOthers
<1>11. Apart'
  BY <1>1, <1>4 DEF Inv, HandsInv, Apart
<1> QED
  BY <1>1, <1>7, <1>9, <1>10, <1>11, BackupStays DEF Inv, HandsInv, ReadingInv

LEMMA SaveCaKeeps ==
    ASSUME Inv, TypesInv', NEW t \in Thread, SaveCa(t)
    PROVE  Inv'
<1>1. /\ pc[t] = "saveCa" /\ pc' = [pc EXCEPT ![t] = "idle"]
      /\ UNCHANGED <<now, made, certs, deleted, backup, gone, mixed, strays>>
  BY DEF SaveCa
<1>2. pc'[t] = "idle" /\ \A u \in Proc \ {t} : pc'[u] = pc[u]
  BY <1>1 DEF Inv, TypesInv
<1>3. CASE ~Exists(req[t].ca)
  <2>1. req' = [req EXCEPT ![t] = Idle] /\ UNCHANGED <<lastId, cas, owner>>
    BY <1>3 DEF SaveCa
  <2>2. req'[t] = Idle /\ \A u \in Proc \ {t} : req'[u] = req[u]
    BY <2>1 DEF Inv, TypesInv
  <2>3. Grows
    BY <1>1, <1>2, <2>1, <2>2, QuietGrows DEF Inv
  <2>4. TablesInv'
    BY <1>1, <2>1, <2>3, TablesStay DEF Inv
  <2>5. \A u \in Proc : (pc'[u] = pc[u] /\ req'[u] = req[u]) \/ (pc'[u] = "idle" /\ req'[u] = Idle)
    BY <1>2, <2>2
  <2> QED
    BY <1>1, <2>1, <2>3, <2>4, <2>5, RecordStep DEF Recorded
<1>4. CASE Exists(req[t].ca)
  <2>0. PICK ca, parent, row : ca = req[t].cert /\ parent = req[t].ca /\ row = [cert |-> ca, parent |-> parent]
    OBVIOUS
  <2>1. Insert(ca, parent) /\ req' = [Tear EXCEPT ![t] = Idle] /\ parent \in DOMAIN cas
    BY <1>4, <2>0 DEF SaveCa, Exists
  <2>2. /\ ca \in CaCert /\ parent \in Ids
        /\ ca.path = "none" /\ ca.from <= now /\ ca.from < ca.to
        /\ ca.serial \in 1..made /\ ~Owned(ca.serial)
    BY <1>1, <2>0 DEF Inv, HandsInv, Hand
  <2>3. /\ req'[t] = Idle
        /\ \A u \in Proc \ {t} : req'[u] = Tear[u] /\ req'[u].ca = req[u].ca /\ req'[u].cert = req[u].cert
    BY <2>1, TearTyped, TearKeeps DEF Inv
  <2>4. PICK n : n = NextId
    OBVIOUS
  <2>5. /\ n \in Ids /\ owner'[n] = owner[n] \cup {row} /\ \A id \in Ids \ {n} : owner'[id] = owner[id]
    BY <2>0, <2>1, <2>2, <2>4, InsertTyped DEF Inv
  <2>6. Grows
    <3>1. Coming(ca.serial)
      BY <1>1, <2>0 DEF Coming
    <3>2. \A s : Owned(s)' => Owned(s) \/ Coming(s)
      BY <2>0, <2>5, <3>1 DEF Owned
    <3>3. \A s : Coming(s)' => Coming(s)
      BY <1>2, <2>3 DEF Coming
    <3>4. \A s : Leafy(s) => Leafy(s)'
      BY <1>1, <3>2, <3>3, LeafyStays DEF Inv
    <3> QED
      BY <1>1, <2>5, <3>4 DEF Grows, Inv, TypesInv
  <2>7. \/ RootRow(row)
        \/ /\ ca.path = "none"
           /\ ca.serial \notin strays => /\ parent \in DOMAIN cas /\ RootRow(cas[parent])
                                         /\ SignedBy(ca, cas[parent].cert)
    <3> SUFFICES ASSUME ca.serial \notin strays
                 PROVE  RootRow(cas[parent]) /\ SignedBy(ca, cas[parent].cert)
      BY <2>1, <2>2
    <3>1. SignedBy(ca, cas[parent].cert)
      BY <1>1, <2>0, <2>1 DEF Inv, HandsInv, Hand, Signed
    <3>2. cas[parent].cert.path = "any"
      BY <2>2, <3>1 DEF SignedBy
    <3> QED
      BY <2>1, <3>1, <3>2, IssuerFacts DEF Inv
  <2>8. ca.serial \in 1..made'
    BY <1>1, <2>2
  <2>9. OwnerInv' /\ TablesInv'
    BY <1>1, <2>0, <2>1, <2>2, <2>6, <2>7, <2>8, InsertKeeps
  <2>10. \A u \in Proc : Hand(u)' /\ Reading(u)'
    <3> TAKE u \in Proc
    <3>1. CASE u = t
      BY <1>2, <2>3, <2>6, <3>1, IdleHand
    <3>2. CASE u # t
      <4>1. pc[u] = "saveCa" => req[u].cert.serial # ca.serial
        BY <1>1, <2>0, <3>2 DEF Inv, HandsInv, Apart
      <4> QED
        BY <1>1, <1>2, <2>1, <2>2, <2>3, <2>6, <3>2, <4>1, InsertOthers
    <3> QED  BY <3>1, <3>2
  <2>11. Apart'
    BY <1>2, <2>3 DEF Inv, HandsInv, Apart
  <2> QED
    BY <1>1, <2>6, <2>9, <2>10, <2>11, BackupStays DEF Inv, HandsInv, ReadingInv
<1> QED
  BY <1>3, <1>4

-------------------------------------------------------------------------------
(* Steps that take CAs away, and restores                                  *)

\* With a CA the CAs below it go.
LEMMA TreeClosed ==
    ASSUME NEW id, NEW k \in DOMAIN cas, cas[k].parent \in Tree(id)
    PROVE  k \in Tree(id)
  BY DEF Tree, ClosedBelow

LEMMA DeleteCaKeeps ==
    ASSUME Inv, TypesInv', NEW id \in DOMAIN cas, DeleteCa(id)
    PROVE  Inv'
<1>0. PICK tree : tree = Tree(id)
  OBVIOUS
<1>1. /\ cas' = [k \in DOMAIN cas \ tree |-> cas[k]]
      /\ certs' = {c \in certs : c.ca \notin tree}
      /\ deleted' = {r \in deleted : r.ca \notin tree}
      /\ gone' = {g \in gone : g[1] \notin tree}
      /\ req' = Tear
      /\ UNCHANGED <<now, made, lastId, backup, pc, owner, mixed, strays>>
  BY <1>0 DEF DeleteCa
<1>2. \A k \in DOMAIN cas : cas[k].parent \in tree => k \in tree
  BY <1>0, TreeClosed
<1>3. DOMAIN cas' = DOMAIN cas \ tree /\ \A k \in DOMAIN cas' : cas'[k] = cas[k]
  BY <1>1
<1>4. \A u \in Proc : req'[u].ca = req[u].ca /\ req'[u].cert = req[u].cert
  BY <1>1, TearKeeps DEF Inv
<1>5. Grows
  <2>1. \A s : Leafy(s) => Leafy(s)'
    BY <1>1, <1>4, StillLeafy DEF Inv
  <2> QED
    BY <1>1, <2>1 DEF Grows, Inv, TypesInv
<1>6. OwnerInv'
  BY <1>1, <1>5, OwnerStays DEF Inv
<1>7. TablesInv'
  <2>1. RowsInv(cas)'
    <3>1. \A k \in DOMAIN cas' : cas'[k] \in owner[k]
      BY <1>3 DEF Inv, TablesInv, RowsInv
    <3>2. \A k \in DOMAIN cas' : cas'[k].parent = 0 \/ cas'[k].parent \in DOMAIN cas'
      BY <1>2, <1>3 DEF Inv, TablesInv, RowsInv
    <3>3. RowsVerify(cas', strays)
      <4> SUFFICES ASSUME NEW k \in DOMAIN cas'
                   PROVE  \/ RootRow(cas'[k])
                          \/ /\ cas'[k].cert.path = "none"
                             /\ cas'[k].cert.serial \notin strays =>
                                    /\ cas'[k].parent \in DOMAIN cas' /\ RootRow(cas'[cas'[k].parent])
                                    /\ SignedBy(cas'[k].cert, cas'[cas'[k].parent].cert)
        BY DEF RowsVerify
      <4>1. k \in DOMAIN cas /\ cas'[k] = cas[k] /\ cas[k].parent \notin tree
        BY <1>2, <1>3
      <4>2. \/ RootRow(cas[k])
            \/ /\ cas[k].cert.path = "none"
               /\ cas[k].cert.serial \notin strays =>
                      /\ cas[k].parent \in DOMAIN cas /\ RootRow(cas[cas[k].parent])
                      /\ SignedBy(cas[k].cert, cas[cas[k].parent].cert)
        BY <4>1 DEF Inv, TablesInv, RowsInv, RowsVerify
      <4> QED
        BY <1>3, <4>1, <4>2
    <3> QED
      BY <1>1, <3>1, <3>2, <3>3 DEF RowsInv
  <2>2. CertsVerify(cas', certs', strays)
    BY <1>1, <1>3 DEF Inv, TablesInv, CertsVerify
  <2>3. /\ \A c \in certs' : c.ca \in DOMAIN cas' /\ Leafy(c.cert.serial)'
        /\ \A r \in deleted' : r.ca \in DOMAIN cas' /\ Leafy(r.serial)'
    BY <1>1, <1>3, <1>5 DEF Inv, TablesInv, Grows
  <2>4. \A g \in gone' : g[1] \in DOMAIN cas' /\ Leafy(g[2])' /\ Recorded(g, certs', deleted')
    BY <1>1, <1>3, <1>5 DEF Inv, TablesInv, Grows, Recorded
  <2> QED
    BY <1>1, <2>1, <2>2, <2>3, <2>4 DEF TablesInv
<1>8. \A u \in Proc : Hand(u)' /\ Reading(u)'
  <2> TAKE u \in Proc
  <2>1. TypesInv /\ Hand(u) /\ Reading(u)
    BY DEF Inv, HandsInv, ReadingInv
  <2>2. pc[u] = "saveCa" => ~Owned(req[u].cert.serial)'
    BY <1>1, <1>4, <2>1 DEF Hand, Owned
  <2>3. pc[u] \in {"saveCa", "saveCert"} /\ req[u].cert.serial \notin strays'
          /\ req[u].ca \in DOMAIN cas' => SignedBy(req[u].cert, cas'[req[u].ca].cert)
    BY <1>1, <1>3, <2>1 DEF Hand, Signed
  <2>4. Hand(u)'
    BY <1>1, <1>4, <1>5, <2>1, <2>2, <2>3, HandStays
  <2> QED
    BY <1>1, <1>5, <2>1, <2>4, TornReading
<1>9. Apart'
  BY <1>1, <1>4 DEF Inv, HandsInv, Apart
<1> QED
  BY <1>1, <1>5, <1>6, <1>7, <1>8, <1>9, BackupStays DEF Inv, HandsInv, ReadingInv

\* A backup whose rows the ids stand for, now at the latest, is restored.
LEMMA RestoreKeeps ==
    ASSUME Inv, TypesInv', Grows, NEW b, Backup(b), NEW foreign \in BOOLEAN, Restore(b, foreign), OwnerInv',
           FileInv(b)', ~b.torn => Whole(b, b.certs, b.deleted),
           \A u \in Proc : pc[u] = "saveCa" => ~Owned(req[u].cert.serial)',
           ~mixed' => owner' = owner
    PROVE  Inv'
<1>1. /\ Restorable(b) /\ cas' = b.cas /\ certs' = b.certs /\ deleted' = b.deleted
      /\ gone' = IF b.torn THEN {} ELSE b.gone
      /\ mixed' => /\ \A u \in Proc : req[u].cert.serial \in strays'
                   /\ b.torn => \A c \in b.certs : c.cert.serial \in strays'
      /\ req' = Tear /\ UNCHANGED <<now, made, backup, pc>>
  BY DEF Restore
<1>2. \A u \in Proc : req'[u].ca = req[u].ca /\ req'[u].cert = req[u].cert
  BY <1>1, TearKeeps DEF Inv
<1>3. RowsInv(b.cas)'
  BY DEF FileInv
<1>4. TablesInv'
  <2>1. CertsVerify(b.cas, b.certs, strays')
    BY <1>1 DEF FileInv, CertsVerify
  <2>2. /\ \A c \in b.certs : c.ca \in DOMAIN b.cas /\ Leafy(c.cert.serial)'
        /\ \A r \in b.deleted : r.ca \in DOMAIN b.cas /\ Leafy(r.serial)'
    BY <1>1 DEF FileInv, Restorable
  <2>3. \A g \in gone' : g[1] \in DOMAIN b.cas /\ Leafy(g[2])' /\ Recorded(g, b.certs, b.deleted)
    BY <1>1 DEF FileInv, Whole
  <2> QED
    BY <1>1, <1>3, <2>1, <2>2, <2>3 DEF TablesInv, RowsInv
<1>5. \A u \in Proc : Hand(u)' /\ Reading(u)'
  <2> TAKE u \in Proc
  <2>1. TypesInv /\ Hand(u) /\ Reading(u)
    BY DEF Inv, HandsInv, ReadingInv
  <2>2. pc[u] \in {"saveCa", "saveCert"} /\ req[u].cert.serial \notin strays'
          /\ req[u].ca \in DOMAIN cas' => SignedBy(req[u].cert, cas'[req[u].ca].cert)
    <3> SUFFICES ASSUME pc[u] \in {"saveCa", "saveCert"}, req[u].cert.serial \notin strays',
                        req[u].ca \in DOMAIN cas'
                 PROVE  SignedBy(req[u].cert, cas'[req[u].ca].cert)
      OBVIOUS
    <3>1. ~mixed' /\ owner' = owner /\ ~mixed
      BY <1>1 DEF Grows
    <3>2. PICK row \in owner[req[u].ca] : SignedBy(req[u].cert, row.cert)
      BY <2>1 DEF Hand, Signed, Grows
    <3>3. cas'[req[u].ca] \in owner[req[u].ca]
      BY <1>1, <1>3, <3>1 DEF RowsInv
    <3>4. req[u].ca \in Ids
      BY <2>1 DEF Hand
    <3>5. cas'[req[u].ca] = row
      BY <3>1, <3>2, <3>3, <3>4 DEF Inv, OwnerInv
    <3> QED
      BY <3>2, <3>5
  <2>3. Hand(u)'
    BY <1>1, <1>2, <2>1, <2>2, HandStays
  <2> QED
    BY <1>1, <2>1, <2>3, TornReading
<1>6. Apart'
  BY <1>1, <1>2 DEF Inv, HandsInv, Apart
<1> QED
  BY <1>1, <1>4, <1>5, <1>6, BackupStays DEF Inv, HandsInv, ReadingInv

LEMMA RestoreOwnKeeps ==
    ASSUME Inv, TypesInv', RestoreOwn
    PROVE  Inv'
<1>0. PICK b : b = backup
  OBVIOUS
<1>1. /\ Restore(b, FALSE) /\ Backup(b) /\ CaRows(b.cas)
      /\ FileInv(b) /\ (~b.torn => Whole(b, b.certs, b.deleted))
  BY <1>0, BackupFields DEF RestoreOwn, Inv, TypesInv, BackupInv
<1>2. owner' = owner
  <2>1. owner' = [id \in Ids |-> owner[id] \cup {b.cas[i] : i \in DOMAIN b.cas \cap {id}}]
    BY <1>1 DEF Restore
  <2>2. \A id \in Ids : owner[id] \cup {b.cas[i] : i \in DOMAIN b.cas \cap {id}} = owner[id]
    BY <1>1 DEF FileInv, RowsInv
  <2> QED
    BY <2>1, <2>2 DEF Inv, TypesInv
<1>3. /\ lastId' = Greatest(lastId, HighestId(b)) /\ req' = Tear /\ UNCHANGED <<now, made, pc>>
      /\ mixed' = mixed /\ strays \subseteq strays'
  BY <1>1 DEF Restore, Inv, TypesInv
<1>4. \A u \in Proc : req'[u].ca = req[u].ca /\ req'[u].cert = req[u].cert
  BY <1>3, TearKeeps DEF Inv
<1>5. lastId' \in Nat /\ lastId <= lastId'
  <2>1. lastId \in Nat /\ HighestId(b) \in Nat
    BY <1>1, HighestIdFacts DEF Inv, TypesInv
  <2> QED
    BY <1>3, <2>1 DEF Greatest
<1>6. Grows
  <2>1. \A s : Leafy(s) => Leafy(s)'
    BY <1>2, <1>3, <1>4, StillLeafy DEF Inv
  <2> QED
    BY <1>2, <1>3, <2>1 DEF Grows, Inv, TypesInv
<1>7. OwnerInv'
  BY <1>2, <1>3, <1>5, <1>6, OwnerKept DEF Inv
<1>8. FileInv(b)'
  BY <1>1, <1>6, FileStays
<1>9. \A u \in Proc : pc[u] = "saveCa" => ~Owned(req[u].cert.serial)'
  BY <1>2, <1>4 DEF Inv, HandsInv, Hand, Owned
<1> QED
  BY <1>1, <1>2, <1>6, <1>7, <1>8, <1>9, RestoreKeeps

\* The other installation's CAs take their ids, and nobody's serials.
LEMMA ForeignFacts ==
    /\ Backup(Foreign) /\ CaRows(Foreign.cas) /\ ~Foreign.torn
    /\ \A id \in DOMAIN Foreign.cas :
           LET row == Foreign.cas[id]
           IN /\ RootRow(row) \/ row.cert.path = "none"
              /\ row.cert.from <= 1 /\ row.cert.from < row.cert.to
              /\ OfForeignCa(row.cert.serial) /\ row.cert.serial \notin 1..MaxMade
    /\ \A c \in Foreign.certs : c.cert.serial \in ForeignLeaves
    /\ \A r \in Foreign.deleted : r.serial \in ForeignLeaves
    /\ \A g \in Foreign.gone : g[2] \in ForeignLeaves
    /\ \A s \in ForeignLeaves : s \notin 1..MaxMade /\ ~OfForeignCa(s)
<1>1. Backup(Foreign) /\ CaRows(Foreign.cas) /\ ~Foreign.torn
  BY ForeignAssumption, BackupFields
<1>2. \A id \in DOMAIN Foreign.cas :
          LET row == Foreign.cas[id]
          IN /\ RootRow(row) \/ row.cert.path = "none"
             /\ row.cert.from <= 1 /\ row.cert.from < row.cert.to
             /\ OfForeignCa(row.cert.serial) /\ row.cert.serial \notin 1..MaxMade
  <2> TAKE id \in DOMAIN Foreign.cas
  <2>1. Foreign.cas[id].cert \in ForeignCas
    BY DEF ForeignCas
  <2>2. RootRow(Foreign.cas[id]) \/ Foreign.cas[id].cert.path = "none"
    BY ForeignAssumption DEF RowsVerify
  <2>3. Foreign.cas[id].cert.serial \in ForeignSerial
    BY <2>1 DEF ForeignSerial
  <2> QED
    BY <2>1, <2>2, <2>3, ForeignAssumption, SerialAssumption DEF OfForeignCa
<1>3. /\ \A c \in Foreign.certs : c.cert.serial \in ForeignLeaves
      /\ \A r \in Foreign.deleted : r.serial \in ForeignLeaves
  BY DEF ForeignLeaves
<1>4. \A g \in Foreign.gone : g[2] \in ForeignLeaves
  BY <1>3, ForeignAssumption DEF Recorded
<1>5. \A s \in ForeignLeaves : s \notin 1..MaxMade /\ ~OfForeignCa(s)
  BY SerialAssumption DEF ForeignSerial, OfForeignCa, ForeignCas
<1> QED
  BY <1>1, <1>2, <1>3, <1>4, <1>5

LEMMA RestoreForeignKeeps ==
    ASSUME Inv, TypesInv', RestoreForeign
    PROVE  Inv'
<1>0. TypesInv /\ OwnerInv /\ HandsInv
  BY DEF Inv
<1>1. /\ Restore(Foreign, TRUE) /\ Restorable(Foreign)
      /\ owner' = [id \in Ids |-> owner[id] \cup {Foreign.cas[i] : i \in DOMAIN Foreign.cas \cap {id}}]
      /\ lastId' = Greatest(lastId, HighestId(Foreign)) /\ req' = Tear /\ UNCHANGED <<now, made, pc>>
      /\ mixed' = TRUE /\ strays \subseteq strays'
  BY DEF RestoreForeign, Restore
<1>2. /\ \A id \in Ids : owner[id] \subseteq owner'[id]
      /\ \A id \in Ids : \A row \in owner'[id] :
             row \in owner[id] \/ (id \in DOMAIN Foreign.cas /\ row = Foreign.cas[id])
      /\ \A id \in DOMAIN Foreign.cas : id \in Ids /\ Foreign.cas[id] \in owner'[id]
  BY <1>1, ForeignFacts DEF CaRows
<1>3. \A u \in Proc : req'[u].ca = req[u].ca /\ req'[u].cert = req[u].cert
  BY <1>0, <1>1, TearKeeps
<1>4. \A s : Owned(s)' => Owned(s) \/ OfForeignCa(s)
  BY <1>2 DEF Owned, OfForeignCa
<1>5. Grows
  <2>1. \A s : Coming(s)' => Coming(s)
    BY <1>1, <1>3 DEF Coming
  <2>2. \A s : Leafy(s) => Leafy(s)'
    BY <1>0, <1>1, <1>4, <2>1, LeafyStays
  <2> QED
    BY <1>0, <1>1, <1>2, <2>2 DEF Grows, TypesInv
<1>6. /\ lastId \in Nat /\ lastId' \in Nat /\ lastId <= lastId'
      /\ \A id \in DOMAIN Foreign.cas : id <= lastId'
  <2>1. lastId \in Nat /\ HighestId(Foreign) \in Nat /\ \A id \in DOMAIN Foreign.cas : id <= HighestId(Foreign)
    BY <1>0, ForeignFacts, HighestIdFacts DEF TypesInv
  <2>2. \A id \in DOMAIN Foreign.cas : id \in Nat
    BY <1>2
  <2> QED
    BY <1>1, <2>1, <2>2 DEF Greatest
<1>7. OwnerInv'
  <2>1. \A id \in Ids : \A a \in owner'[id] :
            /\ id <= lastId'
            /\ RootRow(a) \/ a.cert.path = "none"
            /\ a.cert.from <= now' /\ a.cert.from < a.cert.to
            /\ a.cert.serial \in 1..made' \/ OfForeignCa(a.cert.serial)
            /\ \A j \in DOMAIN Foreign.cas : Foreign.cas[j].cert.serial = a.cert.serial => j = id
    <3> TAKE id \in Ids
    <3> TAKE a \in owner'[id]
    <3>1. CASE a \in owner[id]
      <4>1. id <= lastId /\ id \in Nat
        BY <1>0, <3>1 DEF OwnerInv
      <4>2. id <= lastId'
        BY <1>6, <4>1
      <4> QED
        BY <1>0, <1>1, <3>1, <4>2 DEF OwnerInv
    <3>2. CASE id \in DOMAIN Foreign.cas /\ a = Foreign.cas[id]
      <4>1. /\ RootRow(a) \/ a.cert.path = "none"
            /\ a.cert.from <= 1 /\ a.cert.from < a.cert.to
            /\ OfForeignCa(a.cert.serial)
        BY <3>2, ForeignFacts
      <4>2. a.cert.from \in Nat
        BY <3>2, ForeignFacts DEF CaRows, CaRow, Cert
      <4>3. a.cert.from <= now'
        BY <1>0, <1>1, <4>1, <4>2 DEF TypesInv
      <4> QED
        BY <1>6, <3>2, <4>1, <4>3, SerialAssumption
    <3> QED  BY <1>2, <3>1, <3>2
  <2>2. \A i, j \in Ids : \A a \in owner'[i], b \in owner'[j] : a.cert.serial = b.cert.serial => i = j
    <3> SUFFICES ASSUME NEW i \in Ids, NEW j \in Ids, NEW a \in owner'[i], NEW b \in owner'[j],
                        a.cert.serial = b.cert.serial
                 PROVE  i = j
      OBVIOUS
    <3>1. CASE a \in owner[i] /\ b \in owner[j]
      BY <1>0, <3>1 DEF OwnerInv
    <3>2. CASE i \in DOMAIN Foreign.cas /\ a = Foreign.cas[i]
      BY <2>1, <3>2
    <3>3. CASE j \in DOMAIN Foreign.cas /\ b = Foreign.cas[j]
      BY <2>1, <3>3
    <3> QED
      BY <1>2, <3>1, <3>2, <3>3
  <2> QED
    BY <1>1, <2>1, <2>2 DEF OwnerInv, OfForeignCa
<1>8. \A u \in Proc : pc[u] = "saveCa" => req[u].cert.serial \in 1..MaxMade /\ ~Owned(req[u].cert.serial)
  <2>1. \A u \in Proc : pc[u] = "saveCa" => req[u].cert.serial \in 1..made /\ ~Owned(req[u].cert.serial)
    BY <1>0 DEF HandsInv, Hand
  <2>2. \A s \in 1..made : s \in 1..MaxMade
    BY <1>0 DEF TypesInv
  <2> QED
    BY <2>1, <2>2
<1>9. \A s \in ForeignLeaves : Leafy(s)'
  <2>1. \A s \in ForeignLeaves : ~Owned(s)
    BY <1>0, ForeignFacts DEF Owned, OwnerInv, TypesInv
  <2>2. \A s \in ForeignLeaves : ~Coming(s)
    BY <1>8, ForeignFacts DEF Coming
  <2>3. \A s \in ForeignLeaves : Leafy(s)
    BY <2>1, <2>2, ForeignFacts DEF Leafy
  <2> QED
    BY <1>5, <2>3 DEF Grows
<1>10. FileInv(Foreign)'
  <2>1. RowsInv(Foreign.cas)'
    BY <1>1, <1>2, ForeignAssumption DEF RowsInv, Restorable, RowsVerify
  <2>2. CertsVerify(Foreign.cas, Foreign.certs, strays')
    BY ForeignAssumption DEF CertsVerify
  <2> QED
    BY <1>9, <2>1, <2>2, ForeignFacts DEF FileInv
<1>11. Whole(Foreign, Foreign.certs, Foreign.deleted)
  BY <1>1, ForeignAssumption DEF Whole, Restorable
<1>12. \A u \in Proc : pc[u] = "saveCa" => ~Owned(req[u].cert.serial)'
  <2> SUFFICES ASSUME NEW u \in Proc, pc[u] = "saveCa" PROVE ~Owned(req[u].cert.serial)'
    OBVIOUS
  <2>1. req[u].cert.serial \in 1..MaxMade /\ ~Owned(req[u].cert.serial)
    BY <1>8
  <2>2. ~OfForeignCa(req[u].cert.serial)
    BY <2>1, ForeignFacts DEF OfForeignCa
  <2> QED
    BY <1>3, <1>4, <2>1, <2>2
<1>13. Backup(Foreign) /\ TRUE \in BOOLEAN
  BY ForeignFacts
<1> QED
  BY <1>1, <1>5, <1>7, <1>10, <1>11, <1>12, <1>13, RestoreKeeps

-------------------------------------------------------------------------------
(* The invariant holds.                                                    *)

LEMMA InitInv == Init => Inv
<1> SUFFICES ASSUME Init PROVE Inv
  OBVIOUS
<1>1. /\ now = 1 /\ made = 0 /\ lastId = 0 /\ cas = <<>> /\ certs = {} /\ deleted = {}
      /\ backup = NoBackup /\ restores = 0 /\ gone = {} /\ mixed = FALSE /\ strays = {}
      /\ pc = [t \in Proc |-> "idle"] /\ req = [t \in Proc |-> Idle] /\ owner = [id \in Ids |-> {}]
  BY DEF Init
<1>2. DOMAIN cas = {} /\ CaRows(cas)
  BY <1>1 DEF CaRows
<1>3. \A t \in Proc : pc[t] = "idle" /\ req[t] = Idle /\ req[t].file = NoBackup
  BY <1>1 DEF Idle
<1>4. TypesInv
  <2>1. now \in Nat /\ now \in 1..MaxNow /\ made \in 0..MaxMade /\ lastId \in 0..MaxMade /\ restores \in 0..MaxRestores
    BY <1>1
  <2>2. Backup(backup) /\ pc \in [Proc -> Pc] /\ req = [t \in Proc |-> req[t]] /\ \A t \in Proc : Job(req[t])
    BY <1>1, NoBackupType, IdleType DEF Pc
  <2> QED
    BY <1>1, <1>2, <2>1, <2>2 DEF TypesInv
<1>5. OwnerInv
  BY <1>1 DEF OwnerInv
<1>6. TablesInv
  BY <1>1, <1>2 DEF TablesInv, RowsInv, RowsVerify, CertsVerify
<1>7. BackupInv
  BY <1>1, NoFile DEF BackupInv, NoBackup
<1>8. ReadingInv
  BY <1>3, NoFile DEF ReadingInv, Reading
<1>9. HandsInv
  BY <1>3 DEF HandsInv, Apart, Hand
<1> QED
  BY <1>4, <1>5, <1>6, <1>7, <1>8, <1>9 DEF Inv

LEMMA StepInv == Inv /\ [Next]_vars => Inv'
<1> SUFFICES ASSUME Inv, [Next]_vars PROVE Inv'
  OBVIOUS
<1>0. TypesInv'
  BY TypesKept DEF Inv
<1>1. ASSUME NEW t \in Thread, NEW n \in Name, NEW d \in Days, CreateCa(t, n, d) PROVE Inv'
  BY <1>0, <1>1, CreateCaKeeps
<1>2. ASSUME NEW t \in Thread, NEW id \in DOMAIN cas, NEW n \in Name, NEW d \in Days,
             CreateIntermediate(t, id, n, d)
      PROVE Inv'
  BY <1>0, <1>2, CreateIntermediateKeeps
<1>3. ASSUME NEW t \in Thread, SaveCa(t) PROVE Inv'
  BY <1>0, <1>3, SaveCaKeeps
<1>4. ASSUME NEW t \in Thread, NEW id \in DOMAIN cas, NEW d \in Days, IssueCert(t, id, d) PROVE Inv'
  BY <1>0, <1>4, IssueCertKeeps
<1>5. ASSUME NEW t \in Thread, SaveCert(t) PROVE Inv'
  BY <1>0, <1>5, SaveCertKeeps
<1>6. ASSUME NEW t \in Reader, NEW id \in DOMAIN cas, DownloadCrl(t, id) \/ AskLists(t, id) PROVE Inv'
  <2>1. /\ \E up \in Ids \cup {0} : ReadSigner(t, id, up, {id})
        /\ UNCHANGED <<now, made, tables, backup, ghosts>>
    BY <1>6, CasFields DEF DownloadCrl, AskLists, Inv
  <2>2. {id} \in SUBSET Ids
    BY CasFields DEF Inv
  <2> QED
    BY <1>0, <2>1, <2>2, ReadSignerKeeps
<1>7. ASSUME NEW t \in Reader, SignList(t) PROVE Inv'
  BY <1>0, <1>7, SignListKeeps
<1>8. ASSUME NEW t \in Reader, NextCa(t) PROVE Inv'
  BY <1>0, <1>8, NextCaKeeps
<1>9. ASSUME NEW t \in Reader, ReadCas(t) PROVE Inv'
  BY <1>0, <1>9, ReadCasKeeps
<1>10. ASSUME NEW t \in Reader, ReadCerts(t) PROVE Inv'
  BY <1>0, <1>10, ReadCertsKeeps
<1>11. ASSUME NEW t \in Reader, ReadDeleted(t) PROVE Inv'
  BY <1>0, <1>11, ReadDeletedKeeps
<1>12. ASSUME NEW c \in certs, RevokeCert(c) PROVE Inv'
  BY <1>0, <1>12, RevokeCertKeeps
<1>13. ASSUME NEW c \in certs, DeleteCert(c) PROVE Inv'
  BY <1>0, <1>13, DeleteCertKeeps
<1>14. ASSUME NEW id \in DOMAIN cas, DeleteCa(id) PROVE Inv'
  BY <1>0, <1>14, DeleteCaKeeps
<1>15. CASE RestoreOwn
  BY <1>0, <1>15, RestoreOwnKeeps
<1>16. CASE RestoreForeign
  BY <1>0, <1>16, RestoreForeignKeeps
<1>17. CASE Tick
  BY <1>0, <1>17, TickKeeps
<1>18. CASE UNCHANGED vars
  BY <1>0, <1>18, StutterKeeps
<1> QED
  BY <1>1, <1>2, <1>3, <1>4, <1>5, <1>6, <1>7, <1>8, <1>9, <1>10, <1>11, <1>12, <1>13,
     <1>14, <1>15, <1>16, <1>17, <1>18 DEF Next

\* Who looks something up leaves everything of Authority as it is.
THEOREM AlwaysInv == LookupsSpec => []Inv
<1>1. LookupsInit => Inv
  BY InitInv DEF LookupsInit
<1>2. LookupsNext => Next \/ UNCHANGED vars
  BY DEF LookupsNext, ReadLeaf, ReadIssuer, SendChain, AskStatus, FindRoot, FindTree, FindCert,
         FindDeleted, FindCa, Tell, Proceed
<1>3. Inv /\ [LookupsNext]_allVars => Inv'
  BY <1>2, StepInv DEF allVars
<1> QED
  BY <1>1, <1>3, PTL DEF LookupsSpec

\* No id passes the last one given out, whatever is restored.
LEMMA InvTypes ==
    ASSUME Inv
    PROVE  TypeOK
<1>1. \A id \in DOMAIN cas : id \in Ids /\ id \in 1..lastId /\ cas[id] \in CaRow
  <2> TAKE id \in DOMAIN cas
  <2>1. id \in Ids /\ cas[id] \in owner[id] /\ cas[id] \in CaRow
    BY IssuerFacts DEF Inv
  <2>2. id <= lastId
    BY <2>1 DEF Inv, OwnerInv
  <2> QED
    BY <2>1, <2>2 DEF Inv, TypesInv
<1> QED
  BY <1>1 DEF Inv, TypesInv, TypeOK

\* The address of a CA's revocation list never comes to mean another CA: an id
\* stands for one row for good, over deletions, and over restores of backups of
\* this installation, however they were torn.
THEOREM AddressKeepsCaHolds == LookupsSpec => []AddressKeepsCa
<1>1. Inv => AddressKeepsCa
  <2> SUFFICES ASSUME Inv, ~mixed, NEW id \in Ids PROVE Cardinality(owner[id]) <= 1
    BY DEF AddressKeepsCa
  <2>1. \A a, b \in owner[id] : a = b
    BY DEF Inv, OwnerInv
  <2>2. CASE owner[id] = {}
    BY <2>2, FS_EmptySet
  <2>3. CASE owner[id] # {}
    <3>1. PICK a : owner[id] = {a}
      BY <2>1, <2>3
    <3>2. Cardinality({a}) = 1
      BY FS_Singleton
    <3> QED
      BY <3>1, <3>2
  <2> QED
    BY <2>2, <2>3
<1> QED
  BY <1>1, AlwaysInv, PTL

\* A backup whose tables were read while no CA came or went can be restored.
THEOREM BackupRestoresHolds == LookupsSpec => []BackupRestores
<1>1. Inv => BackupRestores
  BY DEF Inv, BackupInv, FileInv, RowsInv, Whole, BackupRestores, Restorable
<1> QED
  BY <1>1, AlwaysInv, PTL

\* A list that goes out names every certificate revoked by the CA that signs it
\* and still in its time: the rows of two ids are never of one CA, so the CA
\* whose key was read is the one whose revocations are.
THEOREM ListsCompleteHolds == LookupsSpec => []ListsComplete
<1>1. Inv => ListsComplete
  <2> SUFFICES ASSUME Inv, NEW t \in Reader, pc[t] = "list", NEW g \in gone,
                      cas[g[1]].cert.serial = Sent(t).signer, now < g[3]
               PROVE  g[2] \in Sent(t).revoked
    BY DEF ListsComplete
  <2>1. Sent(t).signer = req[t].cert.serial /\ Sent(t).revoked = Listed(req[t].ca)
    BY DEF Sent, Crl
  <2>2. /\ g[1] \in DOMAIN cas /\ g[1] \in Ids /\ cas[g[1]] \in owner[g[1]]
        /\ Recorded(g, certs, deleted)
    BY IssuerFacts DEF Inv, TablesInv
  <2>3. PICK row \in owner[req[t].ca] : row.cert = req[t].cert /\ req[t].ca \in Ids
    BY DEF Inv, HandsInv, Hand
  <2>4. g[1] = req[t].ca
    BY <2>1, <2>2, <2>3 DEF Inv, OwnerInv
  <2> QED
    BY <2>1, <2>2, <2>4 DEF Recorded, Listed
<1> QED
  BY <1>1, AlwaysInv, PTL

-------------------------------------------------------------------------------
(* Walking up the tree.                                                    *)

LEMMA HasLeast ==
    ASSUME NEW S \in SUBSET Nat, S # {}
    PROVE  \E m \in S : \A k \in S : m <= k
<1>1. PICK m \in S : \A k \in S : ~(<<k, m>> \in OpToRel(<, Nat))
  BY NatLessThanWellFounded, WFMin
<1>2. \A k \in S : ~(k < m)
  <2>1. \A k \in S : k \in Nat /\ m \in Nat
    OBVIOUS
  <2> QED  BY <1>1, <2>1 DEF OpToRel
<1> QED
  BY <1>2

\* The function by which a walk is defined exists.
LEMMA UpExists ==
    ASSUME NEW id, Depth \in Nat
    PROVE  \E up : up = [n \in 0..Depth |-> IF n = 0 THEN <<>> ELSE Climb(id, up[n - 1])]
<1> DEFINE Is(up, n) == up = [m \in 0..n |-> IF m = 0 THEN <<>> ELSE Climb(id, up[m - 1])]
           Lacking == {n \in Nat : ~\E up : Is(up, n)}
<1>1. Lacking = {}
  <2> SUFFICES ASSUME Lacking # {} PROVE FALSE
    OBVIOUS
  <2>1. PICK n \in Lacking : \A k \in Lacking : n <= k
    BY HasLeast
  <2>2. CASE n = 0
    <3> DEFINE up == [m \in 0..0 |-> <<>>]
    <3>1. Is(up, 0)
      OBVIOUS
    <3> QED  BY <2>1, <2>2, <3>1
  <2>3. CASE n # 0
    <3>1. n - 1 \in Nat /\ n - 1 \notin Lacking
      BY <2>1, <2>3
    <3>2. PICK f : Is(f, n - 1)
      BY <3>1
    <3> DEFINE up == [m \in 0..n |-> IF m = n THEN Climb(id, f[n - 1]) ELSE f[m]]
    <3>3. n \in Nat
      BY <2>1
    <3>4. \A m \in 0..n : up[m] = IF m = 0 THEN <<>> ELSE Climb(id, up[m - 1])
      <4> TAKE m \in 0..n
      <4>1. CASE m = n
        BY <2>3, <3>3, <4>1
      <4>2. CASE m # n
        <5>1. m \in 0..(n - 1) /\ up[m] = f[m]
          BY <3>3, <4>2
        <5>2. f[m] = IF m = 0 THEN <<>> ELSE Climb(id, f[m - 1])
          BY <3>2, <5>1
        <5>3. m # 0 => up[m - 1] = f[m - 1]
          BY <3>3, <4>2
        <5> QED  BY <5>1, <5>2, <5>3
      <4> QED  BY <4>1, <4>2
    <3>5. Is(up, n)
      <4>1. up = [m \in 0..n |-> up[m]]
        OBVIOUS
      <4> HIDE DEF up
      <4> QED  BY <3>4, <4>1
    <3> QED  BY <2>1, <3>5
  <2> QED  BY <2>2, <2>3
<1>2. \E up : Is(up, Depth)
  BY <1>1
<1> QED
  BY <1>2

LEMMA WalkSteps ==
    ASSUME TypesInv, NEW id
    PROVE  /\ IsFiniteSet(DOMAIN cas) /\ Depth \in Nat
           /\ \E up : /\ up[0] = <<>> /\ \A n \in 1..Depth : up[n] = Climb(id, up[n - 1])
                      /\ Walk(id) = up[Depth]
<1>1. IsFiniteSet(DOMAIN cas) /\ Cardinality(DOMAIN cas) \in Nat
  <2>1. IsFiniteSet(1..MaxMade)
    BY FS_Interval
  <2>2. DOMAIN cas \in SUBSET (1..MaxMade)
    BY DEF TypesInv, CaRows
  <2> QED
    BY <2>1, <2>2, FS_Subset, FS_CardinalityType
<1>2. Depth \in Nat
  BY <1>1 DEF Depth, Least, MaxDepth
<1> DEFINE up == CHOOSE f : f = [n \in 0..Depth |-> IF n = 0 THEN <<>> ELSE Climb(id, f[n - 1])]
<1>3. up = [n \in 0..Depth |-> IF n = 0 THEN <<>> ELSE Climb(id, up[n - 1])]
  <2>1. \E f : f = [n \in 0..Depth |-> IF n = 0 THEN <<>> ELSE Climb(id, f[n - 1])]
    BY <1>2, UpExists
  <2> QED
    BY <2>1
<1>4. Walk(id) = up[Depth]
  BY DEF Walk
<1> HIDE DEF up
<1>5. up[0] = <<>> /\ \A n \in 1..Depth : up[n] = Climb(id, up[n - 1])
  <2>1. \A n \in 0..Depth : up[n] = IF n = 0 THEN <<>> ELSE Climb(id, up[n - 1])
    BY <1>3
  <2> QED  BY <1>2, <2>1
<1> QED
  BY <1>1, <1>2, <1>4, <1>5

\* From id up the parents
Climbs(id, s) ==
    /\ s \in Seq(DOMAIN cas) /\ Len(s) >= 1 /\ s[1] = id
    /\ \A k \in 1..(Len(s) - 1) : s[k + 1] = cas[s[k]].parent

LEMMA ClimbFirst ==
    ASSUME NEW id
    PROVE  Climb(id, <<>>) = IF id \in DOMAIN cas THEN <<id>> ELSE <<>>
  BY DEF Climb, Exists

LEMMA OneMore == \A a, b : Len(Append(<<a>>, b)) = 2
  OBVIOUS

LEMMA ClimbSecond ==
    ASSUME NEW id \in DOMAIN cas, cas[id].parent \in DOMAIN cas, cas[id].parent # id
    PROVE  Len(Climb(id, <<id>>)) = 2
<1>1. PICK s : s = <<id>>
  OBVIOUS
<1>2. s # <<>> /\ Len(s) = 1 /\ s[1] = id
  BY <1>1
<1>3. \A k \in 1..Len(s) : s[k] # cas[id].parent
  BY <1>2
<1>4. Climb(id, s) = Append(s, cas[id].parent)
  BY <1>2, <1>3 DEF Climb, Exists
<1> QED
  BY <1>1, <1>4, OneMore

LEMMA ClimbOn ==
    ASSUME NEW id \in DOMAIN cas, NEW s, Climbs(id, s)
    PROVE  Climbs(id, Climb(id, s)) /\ Len(Climb(id, s)) >= Len(s)
<1>0. /\ s \in Seq(DOMAIN cas) /\ Len(s) \in Nat /\ Len(s) >= 1 /\ s # <<>> /\ s[1] = id
      /\ \A k \in 1..(Len(s) - 1) : s[k + 1] = cas[s[k]].parent
  BY DEF Climbs
<1> DEFINE next == cas[s[Len(s)]].parent
<1>1. Climb(id, s) = s \/ (next \in DOMAIN cas /\ Climb(id, s) = Append(s, next))
  BY <1>0 DEF Climb, Exists
<1>2. CASE next \in DOMAIN cas /\ Climb(id, s) = Append(s, next)
  <2> DEFINE a == Append(s, next)
  <2>1. a \in Seq(DOMAIN cas) /\ Len(a) = Len(s) + 1 /\ a[Len(s) + 1] = next /\ \A k \in 1..Len(s) : a[k] = s[k]
    BY <1>0, <1>2
  <2>2. \A k \in 1..(Len(a) - 1) : a[k + 1] = cas[a[k]].parent
    <3> TAKE k \in 1..(Len(a) - 1)
    <3>1. CASE k = Len(s)
      BY <1>0, <2>1, <3>1
    <3>2. CASE k # Len(s)
      <4> HIDE DEF a, next
      <4>1. k \in 1..(Len(s) - 1) /\ k + 1 \in 1..Len(s) /\ k \in 1..Len(s)
        BY <1>0, <2>1, <3>2
      <4> QED  BY <1>0, <2>1, <4>1
    <3> QED  BY <3>1, <3>2
  <2>3. a[1] = id /\ Len(a) >= 1 /\ Len(a) >= Len(s)
    BY <1>0, <2>1
  <2> QED
    BY <1>2, <2>1, <2>2, <2>3 DEF Climbs
<1> QED
  BY <1>0, <1>1, <1>2

\* A walk from a CA that is there goes from it, each time to the parent, and
\* at least to the first.
LEMMA WalkFacts ==
    ASSUME TypesInv, NEW id \in DOMAIN cas
    PROVE  /\ Climbs(id, Walk(id))
           /\ cas[id].parent \in DOMAIN cas /\ cas[id].parent # id => Len(Walk(id)) >= 2
<1>1. PICK up : /\ up[0] = <<>> /\ \A n \in 1..Depth : up[n] = Climb(id, up[n - 1])
                /\ Walk(id) = up[Depth]
  BY WalkSteps
<1>2. Depth \in Nat /\ IsFiniteSet(DOMAIN cas)
  BY WalkSteps
<1> DEFINE Two == cas[id].parent \in DOMAIN cas /\ cas[id].parent # id
<1>3. Depth >= 1 /\ (Two => Depth >= 2)
  <2>1. Cardinality(DOMAIN cas) \in Nat /\ Cardinality(DOMAIN cas) # 0
    BY <1>2, FS_CardinalityType, FS_EmptySet
  <2>2. Two => Cardinality(DOMAIN cas) # 1
    <3> SUFFICES ASSUME Two, Cardinality(DOMAIN cas) = 1 PROVE FALSE
      OBVIOUS
    <3>1. PICK x : DOMAIN cas = {x}
      BY <1>2, FS_Singleton
    <3> QED  BY <3>1
  <2> QED
    BY <2>1, <2>2 DEF Depth, Least, MaxDepth
<1>4. up[1] = <<id>> /\ Climbs(id, up[1])
  <2>1. up[1] = Climb(id, up[0])
    BY <1>1, <1>2, <1>3
  <2>2. up[1] = <<id>>
    BY <1>1, <2>1, ClimbFirst
  <2> QED
    BY <2>2 DEF Climbs
<1> DEFINE Fine(n) == Climbs(id, up[n]) /\ (Two /\ n >= 2 => Len(up[n]) >= 2)
           Bad == {n \in 1..Depth : ~Fine(n)}
<1>5. Bad = {}
  <2> SUFFICES ASSUME Bad # {} PROVE FALSE
    OBVIOUS
  <2>1. Bad \in SUBSET Nat
    BY <1>2
  <2>2. PICK n \in Bad : \A k \in Bad : n <= k
    BY <2>1, HasLeast
  <2>3. n # 1
    BY <1>4, <2>2
  <2>4. n \in 2..Depth /\ n - 1 \in 1..Depth /\ n \in Nat
    BY <1>2, <2>2, <2>3
  <2>5. Fine(n - 1)
    BY <2>2, <2>4
  <2>6. up[n] = Climb(id, up[n - 1])
    BY <1>1, <1>2, <2>4
  <2>7. Climbs(id, up[n]) /\ Len(up[n]) >= Len(up[n - 1])
    BY <2>5, <2>6, ClimbOn
  <2>8. ASSUME Two PROVE Len(up[n]) >= 2
    <3>1. CASE n = 2
      <4>1. up[2] = Climb(id, <<id>>)
        BY <1>4, <2>6, <3>1
      <4>2. Len(up[2]) = 2
        BY <2>8, <4>1, ClimbSecond
      <4> QED
        BY <3>1, <4>2
    <3>2. CASE n # 2
      <4>1. n - 1 >= 2 /\ Len(up[n - 1]) \in Nat /\ Len(up[n]) \in Nat
        BY <2>4, <2>5, <2>7, <3>2 DEF Climbs
      <4>2. Len(up[n - 1]) >= 2
        BY <2>5, <2>8, <4>1
      <4> QED
        BY <2>7, <4>1, <4>2
    <3> QED  BY <3>1, <3>2
  <2>9. Fine(n)
    BY <2>7, <2>8
  <2> QED
    BY <2>2, <2>9
<1>6. Fine(Depth)
  BY <1>2, <1>3, <1>5
<1> QED
  BY <1>1, <1>3, <1>6

\* A CA's chain, unless a stray is in it: itself a root, or below one.
LEMMA ChainVerifies ==
    ASSUME Inv, NEW id \in DOMAIN cas, \A k \in 1..Len(Walk(id)) : cas[Walk(id)[k]].cert.serial \notin strays
    PROVE  LET w == Walk(id)
           IN /\ RootRow(cas[w[Len(w)]])
              /\ \A k \in 1..(Len(w) - 1) : SignedBy(cas[w[k]].cert, cas[w[k + 1]].cert)
<1>0. TypesInv
  BY DEF Inv
<1>1. PICK w : w = Walk(id)
  OBVIOUS
<1>2. /\ w \in Seq(DOMAIN cas) /\ Len(w) \in Nat /\ Len(w) >= 1 /\ w[1] = id
      /\ \A k \in 1..(Len(w) - 1) : w[k + 1] = cas[w[k]].parent
      /\ cas[id].parent \in DOMAIN cas /\ cas[id].parent # id => Len(w) >= 2
  <2>1. Climbs(id, w) /\ (cas[id].parent \in DOMAIN cas /\ cas[id].parent # id => Len(w) >= 2)
    BY <1>0, <1>1, WalkFacts
  <2> QED  BY <2>1 DEF Climbs
<1>3. \A k \in 1..Len(w) : w[k] \in DOMAIN cas /\ cas[w[k]].cert.serial \notin strays
  BY <1>1, <1>2
<1>4. \A k \in 1..Len(w) :
          \/ RootRow(cas[w[k]])
          \/ /\ cas[w[k]].cert.path = "none"
             /\ cas[w[k]].parent \in DOMAIN cas /\ RootRow(cas[cas[w[k]].parent])
             /\ SignedBy(cas[w[k]].cert, cas[cas[w[k]].parent].cert)
  BY <1>3 DEF Inv, TablesInv, RowsInv, RowsVerify
<1>5. \A k \in 1..(Len(w) - 1) : RootRow(cas[w[k + 1]]) /\ SignedBy(cas[w[k]].cert, cas[w[k + 1]].cert)
  <2> TAKE k \in 1..(Len(w) - 1)
  <2>1. k \in 1..Len(w) /\ k + 1 \in 1..Len(w) /\ w[k + 1] = cas[w[k]].parent
    BY <1>2
  <2>2. w[k + 1] \in Ids
    BY <1>0, <1>3, <2>1, CasFields
  <2>3. ~RootRow(cas[w[k]])
    BY <2>1, <2>2 DEF RootRow
  <2> QED
    BY <1>4, <2>1, <2>3
<1>6. RootRow(cas[w[Len(w)]])
  <2>1. CASE Len(w) = 1
    <3> SUFFICES ASSUME ~RootRow(cas[id]) PROVE FALSE
      BY <1>2, <2>1
    <3>1. cas[id].parent \in DOMAIN cas /\ RootRow(cas[cas[id].parent])
      BY <1>2, <1>4, <2>1
    <3>2. cas[id].parent # id
      BY <3>1
    <3> QED
      BY <1>2, <2>1, <3>1, <3>2
  <2>2. CASE Len(w) # 1
    <3>1. PICK n \in Nat : n = Len(w) /\ n >= 1
      BY <1>2
    <3>2. n - 1 \in 1..(n - 1) /\ (n - 1) + 1 = n
      BY <2>2, <3>1
    <3> QED
      BY <1>5, <3>1, <3>2
  <2> QED  BY <2>1, <2>2
<1> QED
  BY <1>1, <1>5, <1>6

LEMMA CaChainHolds ==
    ASSUME Inv, NEW id \in DOMAIN cas
    PROVE  Holds(Chain(id))
<1>1. PICK w : w = Walk(id)
  OBVIOUS
<1>2. w \in Seq(DOMAIN cas) /\ Len(w) \in Nat /\ Len(w) >= 1
  BY <1>1, WalkFacts DEF Climbs, Inv
<1>3. PICK chain : chain = [k \in 1..Len(w) |-> cas[w[k]].cert]
  OBVIOUS
<1>4. Chain(id) = chain
  BY <1>1, <1>3 DEF Chain
<1>5. chain \in Seq({cas[i].cert : i \in DOMAIN cas}) /\ Len(chain) = Len(w)
  BY <1>2, <1>3
<1>6. chain # <<>> /\ \A k \in 1..Len(w) : chain[k] = cas[w[k]].cert
  BY <1>2, <1>3, <1>5
<1>7. CASE \E k \in 1..Len(w) : cas[w[k]].cert.serial \in strays
  BY <1>4, <1>5, <1>6, <1>7 DEF Holds
<1>8. CASE \A k \in 1..Len(w) : cas[w[k]].cert.serial \notin strays
  <2>1. /\ RootRow(cas[w[Len(w)]])
        /\ \A k \in 1..(Len(w) - 1) : SignedBy(cas[w[k]].cert, cas[w[k + 1]].cert)
    BY <1>1, <1>8, ChainVerifies
  <2>2. chain[Len(chain)].signer = chain[Len(chain)].serial /\ chain[Len(chain)].path = "any"
    BY <1>2, <1>5, <1>6, <2>1 DEF RootRow, RootCert
  <2>3. \A k \in 1..(Len(chain) - 1) : SignedBy(chain[k], chain[k + 1])
    <3> TAKE k \in 1..(Len(chain) - 1)
    <3>1. k \in 1..(Len(w) - 1) /\ k \in 1..Len(w) /\ k + 1 \in 1..Len(w)
      BY <1>2, <1>5
    <3>2. chain[k] = cas[w[k]].cert /\ chain[k + 1] = cas[w[k + 1]].cert
      BY <1>6, <3>1
    <3> QED
      BY <2>1, <3>1, <3>2
  <2>4. Verifies(chain)
    BY <1>6, <2>2, <2>3 DEF Verifies, Linked, RootCert
  <2> QED
    BY <1>4, <2>4 DEF Holds
<1> QED
  BY <1>7, <1>8

\* A certificate signed by the CA holds with the CA's chain.
LEMMA LeafChainHolds ==
    ASSUME Inv, NEW cert, NEW id \in DOMAIN cas,
           cert.serial \notin strays => SignedBy(cert, cas[id].cert)
    PROVE  Holds(<<cert>> \o Chain(id))
<1>1. PICK w : w = Walk(id)
  OBVIOUS
<1>2. w \in Seq(DOMAIN cas) /\ Len(w) \in Nat /\ Len(w) >= 1 /\ w[1] = id
  BY <1>1, WalkFacts DEF Climbs, Inv
<1>3. PICK chain : chain = [k \in 1..Len(w) |-> cas[w[k]].cert]
  OBVIOUS
<1>4. Chain(id) = chain
  BY <1>1, <1>3 DEF Chain
<1>5. PICK S : S = {cert} \cup {cas[i].cert : i \in DOMAIN cas}
  OBVIOUS
<1>6. chain \in Seq(S) /\ <<cert>> \in Seq(S) /\ Len(chain) = Len(w) /\ chain[1] = cas[id].cert
  BY <1>2, <1>3, <1>5
<1>7. PICK all : all = <<cert>> \o chain
  OBVIOUS
<1>8. /\ all \in Seq(S) /\ Len(all) = Len(chain) + 1 /\ all[1] = cert
      /\ \A k \in 1..Len(chain) : all[k + 1] = chain[k]
  BY <1>6, <1>7
<1>9. Holds(chain)
  BY <1>4, CaChainHolds
<1>10. CASE cert.serial \in strays
  BY <1>2, <1>4, <1>6, <1>7, <1>8, <1>10 DEF Holds
<1>11. CASE \E k \in 1..Len(chain) : chain[k].serial \in strays
  <2>1. PICK k \in 1..Len(chain) : chain[k].serial \in strays
    BY <1>11
  <2>2. k + 1 \in 1..Len(all) /\ all[k + 1].serial \in strays
    BY <1>2, <1>6, <1>8, <2>1
  <2> QED
    BY <1>4, <1>7, <2>2 DEF Holds
<1>12. CASE cert.serial \notin strays /\ Verifies(chain)
  <2>1. all[Len(all)] = chain[Len(chain)] /\ all # <<>> /\ Len(chain) \in 1..Len(chain)
    BY <1>2, <1>6, <1>8
  <2>2. \A k \in 1..(Len(all) - 1) : SignedBy(all[k], all[k + 1])
    <3> TAKE k \in 1..(Len(all) - 1)
    <3>1. k \in 1..Len(chain) /\ all[k + 1] = chain[k]
      BY <1>2, <1>6, <1>8
    <3>2. CASE k = 1
      BY <1>6, <1>8, <1>12, <3>1, <3>2
    <3>3. CASE k # 1
      <4>1. k - 1 \in 1..(Len(chain) - 1) /\ k - 1 \in 1..Len(chain) /\ (k - 1) + 1 = k
        BY <1>2, <1>6, <3>1, <3>3
      <4>2. all[k] = chain[k - 1] /\ SignedBy(chain[k - 1], chain[k])
        BY <1>8, <1>12, <4>1 DEF Verifies, Linked, RootCert
      <4> QED
        BY <3>1, <4>2
    <3> QED  BY <3>2, <3>3
  <2>3. Verifies(all)
    BY <1>12, <2>1, <2>2 DEF Verifies, Linked, RootCert
  <2> QED
    BY <1>4, <1>7, <2>3 DEF Holds
<1> QED
  BY <1>9, <1>10, <1>11, <1>12 DEF Holds

\* Every stored CA and certificate has a chain a client accepts, unless a stray
\* is in it: an intermediate is saved as the child of the CA that signed it,
\* because an id stands for one CA, and it signs no CA, so a chain is at most an
\* intermediate and its root.
THEOREM ChainsHoldHolds == LookupsSpec => []ChainsHold
<1>1. Inv => ChainsHold
  <2> SUFFICES ASSUME Inv PROVE ChainsHold
    OBVIOUS
  <2>1. \A id \in DOMAIN cas : Holds(Chain(id))
    BY CaChainHolds
  <2>2. \A c \in certs : Holds(<<c.cert>> \o Chain(c.ca))
    <3> TAKE c \in certs
    <3>1. c.ca \in DOMAIN cas /\ (c.cert.serial \notin strays => SignedBy(c.cert, cas[c.ca].cert))
      BY DEF Inv, TablesInv, CertsVerify
    <3> QED
      BY <3>1, LeafChainHolds
  <2> QED
    BY <2>1, <2>2 DEF ChainsHold
<1> QED
  BY <1>1, AlwaysInv, PTL

-------------------------------------------------------------------------------
(* What a step of Authority means to who is looking something up.          *)

\* But for a restore, the rows that stay are as they were, a new one has an id
\* that stood for none before, and a revocation of a CA that stays is not lost.
Quiet ==
    /\ \A k \in DOMAIN cas \cap DOMAIN cas' : cas'[k] = cas[k]
    /\ \A k \in DOMAIN cas' \ DOMAIN cas : owner[k] = {}
    /\ \A g \in gone : g[1] \in DOMAIN cas' => g \in gone'
    /\ \A r \in deleted : r.ca \in DOMAIN cas' => r \in deleted'

Onward ==
    /\ \A id \in Ids : owner[id] \subseteq owner'[id]
    /\ strays \subseteq strays'
    /\ mixed => mixed'

LEMMA InsertQuiet ==
    ASSUME TypesInv, OwnerInv, TablesInv, NEW ca \in CaCert, NEW parent \in Ids \cup {0}, Insert(ca, parent),
           UNCHANGED <<certs, deleted, gone, mixed, strays>>
    PROVE  Quiet /\ Onward
<1>1. PICK n : n = NextId
  OBVIOUS
<1>2. /\ DOMAIN cas' = DOMAIN cas \cup {n} /\ owner[n] = {}
      /\ \A id \in DOMAIN cas \ {n} : cas'[id] = cas[id]
      /\ \A id \in Ids \ {n} : owner'[id] = owner[id]
      /\ n \notin DOMAIN cas
  BY <1>1, InsertTyped, NextIdNew
<1> QED
  BY <1>2 DEF Quiet, Onward

LEMMA StepQuiet ==
    ASSUME Inv, [Next]_vars
    PROVE  (restores' # restores \/ Quiet) /\ Onward
<1>0. TypesInv /\ OwnerInv /\ TablesInv /\ HandsInv
  BY DEF Inv
<1>1. CASE UNCHANGED <<cas, deleted, gone, owner, mixed, strays>>
  BY <1>1 DEF Quiet, Onward
<1>2. ASSUME NEW t \in Thread, NEW n \in Name, NEW d \in Days, CreateCa(t, n, d) PROVE Quiet /\ Onward
  <2>1. Root(n, d) \in CaCert /\ Insert(Root(n, d), 0)
        /\ UNCHANGED <<certs, deleted, gone, mixed, strays>>
    BY <1>0, <1>2, RootFacts DEF CreateCa
  <2> QED
    BY <1>0, <2>1, InsertQuiet
<1>3. ASSUME NEW t \in Thread, SaveCa(t) PROVE Quiet /\ Onward
  <2>1. CASE Exists(req[t].ca)
    <3>1. req[t].cert \in CaCert /\ req[t].ca \in Ids
      BY <1>0, <1>3 DEF SaveCa, HandsInv, Hand
    <3>2. Insert(req[t].cert, req[t].ca) /\ UNCHANGED <<certs, deleted, gone, mixed, strays>>
      BY <1>3, <2>1 DEF SaveCa
    <3> QED
      BY <1>0, <3>1, <3>2, InsertQuiet
  <2>2. CASE ~Exists(req[t].ca)
    BY <1>1, <1>3, <2>2 DEF SaveCa
  <2> QED  BY <2>1, <2>2
<1>4. ASSUME NEW c \in certs, RevokeCert(c) PROVE Quiet /\ Onward
  BY <1>4 DEF RevokeCert, Quiet, Onward
<1>5. ASSUME NEW c \in certs, DeleteCert(c) PROVE Quiet /\ Onward
  BY <1>5 DEF DeleteCert, Quiet, Onward, ghosts
<1>6. ASSUME NEW id \in DOMAIN cas, DeleteCa(id) PROVE Quiet /\ Onward
  BY <1>6 DEF DeleteCa, Quiet, Onward
<1>7. ASSUME NEW b, Backup(b), NEW foreign, Restore(b, foreign) PROVE restores' # restores /\ Onward
  <2>1. restores' # restores
    BY <1>0, <1>7 DEF Restore, TypesInv
  <2>2. \A id \in Ids : owner[id] \subseteq owner'[id]
    BY <1>7 DEF Restore
  <2>3. strays \subseteq strays' /\ (mixed => mixed')
    BY <1>7 DEF Restore
  <2> QED
    BY <2>1, <2>2, <2>3 DEF Onward
<1>8. CASE RestoreOwn \/ RestoreForeign
  BY <1>0, <1>7, <1>8, ForeignAssumption DEF RestoreOwn, RestoreForeign, TypesInv
<1>9. ASSUME NEW t \in Thread,
             \/ \E id \in DOMAIN cas, n \in Name, d \in Days : CreateIntermediate(t, id, n, d)
             \/ \E id \in DOMAIN cas, d \in Days : IssueCert(t, id, d)
             \/ SaveCert(t)
      PROVE Quiet /\ Onward
  BY <1>1, <1>9 DEF CreateIntermediate, IssueCert, SaveCert, tables, ghosts
<1>10. ASSUME NEW t \in Reader,
              \/ \E id \in DOMAIN cas : DownloadCrl(t, id) \/ AskLists(t, id)
              \/ SignList(t) \/ NextCa(t) \/ ReadCas(t) \/ ReadCerts(t) \/ ReadDeleted(t)
       PROVE Quiet /\ Onward
  BY <1>1, <1>10 DEF DownloadCrl, AskLists, SignList, NextCa, ReadCas, ReadCerts, ReadDeleted, tables, ghosts
<1>11. CASE Tick \/ UNCHANGED vars
  BY <1>1, <1>11 DEF Tick, vars, tables, ghosts
<1> QED
  BY <1>2, <1>3, <1>4, <1>5, <1>6, <1>8, <1>9, <1>10, <1>11 DEF Next

\* What stays in a CA's tree: with its id gone, all of a tree would be.
LEMMA TreeStays ==
    ASSUME Inv, Inv', Quiet, NEW top \in DOMAIN cas, NEW id \in Tree(top), id \in DOMAIN cas'
    PROVE  top \in DOMAIN cas' /\ id \in Tree(top)'
<1> DEFINE Lost == DOMAIN cas \ DOMAIN cas'
<1>1. \A k \in DOMAIN cas \cap DOMAIN cas' : cas[k].parent = 0 \/ cas[k].parent \in DOMAIN cas'
  BY DEF Inv, TablesInv, RowsInv, Quiet
<1>2. 0 \notin DOMAIN cas
  BY CasFields DEF Inv
<1>3. id \in DOMAIN cas /\ \A S \in SUBSET DOMAIN cas : top \in S /\ ClosedBelow(S) => id \in S
  BY DEF Tree
<1>4. top \notin Lost
  <2>1. Lost \in SUBSET DOMAIN cas /\ ClosedBelow(Lost)
    BY <1>1, <1>2 DEF ClosedBelow
  <2> QED
    BY <1>3, <2>1
<1>5. ASSUME NEW S \in SUBSET DOMAIN cas', top \in S, ClosedBelow(S)' PROVE id \in S
  <2> DEFINE All == (S \cap DOMAIN cas) \cup Lost
  <2>1. \A k \in DOMAIN cas' : cas'[k].parent \in S => k \in S
    BY <1>5 DEF ClosedBelow
  <2>2. ASSUME NEW k \in DOMAIN cas, cas[k].parent \in All PROVE k \in All
    <3>1. CASE k \in DOMAIN cas'
      <4>1. cas'[k] = cas[k]
        BY <3>1 DEF Quiet
      <4>2. cas[k].parent \in S
        BY <1>1, <1>2, <2>2, <3>1
      <4> QED
        BY <2>1, <3>1, <4>1, <4>2
    <3>2. CASE k \notin DOMAIN cas'
      BY <3>2
    <3> QED  BY <3>1, <3>2
  <2>3. All \in SUBSET DOMAIN cas /\ ClosedBelow(All) /\ top \in All
    BY <1>5, <2>2 DEF ClosedBelow
  <2>4. id \in All
    BY <1>3, <2>3
  <2> QED
    BY <2>4
<1> QED
  BY <1>4, <1>5 DEF Tree

-------------------------------------------------------------------------------
(* Full chains.                                                            *)

Last(e) == e.chain[Len(e.chain)]

ExportTyped(e) == e \in Exports /\ e.chain # <<>>

Stray(e) == \E k \in 1..Len(e.chain) : e.chain[k].serial \in strays

\* The last certificate of a chain is a root, or one signed by the CA that is
\* read next: by the one row its id ever stood for, and the one there is now.
NextIssues(cert, id) ==
    /\ \E row \in owner[id] : SignedBy(cert, row.cert)
    /\ id \in DOMAIN cas => SignedBy(cert, cas[id].cert)

Sound(e) ==
    /\ Linked(e.chain)
    /\ e.ca = 0 => RootCert(Last(e))
    /\ e.ca # 0 => NextIssues(Last(e), e.ca)
    /\ e.cut \/ e.ca = 0 \/ e.ca \in DOMAIN cas

ExportInv(t) == export[t] # NoExport =>
    /\ ExportTyped(export[t])
    /\ export[t].crossed \/ Stray(export[t]) \/ Sound(export[t])

ExportsInv ==
    /\ export = [t \in Reader |-> export[t]]
    /\ \A t \in Reader : ExportInv(t)

LEMMA ExportKept ==
    ASSUME Inv, Inv', [Next]_vars, ExportsInv, Overtake
    PROVE  ExportsInv'
<1>1. (restores' # restores \/ Quiet) /\ Onward
  BY StepQuiet
<1>0. export' = [t \in Reader |-> export'[t]]
  BY DEF Overtake
<1> SUFFICES ASSUME NEW t \in Reader, export'[t] # NoExport PROVE ExportInv(t)'
  BY <1>0 DEF ExportsInv, ExportInv
<1>2. PICK e : e = export[t]
  OBVIOUS
<1>3. e # NoExport /\ ExportTyped(e) /\ (e.crossed \/ Stray(e) \/ Sound(e))
  BY <1>2 DEF ExportsInv, ExportInv, Overtake
<1>4. PICK crossed \in BOOLEAN : crossed = (e.crossed \/ (restores' # restores /\ mixed'))
  BY Zenon
<1>5. PICK cut \in BOOLEAN : cut = (e.cut \/ ~(DOMAIN cas \subseteq DOMAIN cas'))
  BY Zenon
<1>6. PICK d : d = export'[t]
  OBVIOUS
<1>7. d = [e EXCEPT !.crossed = crossed, !.cut = cut]
  BY <1>2, <1>3, <1>4, <1>5, <1>6, Zenon DEF Overtake
<1>8. /\ ExportTyped(d) /\ d.ca = e.ca /\ d.chain = e.chain /\ d.crossed = crossed /\ d.cut = cut
  BY <1>3, <1>7 DEF ExportTyped, Exports
<1>9. ASSUME ~crossed, ~(\E k \in 1..Len(d.chain) : d.chain[k].serial \in strays')
      PROVE  /\ Linked(d.chain)
             /\ d.ca = 0 => RootCert(Last(d))
             /\ d.ca # 0 => /\ \E row \in owner'[d.ca] : SignedBy(Last(d), row.cert)
                            /\ d.ca \in DOMAIN cas' => SignedBy(Last(d), cas'[d.ca].cert)
             /\ d.cut \/ d.ca = 0 \/ d.ca \in DOMAIN cas'
  <2>1. Sound(e) /\ Last(d) = Last(e)
    BY <1>1, <1>3, <1>4, <1>8, <1>9 DEF Stray, Onward, Last
  <2>2. d.cut \/ d.ca = 0 \/ d.ca \in DOMAIN cas'
    BY <1>5, <1>8, <2>1 DEF Sound
  <2>3. ASSUME d.ca # 0 PROVE \E row \in owner'[d.ca] : SignedBy(Last(d), row.cert)
    <3>1. d.ca \in Ids
      BY <1>8, <2>3 DEF ExportTyped, Exports
    <3> QED
      BY <1>1, <1>8, <2>1, <2>3, <3>1 DEF Sound, NextIssues, Onward
  <2>4. ASSUME d.ca # 0, d.ca \in DOMAIN cas' PROVE SignedBy(Last(d), cas'[d.ca].cert)
    <3>1. d.ca \in Ids /\ cas'[d.ca] \in owner'[d.ca]
      BY <2>4, CasFields, <1>8 DEF Inv, TablesInv, RowsInv, ExportTyped, Exports
    <3>2. CASE ~mixed'
      <4>1. \A a, b \in owner'[d.ca] : a = b
        BY <3>1, <3>2 DEF Inv, OwnerInv
      <4> QED
        BY <2>3, <2>4, <3>1, <4>1
    <3>3. CASE mixed'
      <4>1. Quiet
        BY <1>1, <1>4, <1>9, <3>3
      <4>2. owner[d.ca] # {}
        BY <1>8, <2>1, <2>4 DEF Sound, NextIssues
      <4>3. d.ca \in DOMAIN cas /\ cas'[d.ca] = cas[d.ca]
        BY <2>4, <4>1, <4>2 DEF Quiet
      <4> QED
        BY <1>8, <2>1, <2>4, <4>3 DEF Sound, NextIssues
    <3> QED  BY <3>2, <3>3
  <2> QED
    BY <1>8, <2>1, <2>2, <2>3, <2>4 DEF Sound
<1>10. d.crossed \/ Stray(d)' \/ Sound(d)'
  BY <1>8, <1>9 DEF Stray, Sound, NextIssues, Last
<1> QED
  BY <1>6, <1>8, <1>10 DEF ExportInv, Stray, Sound, Last, NextIssues

\* The leaf is signed by its CA, the only one its id stood for.
LEMMA ReadLeafExport ==
    ASSUME Inv, ExportsInv, NEW t \in Reader, NEW c \in certs, ReadLeaf(t, c)
    PROVE  ExportsInv'
<1>1. PICK e : e = [at |-> "chain", ca |-> c.ca, chain |-> <<c.cert>>, ids |-> {},
                    crossed |-> FALSE, cut |-> FALSE]
  OBVIOUS
<1>2. /\ export' = [export EXCEPT ![t] = e]
      /\ UNCHANGED <<cas, owner, strays>>
  BY <1>1 DEF ReadLeaf, vars, tables, ghosts
<1>3. c.cert \in CertOfAny /\ c.ca \in Ids /\ c.ca \in DOMAIN cas
  BY DEF Inv, TypesInv, TablesInv, CertRow, CertOfAny
<1>4. <<c.cert>> \in Seq(CertOfAny) /\ <<c.cert>> # <<>> /\ Len(<<c.cert>>) = 1 /\ <<c.cert>>[1] = c.cert
  BY <1>3
<1>5. ExportTyped(e)
  BY <1>1, <1>3, <1>4 DEF ExportTyped, Exports
<1>6. e.ca = c.ca /\ e.chain = <<c.cert>> /\ e.ca # 0
  BY <1>1, <1>3
<1>7. Stray(e) \/ Sound(e)
  <2>1. CASE c.cert.serial \in strays
    BY <1>4, <1>6, <2>1 DEF Stray
  <2>2. CASE c.cert.serial \notin strays
    <3>1. SignedBy(c.cert, cas[c.ca].cert) /\ cas[c.ca] \in owner[c.ca]
      BY <1>3, <2>2, IssuerFacts DEF Inv, TablesInv, CertsVerify
    <3>2. NextIssues(c.cert, c.ca)
      BY <1>3, <3>1 DEF NextIssues
    <3>3. Linked(<<c.cert>>)
      BY <1>4 DEF Linked
    <3> QED
      BY <1>3, <1>4, <1>6, <3>2, <3>3 DEF Sound, Last
  <2> QED  BY <2>1, <2>2
<1>8. Stray(e)' \/ Sound(e)'
  BY <1>2, <1>7 DEF Stray, Sound, NextIssues
<1> HIDE DEF ExportTyped
<1> QED
  BY <1>2, <1>5, <1>8 DEF ExportsInv, ExportInv, Stray, Sound, NextIssues, Last

\* So is the certificate read last, unless it is a root.
LEMMA ReadIssuerExport ==
    ASSUME Inv, ExportsInv, NEW t \in Reader, ReadIssuer(t)
    PROVE  ExportsInv'
<1>1. PICK e, d : e = export[t] /\ d = [e EXCEPT !.chain = Append(@, cas[e.ca].cert),
                                                !.ids = @ \cup {e.ca}, !.ca = cas[e.ca].parent]
  OBVIOUS
<1>2. /\ e # NoExport /\ e.ca \in DOMAIN cas /\ export' = [export EXCEPT ![t] = d]
      /\ UNCHANGED <<cas, owner, strays>>
  BY <1>1 DEF ReadIssuer, Exists, vars, tables, ghosts
<1>3. ExportTyped(e) /\ (e.crossed \/ Stray(e) \/ Sound(e))
  BY <1>1, <1>2 DEF ExportsInv, ExportInv
<1>4. PICK cert, up, n : cert = cas[e.ca].cert /\ up = cas[e.ca].parent /\ n = Len(e.chain)
  OBVIOUS
<1>5. /\ e.ca \in Ids /\ cert \in CaCert /\ up \in Ids \cup {0} /\ cas[e.ca] \in owner[e.ca]
      /\ \/ RootRow(cas[e.ca])
         \/ cert.serial \notin strays =>
                up \in DOMAIN cas /\ RootRow(cas[up]) /\ SignedBy(cert, cas[up].cert)
      /\ up = 0 \/ up \in DOMAIN cas
  BY <1>2, <1>4, IssuerFacts DEF Inv, TablesInv, RowsInv, RowsVerify
<1>6. /\ e.chain \in Seq(CertOfAny) /\ cert \in CertOfAny /\ n \in Nat /\ n >= 1
  BY <1>3, <1>4, <1>5 DEF ExportTyped, Exports, CaCert, CertOfAny
<1>7. PICK chain, ids : chain = Append(e.chain, cert) /\ ids = e.ids \cup {e.ca}
  OBVIOUS
<1>71. chain \in Seq(CertOfAny)
  BY <1>6, <1>7
<1>72. ids \in SUBSET Ids /\ up \in Ids \cup {0}
  BY <1>3, <1>5, <1>7 DEF ExportTyped, Exports
<1>73. d = [e EXCEPT !.chain = chain, !.ids = ids, !.ca = up]
  BY <1>1, <1>4, <1>7, Zenon
<1>74. /\ d \in Exports /\ d.chain = chain /\ d.ca = up
       /\ d.crossed = e.crossed /\ d.cut = e.cut
  BY <1>3, <1>71, <1>72, <1>73 DEF ExportTyped, Exports
<1>8. /\ Len(d.chain) = n + 1 /\ d.chain[n + 1] = cert /\ d.chain # <<>>
      /\ \A k \in 1..n : d.chain[k] = e.chain[k]
  BY <1>4, <1>6, <1>7, <1>74
<1>9. d.crossed \/ Stray(d) \/ Sound(d)
  <2>1. CASE e.crossed
    BY <1>74, <2>1
  <2>2. CASE Stray(e)
    BY <1>4, <1>6, <1>8, <2>2 DEF Stray
  <2>3. CASE cert.serial \in strays
    BY <1>6, <1>8, <2>3 DEF Stray
  <2>4. CASE Sound(e) /\ cert.serial \notin strays
    <3>1. SignedBy(e.chain[n], cert)
      BY <1>2, <1>4, <1>5, <2>4 DEF Sound, NextIssues, Last
    <3>2. Linked(d.chain)
      <4> SUFFICES ASSUME NEW k \in 1..n PROVE SignedBy(d.chain[k], d.chain[k + 1])
        BY <1>6, <1>8 DEF Linked
      <4>1. CASE k = n
        BY <1>6, <1>8, <3>1, <4>1
      <4>2. CASE k # n
        BY <1>4, <1>6, <1>8, <2>4, <4>2 DEF Sound, Linked
      <4> QED  BY <4>1, <4>2
    <3>3. Last(d) = cert
      BY <1>8 DEF Last
    <3>4. up = 0 => RootCert(cert)
      BY <1>4, <1>5, <2>4, CasFields DEF RootRow, Inv
    <3>5. up # 0 => NextIssues(cert, up)
      <4> SUFFICES ASSUME up # 0 PROVE NextIssues(cert, up)
        OBVIOUS
      <4>1. up \in DOMAIN cas /\ SignedBy(cert, cas[up].cert)
        BY <1>4, <1>5, <2>4 DEF RootRow
      <4>2. cas[up] \in owner[up]
        BY <4>1, IssuerFacts DEF Inv
      <4> QED
        BY <4>1, <4>2 DEF NextIssues
    <3> QED
      BY <1>5, <1>74, <3>2, <3>3, <3>4, <3>5 DEF Sound
  <2> QED
    BY <1>3, <2>1, <2>2, <2>3, <2>4
<1>10. d.crossed \/ Stray(d)' \/ Sound(d)'
  BY <1>2, <1>9 DEF Stray, Sound, NextIssues
<1>11. ExportTyped(d)
  BY <1>74, <1>8 DEF ExportTyped
<1> QED
  BY <1>2, <1>10, <1>11 DEF ExportsInv, ExportInv, Stray, Sound, NextIssues, Last

\* A step of somebody else's
LEMMA ExportUntouched ==
    ASSUME ExportsInv, UNCHANGED <<cas, owner, strays>>,
           export' = export \/ \E t \in Reader : export' = [export EXCEPT ![t] = NoExport]
    PROVE  ExportsInv'
<1>1. export' = [t \in Reader |-> export'[t]] /\ \A t \in Reader : export'[t] \in {export[t], NoExport}
  BY DEF ExportsInv
<1> SUFFICES ASSUME NEW t \in Reader, export'[t] # NoExport PROVE ExportInv(t)'
  BY <1>1 DEF ExportsInv, ExportInv
<1>2. export'[t] = export[t]
  BY <1>1
<1> QED
  BY <1>2 DEF ExportsInv, ExportInv, Stray, Sound, NextIssues, Last

-------------------------------------------------------------------------------
(* The status of a certificate.                                            *)

\* While its CA is there, and no restore came in, the serial asked about is one
\* that was revoked; the CA is in the tree that is looked for, and then among
\* the CAs looked at; and the revocation was found or is still to be found.
Known(a) == ~a.overtaken /\ a.id \in DOMAIN cas =>
    /\ \E g \in gone : g[1] = a.id /\ g[2] = a.serial
    /\ a.at \in {"root", "tree"} => a.ca \in DOMAIN cas /\ a.id \in Tree(a.ca)
    /\ a.at \in {"certs", "deleted", "cas"} => a.id \in a.ids
    /\ a.at = "deleted" =>
           a.found = "revoked" \/ \E r \in deleted : r.ca = a.id /\ r.serial = a.serial
    /\ a.at \in {"cas", "told"} => a.found = "revoked"

AskInv(t) == ask[t] # NoAsk =>
    ask[t] \in Asks /\ owner[ask[t].id] # {} /\ Known(ask[t])

AsksInv ==
    /\ ask = [t \in Reader |-> ask[t]]
    /\ \A t \in Reader : AskInv(t)

\* An id that is there again was there before, unless a restore came in.
LEMMA AskKept ==
    ASSUME Inv, Inv', [Next]_vars, AsksInv, Overtake
    PROVE  AsksInv'
<1>1. (restores' # restores \/ Quiet) /\ Onward
  BY StepQuiet
<1>0. ask' = [t \in Reader |-> ask'[t]]
  BY DEF Overtake
<1> SUFFICES ASSUME NEW t \in Reader, ask'[t] # NoAsk PROVE AskInv(t)'
  BY <1>0 DEF AsksInv, AskInv
<1>2. PICK a : a = ask[t]
  OBVIOUS
<1>3. a # NoAsk /\ a \in Asks /\ owner[a.id] # {} /\ Known(a)
  BY <1>2 DEF AsksInv, AskInv, Overtake
<1>4. PICK overtaken \in BOOLEAN : overtaken = (a.overtaken \/ restores' # restores)
  BY Zenon
<1>5. PICK d : d = ask'[t]
  OBVIOUS
<1>6. d = [a EXCEPT !.overtaken = overtaken]
  BY <1>2, <1>3, <1>4, <1>5, Zenon DEF Overtake
<1>7. /\ d \in Asks /\ d.id = a.id /\ d.serial = a.serial /\ d.at = a.at /\ d.ca = a.ca
      /\ d.ids = a.ids /\ d.found = a.found /\ d.overtaken = overtaken /\ d.id \in Ids
  BY <1>3, <1>6 DEF Asks
<1>8. owner'[d.id] # {}
  BY <1>1, <1>3, <1>7 DEF Onward
<1>9. ASSUME ~d.overtaken, d.id \in DOMAIN cas'
      PROVE  /\ \E g \in gone' : g[1] = d.id /\ g[2] = d.serial
             /\ d.at \in {"root", "tree"} => d.ca \in DOMAIN cas' /\ d.id \in Tree(d.ca)'
             /\ d.at \in {"certs", "deleted", "cas"} => d.id \in d.ids
             /\ d.at = "deleted" =>
                    d.found = "revoked" \/ \E r \in deleted' : r.ca = d.id /\ r.serial = d.serial
             /\ d.at \in {"cas", "told"} => d.found = "revoked"
  <2>1. Quiet /\ ~a.overtaken
    BY <1>1, <1>4, <1>7, <1>9
  <2>2. a.id \in DOMAIN cas
    BY <1>3, <1>7, <1>9, <2>1 DEF Quiet
  <2>3. \E g \in gone' : g[1] = d.id /\ g[2] = d.serial
    BY <1>3, <1>7, <1>9, <2>1, <2>2 DEF Known, Quiet
  <2>4. ASSUME d.at \in {"root", "tree"} PROVE d.ca \in DOMAIN cas' /\ d.id \in Tree(d.ca)'
    <3>1. a.ca \in DOMAIN cas /\ a.id \in Tree(a.ca) /\ a.id \in DOMAIN cas'
      BY <1>3, <1>7, <1>9, <2>1, <2>2, <2>4 DEF Known
    <3>2. PICK top, id : top = a.ca /\ id = a.id
      OBVIOUS
    <3>3. top \in DOMAIN cas' /\ id \in Tree(top)'
      BY <2>1, <3>1, <3>2, TreeStays
    <3> QED
      BY <1>7, <3>2, <3>3
  <2>5. d.at \in {"certs", "deleted", "cas"} => d.id \in d.ids
    BY <1>3, <1>7, <2>1, <2>2 DEF Known
  <2>6. d.at = "deleted" =>
            d.found = "revoked" \/ \E r \in deleted' : r.ca = d.id /\ r.serial = d.serial
    BY <1>3, <1>7, <1>9, <2>1, <2>2 DEF Known, Quiet
  <2>7. d.at \in {"cas", "told"} => d.found = "revoked"
    BY <1>3, <1>7, <2>1, <2>2 DEF Known
  <2> QED
    BY <2>3, <2>4, <2>5, <2>6, <2>7
<1>10. Known(d)'
  BY <1>9 DEF Known
<1> QED
  BY <1>5, <1>7, <1>8, <1>10 DEF AskInv, Known

\* One that looks something up leaves the tables alone.
LEMMA AskSet ==
    ASSUME AsksInv, UNCHANGED <<cas, deleted, gone, owner>>, NEW t \in Reader,
           NEW d, d = NoAsk \/ (d \in Asks /\ owner[d.id] # {} /\ Known(d)),
           ask' = [ask EXCEPT ![t] = d]
    PROVE  AsksInv'
<1>1. ask' = [u \in Reader |-> ask'[u]] /\ \A u \in Reader : ask'[u] = IF u = t THEN d ELSE ask[u]
  BY DEF AsksInv
<1> SUFFICES ASSUME NEW u \in Reader, ask'[u] # NoAsk PROVE AskInv(u)'
  BY <1>1 DEF AsksInv, AskInv
<1>2. PICK a : a = ask'[u]
  OBVIOUS
<1>3. a \in Asks /\ owner[a.id] # {} /\ Known(a)
  BY <1>1, <1>2 DEF AsksInv, AskInv
<1>4. owner'[a.id] # {} /\ Known(a)'
  BY <1>3 DEF Known, Tree, ClosedBelow
<1> QED
  BY <1>2, <1>3, <1>4 DEF AskInv, Known, Tree, ClosedBelow

LEMMA AskUntouched ==
    ASSUME AsksInv, UNCHANGED <<cas, deleted, gone, owner, ask>>
    PROVE  AsksInv'
  BY DEF AsksInv, AskInv, Known, Tree, ClosedBelow


LEMMA AskFields ==
    ASSUME NEW a \in Asks
    PROVE  /\ a # NoAsk /\ a.at # "idle"
           /\ a.id \in Ids /\ a.serial \in Serial /\ a.ca \in Ids /\ a.ids \in SUBSET Ids
           /\ a.found \in {"unknown", "good", "revoked"} /\ a.overtaken \in BOOLEAN
  BY DEF Asks, NoAsk

\* The same record, when some of the fields are as they were
LEMMA AskSame ==
    ASSUME NEW a \in Asks, NEW at, NEW ca, NEW ids, NEW found
    PROVE  /\ [a EXCEPT !.at = at] = [a EXCEPT !.at = at, !.ca = a.ca, !.ids = a.ids, !.found = a.found]
           /\ [a EXCEPT !.at = at, !.ids = ids]
                = [a EXCEPT !.at = at, !.ca = a.ca, !.ids = ids, !.found = a.found]
           /\ [a EXCEPT !.at = at, !.found = found]
                = [a EXCEPT !.at = at, !.ca = a.ca, !.ids = a.ids, !.found = found]
           /\ [a EXCEPT !.ca = ca, !.ids = ids, !.at = at]
                = [a EXCEPT !.at = at, !.ca = ca, !.ids = ids, !.found = a.found]
  BY DEF Asks

LEMMA AskStatusKeeps ==
    ASSUME Inv, AsksInv, NEW t \in Reader, NEW g \in gone, AskStatus(t, g[1], g[2])
    PROVE  AsksInv'
<1>1. PICK d : d = [at |-> "root", id |-> g[1], serial |-> g[2], ca |-> g[1], ids |-> {},
                    found |-> "unknown", overtaken |-> FALSE]
  OBVIOUS
<1>2. UNCHANGED <<cas, deleted, gone, owner>> /\ ask' = [ask EXCEPT ![t] = d]
  BY <1>1 DEF AskStatus, vars, tables, ghosts
<1>3. g[1] \in Ids /\ g[2] \in Serial /\ g[1] \in DOMAIN cas /\ cas[g[1]] \in owner[g[1]]
  BY IssuerFacts DEF Inv, TypesInv, TablesInv, Gone
<1>4. d \in Asks
  BY <1>1, <1>3 DEF Asks
<1>5. g[1] \in Tree(g[1])
  BY <1>3 DEF Tree
<1>6. Known(d) /\ owner[d.id] # {}
  BY <1>1, <1>3, <1>5 DEF Known
<1> QED
  BY <1>2, <1>4, <1>6, AskSet

\* Up the tree, the CA stays below.
LEMMA FindRootKeeps ==
    ASSUME Inv, AsksInv, NEW t \in Reader, FindRoot(t)
    PROVE  AsksInv'
<1>1. PICK a : a = ask[t]
  OBVIOUS
<1>2. a.at = "root" /\ UNCHANGED <<cas, deleted, gone, owner>>
  BY <1>1 DEF FindRoot, Proceed, vars, tables, ghosts
<1>3. a \in Asks /\ owner[a.id] # {} /\ Known(a)
  BY <1>1, <1>2 DEF AsksInv, AskInv, NoAsk
<1>4. a.ca \in Ids /\ a.ids \in SUBSET Ids /\ a.found \in {"unknown", "good", "revoked"}
  BY <1>3, AskFields
<1>5. CASE ~Exists(a.ca) /\ Proceed(t, [a EXCEPT !.at = "told"])
  <2>1. PICK d : d = [a EXCEPT !.at = "told"]
    OBVIOUS
  <2>2. d = [a EXCEPT !.at = "told", !.ca = a.ca, !.ids = a.ids, !.found = a.found]
    BY <1>3, <2>1, AskSame
  <2>3. d \in Asks /\ d.id = a.id /\ d.serial = a.serial /\ d.overtaken = a.overtaken
    BY <1>3, <1>4, <2>2 DEF Asks
  <2>4. ~(~a.overtaken /\ a.id \in DOMAIN cas)
    BY <1>2, <1>3, <1>5 DEF Known, Exists
  <2>5. Known(d)
    BY <2>3, <2>4 DEF Known
  <2> QED
    BY <1>2, <1>3, <1>5, <2>1, <2>3, <2>5, AskSet DEF Proceed
<1>6. CASE Exists(a.ca) /\ Proceed(t, [a EXCEPT !.at = "tree"])
  <2>1. PICK d : d = [a EXCEPT !.at = "tree"]
    OBVIOUS
  <2>2. d = [a EXCEPT !.at = "tree", !.ca = a.ca, !.ids = a.ids, !.found = a.found]
    BY <1>3, <2>1, AskSame
  <2>3. d \in Asks /\ d.id = a.id /\ d.serial = a.serial /\ d.overtaken = a.overtaken /\ d.at = "tree" /\ d.ca = a.ca
    BY <1>3, <1>4, <2>2 DEF Asks
  <2>4. Known(d)
    BY <1>2, <1>3, <2>3 DEF Known
  <2> QED
    BY <1>2, <1>3, <1>6, <2>1, <2>3, <2>4, AskSet DEF Proceed
<1>7. ASSUME Exists(a.ca), cas[a.ca].parent \notin a.ids \cup {0},
             NEW at \in {"root", "tree"},
             Proceed(t, [a EXCEPT !.ca = cas[a.ca].parent, !.ids = @ \cup {a.ca}, !.at = at])
      PROVE  AsksInv'
  <2>1. PICK d, up, ids : /\ up = cas[a.ca].parent /\ ids = a.ids \cup {a.ca}
                          /\ d = [a EXCEPT !.ca = up, !.ids = ids, !.at = at]
    OBVIOUS
  <2>2. up \in Ids /\ up \in DOMAIN cas /\ ids \in SUBSET Ids /\ a.ca \in DOMAIN cas
    BY <1>4, <1>7, <2>1, CasFields DEF Exists, Inv, TablesInv, RowsInv
  <2>3. d = [a EXCEPT !.at = at, !.ca = up, !.ids = ids, !.found = a.found]
    BY <1>3, <2>1, AskSame
  <2>4. d \in Asks /\ d.id = a.id /\ d.serial = a.serial /\ d.overtaken = a.overtaken /\ d.at = at /\ d.ca = up
    BY <1>3, <1>4, <2>2, <2>3 DEF Asks
  <2>5. ASSUME a.id \in Tree(a.ca) PROVE a.id \in Tree(up)
    <3>1. a.id \in DOMAIN cas /\ \A S \in SUBSET DOMAIN cas : a.ca \in S /\ ClosedBelow(S) => a.id \in S
      BY <2>5 DEF Tree
    <3>2. ASSUME NEW S \in SUBSET DOMAIN cas, up \in S, ClosedBelow(S) PROVE a.id \in S
      <4>1. a.ca \in S
        BY <2>1, <2>2, <3>2 DEF ClosedBelow
      <4> QED
        BY <3>1, <3>2, <4>1
    <3> QED
      BY <3>1, <3>2 DEF Tree
  <2>6. Known(d)
    BY <1>2, <1>3, <2>2, <2>4, <2>5 DEF Known
  <2>7. ask' = [ask EXCEPT ![t] = d]
    BY <1>7, <2>1, Zenon DEF Proceed
  <2> QED
    BY <1>2, <1>3, <2>4, <2>6, <2>7, AskSet
<1>8. ASSUME Exists(a.ca), cas[a.ca].parent \notin a.ids \cup {0},
             Proceed(t, [a EXCEPT !.ca = cas[a.ca].parent, !.ids = @ \cup {a.ca},
                                  !.at = IF Cardinality(a.ids \cup {a.ca}) < MaxDepth
                                         THEN "root" ELSE "tree"])
      PROVE  AsksInv'
  <2>1. PICK at : at = IF Cardinality(a.ids \cup {a.ca}) < MaxDepth THEN "root" ELSE "tree"
    OBVIOUS
  <2>2. at \in {"root", "tree"}
    BY <2>1
  <2>3. Proceed(t, [a EXCEPT !.ca = cas[a.ca].parent, !.ids = @ \cup {a.ca}, !.at = at])
    BY <1>8, <2>1, Zenon
  <2> QED
    BY <1>7, <1>8, <2>2, <2>3
<1> QED
  BY <1>1, <1>5, <1>6, <1>8, Zenon DEF FindRoot

LEMMA FindTreeKeeps ==
    ASSUME Inv, AsksInv, NEW t \in Reader, FindTree(t)
    PROVE  AsksInv'
<1>1. PICK a, ids : a = ask[t] /\ ids = IF Exists(a.ca) THEN Tree(a.ca) ELSE {}
  OBVIOUS
<1>2. PICK d : d = [a EXCEPT !.at = "certs", !.ids = ids]
  OBVIOUS
<1>3. /\ a.at = "tree" /\ UNCHANGED <<cas, deleted, gone, owner>>
      /\ ask' = [ask EXCEPT ![t] = d]
  BY <1>1, <1>2 DEF FindTree, Proceed, After, vars, tables, ghosts
<1>4. a \in Asks /\ owner[a.id] # {} /\ Known(a)
  BY <1>1, <1>3 DEF AsksInv, AskInv, NoAsk
<1>5. a.ca \in Ids /\ ids \in SUBSET Ids /\ a.found \in {"unknown", "good", "revoked"}
  BY <1>1, <1>4, AskFields, CasFields DEF Tree, Inv
<1>6. d = [a EXCEPT !.at = "certs", !.ca = a.ca, !.ids = ids, !.found = a.found]
  BY <1>2, <1>4, AskSame
<1>7. d \in Asks /\ d.id = a.id /\ d.serial = a.serial /\ d.overtaken = a.overtaken /\ d.at = "certs" /\ d.ids = ids
  BY <1>4, <1>5, <1>6 DEF Asks
<1>8. Known(d)
  BY <1>1, <1>3, <1>4, <1>7 DEF Known, Exists
<1> QED
  BY <1>3, <1>4, <1>7, <1>8, AskSet

\* The three queries of find_serials: what they find replaces what was found.
LEMMA QueryKeeps ==
    ASSUME Inv, AsksInv, NEW t \in Reader, NEW at \in {"deleted", "cas", "told"},
           NEW found \in {"unknown", "good", "revoked"},
           UNCHANGED <<cas, deleted, gone, owner>>,
           ask[t].at \in {"certs", "deleted", "cas"}, at \in {"deleted", "cas"} => ask[t].at # "cas",
           ~ask[t].overtaken /\ ask[t].id \in DOMAIN cas =>
               \/ found = "revoked"
               \/ at = "deleted" /\ \E r \in deleted : r.ca = ask[t].id /\ r.serial = ask[t].serial,
           ask' = [ask EXCEPT ![t] = [ask[t] EXCEPT !.at = at, !.found = found]]
    PROVE  AsksInv'
<1>1. PICK a, d : a = ask[t] /\ d = [a EXCEPT !.at = at, !.found = found]
  OBVIOUS
<1>2. a \in Asks /\ owner[a.id] # {} /\ Known(a) /\ a.at \in {"certs", "deleted", "cas"}
  BY <1>1 DEF AsksInv, AskInv, NoAsk
<1>3. d = [a EXCEPT !.at = at, !.ca = a.ca, !.ids = a.ids, !.found = found]
  BY <1>1, <1>2, AskSame
<1>4. /\ d \in Asks /\ d.id = a.id /\ d.serial = a.serial /\ d.overtaken = a.overtaken
      /\ d.at = at /\ d.ids = a.ids /\ d.found = found
  BY <1>2, <1>3, AskFields DEF Asks
<1>5. Known(d)
  BY <1>1, <1>2, <1>4 DEF Known
<1>6. ask' = [ask EXCEPT ![t] = d]
  BY <1>1
<1> QED
  BY <1>2, <1>4, <1>5, <1>6, AskSet

LEMMA FindCertKeeps ==
    ASSUME Inv, AsksInv, NEW t \in Reader, FindCert(t)
    PROVE  AsksInv'
<1>1. PICK a : a = ask[t]
  OBVIOUS
<1> DEFINE rows == {c \in certs : c.ca \in a.ids /\ c.cert.serial = a.serial}
<1>2. PICK found : found = IF rows = {} THEN a.found
                           ELSE IF \E c \in rows : c.revoked THEN "revoked" ELSE "good"
  OBVIOUS
<1>3. /\ a.at = "certs" /\ UNCHANGED <<cas, deleted, gone, owner>>
      /\ ask' = [ask EXCEPT ![t] = [a EXCEPT !.at = "deleted", !.found = found]]
  BY <1>1, <1>2 DEF FindCert, Proceed, After, vars, tables, ghosts
<1>4. a \in Asks /\ Known(a)
  BY <1>1, <1>3 DEF AsksInv, AskInv, NoAsk
<1>5. found \in {"unknown", "good", "revoked"}
  BY <1>2, <1>4, AskFields
<1>6. ASSUME ~a.overtaken, a.id \in DOMAIN cas
      PROVE  found = "revoked" \/ \E r \in deleted : r.ca = a.id /\ r.serial = a.serial
  <2>1. PICK g \in gone : g[1] = a.id /\ g[2] = a.serial
    BY <1>4, <1>6 DEF Known
  <2>2. a.id \in a.ids
    BY <1>3, <1>4, <1>6 DEF Known
  <2>3. Recorded(g, certs, deleted)
    BY DEF Inv, TablesInv
  <2>4. CASE \E c \in certs : c.revoked /\ c.ca = g[1] /\ c.cert.serial = g[2]
    BY <1>2, <2>1, <2>2, <2>4
  <2> QED
    BY <2>1, <2>3, <2>4 DEF Recorded
<1> HIDE DEF rows
<1> QED
  BY <1>1, <1>3, <1>5, <1>6, QueryKeeps

LEMMA FindDeletedKeeps ==
    ASSUME Inv, AsksInv, NEW t \in Reader, FindDeleted(t)
    PROVE  AsksInv'
<1>1. PICK a : a = ask[t]
  OBVIOUS
<1>2. PICK found : found = IF \E r \in deleted : r.ca \in a.ids /\ r.serial = a.serial
                           THEN "revoked" ELSE a.found
  OBVIOUS
<1>3. /\ a.at = "deleted" /\ UNCHANGED <<cas, deleted, gone, owner>>
      /\ ask' = [ask EXCEPT ![t] = [a EXCEPT !.at = "cas", !.found = found]]
  BY <1>1, <1>2 DEF FindDeleted, Proceed, After, vars, tables, ghosts
<1>4. a \in Asks /\ Known(a)
  BY <1>1, <1>3 DEF AsksInv, AskInv, NoAsk
<1>5. found \in {"unknown", "good", "revoked"}
  BY <1>2, <1>4, AskFields
<1>6. ~a.overtaken /\ a.id \in DOMAIN cas => found = "revoked"
  BY <1>2, <1>3, <1>4 DEF Known
<1> QED
  BY <1>1, <1>3, <1>5, <1>6, QueryKeeps

\* A serial of a certificate is no CA's.
LEMMA FindCaKeeps ==
    ASSUME Inv, AsksInv, NEW t \in Reader, FindCa(t)
    PROVE  AsksInv'
<1>1. PICK a : a = ask[t]
  OBVIOUS
<1>2. PICK found : found = IF \E k \in a.ids \cap DOMAIN cas : cas[k].cert.serial = a.serial
                           THEN "good" ELSE a.found
  OBVIOUS
<1>3. /\ a.at = "cas" /\ UNCHANGED <<cas, deleted, gone, owner>>
      /\ ask' = [ask EXCEPT ![t] = [a EXCEPT !.at = "told", !.found = found]]
  BY <1>1, <1>2 DEF FindCa, Proceed, After, vars, tables, ghosts
<1>4. a \in Asks /\ Known(a)
  BY <1>1, <1>3 DEF AsksInv, AskInv, NoAsk
<1>5. found \in {"unknown", "good", "revoked"}
  BY <1>2, <1>4, AskFields
<1>6. ASSUME ~a.overtaken, a.id \in DOMAIN cas PROVE found = "revoked"
  <2>1. Leafy(a.serial) /\ a.found = "revoked"
    BY <1>3, <1>4, <1>6 DEF Known, Inv, TablesInv
  <2>2. \A k \in DOMAIN cas : cas[k].cert.serial # a.serial
    <3> SUFFICES ASSUME NEW k \in DOMAIN cas, cas[k].cert.serial = a.serial PROVE FALSE
      OBVIOUS
    <3>1. k \in Ids /\ cas[k] \in owner[k]
      BY CasFields DEF Inv, TablesInv, RowsInv
    <3> QED
      BY <2>1, <3>1 DEF Leafy, Owned
  <2> QED
    BY <1>2, <2>1, <2>2
<1> QED
  BY <1>1, <1>3, <1>5, <1>6, QueryKeeps

LEMMA TellKeeps ==
    ASSUME AsksInv, NEW t \in Reader, Tell(t)
    PROVE  AsksInv'
<1>1. ask' = [ask EXCEPT ![t] = NoAsk] /\ UNCHANGED <<cas, deleted, gone, owner>>
  BY DEF Tell, vars, tables, ghosts
<1> QED
  BY <1>1, AskSet

-------------------------------------------------------------------------------
(* What Lookups promises.                                                  *)

LookingInv == ExportsInv /\ AsksInv

LEMMA LookupsInitInv == LookupsInit => LookingInv
<1> SUFFICES ASSUME LookupsInit PROVE LookingInv
  OBVIOUS
<1>1. export = [t \in Reader |-> NoExport] /\ ask = [t \in Reader |-> NoAsk]
  BY DEF LookupsInit
<1>2. \A t \in Reader : export[t] = NoExport /\ ask[t] = NoAsk
  BY <1>1
<1> QED
  BY <1>1, <1>2 DEF LookingInv, ExportsInv, ExportInv, AsksInv, AskInv

LEMMA LookupsStep ==
    ASSUME Inv, Inv', LookingInv, [LookupsNext]_allVars
    PROVE  LookingInv'
<1>0. ExportsInv /\ AsksInv
  BY DEF LookingInv
<1>1. CASE Next /\ Overtake
  BY <1>0, <1>1, ExportKept, AskKept DEF LookingInv
<1>2. ASSUME NEW t \in Reader, NEW c \in certs, ReadLeaf(t, c) PROVE LookingInv'
  <2>1. UNCHANGED <<cas, deleted, gone, owner, ask>>
    BY <1>2 DEF ReadLeaf, vars, tables, ghosts
  <2> QED
    BY <1>0, <1>2, <2>1, ReadLeafExport, AskUntouched DEF LookingInv
<1>3. ASSUME NEW t \in Reader, ReadIssuer(t) PROVE LookingInv'
  <2>1. UNCHANGED <<cas, deleted, gone, owner, ask>>
    BY <1>3 DEF ReadIssuer, vars, tables, ghosts
  <2> QED
    BY <1>0, <1>3, <2>1, ReadIssuerExport, AskUntouched DEF LookingInv
<1>4. ASSUME NEW t \in Reader, SendChain(t) PROVE LookingInv'
  <2>1. /\ UNCHANGED <<cas, deleted, gone, owner, strays, ask>>
        /\ export' = [export EXCEPT ![t] = NoExport]
    BY <1>4 DEF SendChain, vars, tables, ghosts
  <2> QED
    BY <1>0, <2>1, ExportUntouched, AskUntouched DEF LookingInv
<1>5. ASSUME AsksInv', UNCHANGED <<vars, export>> PROVE LookingInv'
  <2>1. UNCHANGED <<cas, owner, strays, export>>
    BY <1>5 DEF vars, tables, ghosts
  <2> QED
    BY <1>0, <1>5, <2>1, ExportUntouched DEF LookingInv
<1>6. ASSUME NEW t \in Reader, NEW g \in gone, AskStatus(t, g[1], g[2]) PROVE LookingInv'
  <2>1. UNCHANGED <<vars, export>>
    BY <1>6 DEF AskStatus
  <2> QED
    BY <1>0, <1>5, <1>6, <2>1, AskStatusKeeps
<1>7. ASSUME NEW t \in Reader,
             FindRoot(t) \/ FindTree(t) \/ FindCert(t) \/ FindDeleted(t) \/ FindCa(t) \/ Tell(t)
      PROVE  LookingInv'
  <2>1. UNCHANGED <<vars, export>>
    BY <1>7 DEF FindRoot, FindTree, FindCert, FindDeleted, FindCa, Tell, Proceed
  <2>2. AsksInv'
    BY <1>0, <1>7, FindRootKeeps, FindTreeKeeps, FindCertKeeps, FindDeletedKeeps, FindCaKeeps, TellKeeps
  <2> QED
    BY <1>5, <2>1, <2>2
<1>8. CASE UNCHANGED allVars
  <2>1. UNCHANGED <<cas, deleted, gone, owner, strays, export, ask>>
    BY <1>8 DEF allVars, vars, tables, ghosts, lookups
  <2> QED
    BY <1>0, <2>1, ExportUntouched, AskUntouched DEF LookingInv
<1> QED
  BY <1>1, <1>2, <1>3, <1>4, <1>6, <1>7, <1>8 DEF LookupsNext

\* Everything that is looked up is as said above, whatever comes in between.
THEOREM AlwaysLooking == LookupsSpec => [](Inv /\ LookingInv)
<1>1. LookupsInit => LookingInv
  BY LookupsInitInv
<1>2. Inv /\ Inv' /\ LookingInv /\ [LookupsNext]_allVars => LookingInv'
  BY LookupsStep
<1> QED
  BY <1>1, <1>2, AlwaysInv, PTL DEF LookupsSpec

\* Every variable keeps its type, and no id passes the last one given out,
\* whatever is restored.
THEOREM TypeCorrect == LookupsSpec => []LookupsTypeOK
<1>1. Inv /\ LookingInv => LookupsTypeOK
  <2> SUFFICES ASSUME Inv, LookingInv PROVE LookupsTypeOK
    OBVIOUS
  <2>1. TypeOK
    BY InvTypes
  <2>2. export \in [Reader -> Exports \cup {NoExport}]
    <3>1. \A t \in Reader : export[t] \in Exports \cup {NoExport}
      BY DEF LookingInv, ExportsInv, ExportInv, ExportTyped
    <3> QED
      BY <3>1 DEF LookingInv, ExportsInv
  <2>3. ask \in [Reader -> Asks \cup {NoAsk}]
    <3>1. \A t \in Reader : ask[t] \in Asks \cup {NoAsk}
      BY DEF LookingInv, AsksInv, AskInv
    <3> QED
      BY <3>1 DEF LookingInv, AsksInv
  <2> QED
    BY <2>1, <2>2, <2>3 DEF LookupsTypeOK
<1> QED
  BY <1>1, AlwaysLooking, PTL

\* A full chain is signed from one to the next at every moment of its reading,
\* and ends in a root unless CAs were deleted meanwhile: the id that is read
\* next stands for the CA that signed the last one, or for none.
THEOREM ExportsHoldHolds == LookupsSpec => []ExportsHold
<1>1. Inv /\ LookingInv => ExportsHold
  <2> SUFFICES ASSUME Inv, LookingInv, NEW t \in Reader, export[t] # NoExport
               PROVE  LET e == export[t]
                      IN \/ e.crossed \/ \E k \in 1..Len(e.chain) : e.chain[k].serial \in strays
                         \/ /\ Linked(e.chain)
                            /\ e.ca = 0 => RootCert(e.chain[Len(e.chain)])
                            /\ e.cut \/ e.ca = 0 \/ Exists(e.ca)
    BY DEF ExportsHold
  <2>1. export[t].crossed \/ Stray(export[t]) \/ Sound(export[t])
    BY DEF LookingInv, ExportsInv, ExportInv
  <2> QED
    BY <2>1 DEF Stray, Sound, Last, Exists
<1> QED
  BY <1>1, AlwaysLooking, PTL

\* Who is told of a revoked certificate is told that it is revoked: among the
\* certificates or, as they are looked up in that order, among the deleted ones
\* it is found, and no CA has its serial.
THEOREM RevokedStaysRevokedHolds == LookupsSpec => []RevokedStaysRevoked
<1>1. Inv /\ LookingInv => RevokedStaysRevoked
  <2> SUFFICES ASSUME Inv, LookingInv, NEW t \in Reader,
                      ask[t].at = "told", ~ask[t].overtaken, Exists(ask[t].id)
               PROVE  ask[t].found = "revoked"
    BY DEF RevokedStaysRevoked
  <2>1. ask[t] # NoAsk
    BY DEF NoAsk
  <2>2. Known(ask[t])
    BY <2>1 DEF LookingInv, AsksInv, AskInv
  <2> QED
    BY <2>2 DEF Known, Exists
<1> QED
  BY <1>1, AlwaysLooking, PTL
===============================================================================
