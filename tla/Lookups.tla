-------------------------------- MODULE Lookups --------------------------------
(***************************************************************************)
(* What is read from the CA tree by more than one query: full chains       *)
(* (db.get_ca_cert_chain) and the status of a certificate, which a PC asks *)
(* for (cert_status in app/routes/pal.py).  Every query is a transaction   *)
(* of its own: a connection that only reads opens none.  What Authority    *)
(* does to the tables happens between them.                                *)
(***************************************************************************)
EXTENDS Authority

VARIABLES
    export,     \* the full chain each reader is putting together
    ask         \* the serial each reader was asked about

lookups == <<export, ask>>
allVars == <<vars, lookups>>

\* ids: the CAs read so far.  crossed: another installation's backup came in
\* between; cut: CAs went (both for the properties only).
NoExport == [at |-> "idle"]
Exports  == [at : {"chain"}, ca : Ids \cup {0}, chain : Seq(CertOfAny), ids : SUBSET Ids,
             crossed : BOOLEAN, cut : BOOLEAN]

\* ids: the CAs read so far, later those of the tree.  overtaken: a restore came
\* in between (for the properties only).
NoAsk == [at |-> "idle"]
Asks  == [at : {"root", "tree", "certs", "deleted", "cas", "told"}, id : Ids, serial : Serial,
          ca : Ids, ids : SUBSET Ids, found : {"unknown", "good", "revoked"}, overtaken : BOOLEAN]

LookupsTypeOK ==
    /\ TypeOK
    /\ export \in [Reader -> Exports \cup {NoExport}]
    /\ ask \in [Reader -> Asks \cup {NoAsk}]

LookupsInit ==
    /\ Init
    /\ export = [t \in Reader |-> NoExport]
    /\ ask = [t \in Reader |-> NoAsk]

Busy(t) == export[t] # NoExport \/ ask[t] # NoAsk
Free(t) == pc[t] = "idle" /\ ~Busy(t)

-----------------------------------------------------------------------------
(* Export of a full chain: the certificate is read, then the CAs above it, *)
(* one after the other.                                                    *)

ReadLeaf(t, c) ==
    /\ Free(t) /\ c \in certs
    /\ export' = [export EXCEPT ![t] =
           [at |-> "chain", ca |-> c.ca, chain |-> <<c.cert>>, ids |-> {}, crossed |-> FALSE, cut |-> FALSE]]
    /\ UNCHANGED <<vars, ask>>

\* The loop of get_ca_cert_chain goes on.
MoreAbove(e) == e.ca # 0 /\ e.ca \notin e.ids /\ Len(e.chain) <= MaxDepth

ReadIssuer(t) ==
    LET e == export[t]
    IN /\ e # NoExport /\ MoreAbove(e) /\ Exists(e.ca)
       /\ export' = [export EXCEPT ![t] = [e EXCEPT !.chain = Append(@, cas[e.ca].cert),
                                                   !.ids = @ \cup {e.ca},
                                                   !.ca = cas[e.ca].parent]]
       /\ UNCHANGED <<vars, ask>>

SendChain(t) ==                             \* with export[t].chain
    /\ export[t] # NoExport
    /\ ~(MoreAbove(export[t]) /\ Exists(export[t].ca))
    /\ export' = [export EXCEPT ![t] = NoExport]
    /\ UNCHANGED <<vars, ask>>

-----------------------------------------------------------------------------
(* The status of a serial, for a PC whose CA is id.  Whether one that is   *)
(* not revoked is in its time is left out.                                 *)

AskStatus(t, id, serial) ==
    /\ Free(t)
    /\ ask' = [ask EXCEPT ![t] = [at |-> "root", id |-> id, serial |-> serial, ca |-> id, ids |-> {},
                                  found |-> "unknown", overtaken |-> FALSE]]
    /\ UNCHANGED <<vars, export>>

Proceed(t, a) ==
    /\ ask' = [ask EXCEPT ![t] = a]
    /\ UNCHANGED <<vars, export>>

\* root_ca_id, one query for each CA on the way up
FindRoot(t) ==
    LET a == ask[t]
    IN /\ a.at = "root"
       /\ \/ /\ ~Exists(a.ca)               \* None: nothing is found
             /\ Proceed(t, [a EXCEPT !.at = "told"])
          \/ /\ Exists(a.ca) /\ cas[a.ca].parent \in a.ids \cup {0}
             /\ Proceed(t, [a EXCEPT !.at = "tree"])
          \/ /\ Exists(a.ca) /\ cas[a.ca].parent \notin a.ids \cup {0}
             /\ Proceed(t, [a EXCEPT !.ca = cas[a.ca].parent, !.ids = @ \cup {a.ca},
                                     !.at = IF Cardinality(a.ids \cup {a.ca}) < MaxDepth
                                            THEN "root" ELSE "tree"])

\* The order of find_serials' queries.
\* Mutated: the deleted ones are looked up before those that are there.
AfterSwapped == [tree |-> "deleted", deleted |-> "certs", certs |-> "cas", cas |-> "told"]

After == [tree |-> "certs", certs |-> "deleted", deleted |-> "cas", cas |-> "told"]

\* ca_tree_ids
FindTree(t) ==
    LET a == ask[t]
    IN /\ a.at = "tree"
       /\ Proceed(t, [a EXCEPT !.at = After.tree, !.ids = IF Exists(a.ca) THEN Tree(a.ca) ELSE {}])

\* A query that finds the serial overrules the one before.
FindCert(t) ==
    LET a == ask[t]
        rows == {c \in certs : c.ca \in a.ids /\ c.cert.serial = a.serial}
    IN /\ a.at = "certs"
       /\ Proceed(t, [a EXCEPT !.at = After.certs,
                               !.found = IF rows = {} THEN @
                                         ELSE IF \E c \in rows : c.revoked THEN "revoked" ELSE "good"])

FindDeleted(t) ==
    LET a == ask[t]
    IN /\ a.at = "deleted"
       /\ Proceed(t, [a EXCEPT !.at = After.deleted,
                               !.found = IF \E r \in deleted : r.ca \in a.ids /\ r.serial = a.serial
                                         THEN "revoked" ELSE @])

FindCa(t) ==
    LET a == ask[t]
    IN /\ a.at = "cas"
       /\ Proceed(t, [a EXCEPT !.at = After.cas,
                               !.found = IF \E k \in a.ids \cap DOMAIN cas : cas[k].cert.serial = a.serial
                                         THEN "good" ELSE @])

Tell(t) ==                                  \* ask[t].found
    /\ ask[t].at = "told"
    /\ ask' = [ask EXCEPT ![t] = NoAsk]
    /\ UNCHANGED <<vars, export>>

-----------------------------------------------------------------------------
(* A step of Authority, seen by those who are reading: a thread does one   *)
(* thing at a time.                                                        *)

Overtake ==
    /\ \A t \in Reader : Busy(t) => pc'[t] = pc[t]
    /\ export' = [t \in Reader |->
           IF export[t] = NoExport THEN NoExport
           ELSE [export[t] EXCEPT !.crossed = @ \/ (restores' # restores /\ mixed'),
                                  !.cut = @ \/ ~(DOMAIN cas \subseteq DOMAIN cas')]]
    /\ ask' = [t \in Reader |->
           IF ask[t] = NoAsk THEN NoAsk
           ELSE [ask[t] EXCEPT !.overtaken = @ \/ restores' # restores]]

LookupsNext ==
    \/ Next /\ Overtake
    \/ \E t \in Reader :
         \/ \E c \in certs : ReadLeaf(t, c)
         \/ ReadIssuer(t) \/ SendChain(t)
         \* bound: asked about what was revoked, by a PC of the CA that signed it
         \/ \E g \in gone : AskStatus(t, g[1], g[2])
         \/ FindRoot(t) \/ FindTree(t)
         \/ FindCert(t) \/ FindDeleted(t) \/ FindCa(t)
         \/ Tell(t)

LookupsSpec == LookupsInit /\ [][LookupsNext]_allVars

-----------------------------------------------------------------------------

\* A chain that is put together while CAs are made, deleted and restored is at
\* no moment a broken one: each certificate in it is signed by the next, and one
\* that has no CA above it is a root (export_cert).  It stops below the root only
\* when CAs were deleted meanwhile.  (Exempt as in ChainsHold: what crosses the
\* restore of another installation's backup.)
ExportsHold == \A t \in Reader : export[t] # NoExport =>
    LET e == export[t]
    IN \/ e.crossed \/ \E k \in 1..Len(e.chain) : e.chain[k].serial \in strays
       \/ /\ Linked(e.chain)
          /\ e.ca = 0 => RootCert(e.chain[Len(e.chain)])
          /\ e.cut \/ e.ca = 0 \/ Exists(e.ca)

\* A certificate revoked while its CA is there is told as revoked to who asks
\* (cert_status), though it is deleted between the queries, and over a restore
\* of a backup begun later.  Only who is asking while a restore comes in may be
\* told something else.
RevokedStaysRevoked == \A t \in Reader :
    (ask[t].at = "told" /\ ~ask[t].overtaken /\ Exists(ask[t].id)) => ask[t].found = "revoked"
=============================================================================
