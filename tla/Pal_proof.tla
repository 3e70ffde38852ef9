------------------------------- MODULE Pal_proof -------------------------------
(***************************************************************************)
(* Proofs about the certificates of a PC: what it may ask for (PalNames),  *)
(* for every text, pattern, policy and request, and how it is answered     *)
(* (PalRequests), for any number of threads, requests and certificates.    *)
(***************************************************************************)
EXTENDS PalRequests, PalNames, TLAPS, WellFoundedInduction, SequenceTheorems

-------------------------------------------------------------------------------
(* Clean texts *)

\* A set of numbers up to n that is not empty has a greatest one.
LEMMA Greatest ==
    ASSUME NEW n \in Nat, NEW S \in SUBSET (1..n), S # {}
    PROVE  \E m \in S : \A k \in S : k <= m
<1> DEFINE T == {n - k : k \in S}
<1>1. T \subseteq Nat /\ T # {}
  <2>1. ASSUME NEW k \in S PROVE k \in Nat /\ n - k \in Nat
    <3>1. k \in 1..n
      OBVIOUS
    <3> QED  BY ONLY n \in Nat, <3>1, SMTT(30)
  <2> QED  BY <2>1
<1>2. PICK x \in T : \A y \in T : ~(<<y, x>> \in OpToRel(<, Nat))
  <2> HIDE DEF T
  <2> QED  BY <1>1, NatLessThanWellFounded, WFMin
<1>3. \A y \in T : ~(y < x)
  <2>1. \A y \in T : y \in Nat /\ x \in Nat
    BY <1>1, <1>2
  <2> QED  BY <1>2, <2>1 DEF OpToRel
<1>4. PICK m \in S : x = n - m
  BY <1>2
<1>5. \A k \in S : n - k \in T
  OBVIOUS
<1> HIDE DEF T
<1>6. ASSUME NEW k \in S PROVE k <= m
  <2>1. ~(n - k < n - m)
    BY <1>3, <1>4, <1>5
  <2>2. k \in 1..n /\ m \in 1..n
    OBVIOUS
  <2> QED  BY ONLY n \in Nat, <2>1, <2>2, SMTT(30)
<1> QED  BY <1>6

\* Cleaning leaves a text of labels, in lower case, without dots at its end.
LEMMA CleanText ==
    ASSUME NEW text \in Seq(Label)
    PROVE  /\ Clean(text) \in Seq(Label)
           /\ Clean(text) # <<>> => Clean(text)[Len(Clean(text))] # ""
           /\ \A k \in DOMAIN Clean(text) : Lower[Clean(text)[k]] = Clean(text)[k]
<1> DEFINE D == {i \in 1..Len(text) : \E j \in i..Len(text) : text[j] # ""}
<1>1. Len(text) \in Nat /\ \A k \in 1..Len(text) : text[k] \in Label
  OBVIOUS
<1>2. \A i : i \in D <=> i \in 1..Len(text) /\ \E j \in i..Len(text) : text[j] # ""
  OBVIOUS
<1>3. Clean(text) = [k \in D |-> Lower[text[k]]]
  BY DEF Clean
<1> HIDE DEF D
<1>4. CASE D = {}
  <2>1. Clean(text) = <<>>
    BY <1>3, <1>4
  <2> QED  BY <2>1
<1>5. CASE D # {}
  <2>1. PICK m \in D : \A k \in D : k <= m
    <3>1. D \in SUBSET (1..Len(text))
      BY <1>2
    <3> QED  BY <1>1, <1>5, <3>1, Greatest
  <2>2. m \in 1..Len(text)
    BY <1>2
  <2>3. text[m] # ""
    <3>1. PICK j \in m..Len(text) : text[j] # ""
      BY <1>2
    <3>2. j \in 1..Len(text)
      BY <1>1, <2>2
    <3>3. j \in j..Len(text)
      BY <1>1, <3>2
    <3>4. j \in D
      BY <1>2, <3>1, <3>2, <3>3
    <3>5. j = m
      BY <1>1, <2>1, <2>2, <3>2, <3>4
    <3> QED  BY <3>1, <3>5
  <2>4. D = 1..m
    <3>1. ASSUME NEW i \in D PROVE i \in 1..m
      <4>1. i \in 1..Len(text) /\ i <= m
        BY <1>2, <2>1
      <4> QED  BY <1>1, <2>2, <4>1
    <3>2. ASSUME NEW i \in 1..m PROVE i \in D
      <4>1. i \in 1..Len(text) /\ m \in i..Len(text)
        BY <1>1, <2>2
      <4> QED  BY <1>2, <2>3, <4>1
    <3> QED  BY <3>1, <3>2
  <2>5. Clean(text) = [k \in 1..m |-> Lower[text[k]]]
    BY <1>3, <2>4
  <2>6. \A k \in 1..m : /\ text[k] \in Label /\ Lower[text[k]] \in Label
                        /\ Lower[Lower[text[k]]] = Lower[text[k]]
    <3>1. \A k \in 1..m : text[k] \in Label
      BY <1>1, <2>2
    <3> QED  BY <3>1, LabelAssumption
  <2>7. m \in Nat
    BY <2>2
  <2>8. Clean(text) \in Seq(Label) /\ Len(Clean(text)) = m
    BY <2>5, <2>6, <2>7
  <2>9. Clean(text)[m] # ""
    <3>1. Clean(text)[m] = Lower[text[m]] /\ text[m] \in Label
      BY <2>2, <2>5, <2>6
    <3> QED  BY <2>3, <3>1, LabelAssumption
  <2>10. \A k \in DOMAIN Clean(text) : Lower[Clean(text)[k]] = Clean(text)[k]
    BY <2>5, <2>6
  <2> QED  BY <2>8, <2>9, <2>10
<1> QED  BY <1>4, <1>5

\* What was cleaned once stays as it is (parse_fqdn of a name on record,
\* dns_name_allowed of a name its callers cleaned).
THEOREM CleanOnce ==
    ASSUME NEW text \in Seq(Label)
    PROVE  Clean(Clean(text)) = Clean(text)
<1> DEFINE c == Clean(text)
<1>1. /\ c \in Seq(Label)
      /\ c # <<>> => c[Len(c)] # ""
      /\ \A k \in DOMAIN c : Lower[c[k]] = c[k]
  BY CleanText
<1> HIDE DEF c
<1>2. {i \in 1..Len(c) : \E j \in i..Len(c) : c[j] # ""} = 1..Len(c)
  <2>1. ASSUME NEW i \in 1..Len(c) PROVE \E j \in i..Len(c) : c[j] # ""
    <3>1. Len(c) \in Nat
      BY <1>1, LenProperties
    <3>2. Len(c) # 0 /\ Len(c) \in i..Len(c)
      BY <3>1
    <3>3. c # <<>>
      <4>1. Len(<<>>) = 0
        OBVIOUS
      <4> QED  BY <3>2, <4>1
    <3> QED  BY <1>1, <3>2, <3>3
  <2> QED  BY <2>1
<1>3. Clean(c) = [k \in 1..Len(c) |-> Lower[c[k]]]
  BY <1>2 DEF Clean
<1>4. DOMAIN c = 1..Len(c) /\ c = [k \in 1..Len(c) |-> c[k]]
  <2>1. Len(c) \in Nat /\ c \in [1..Len(c) -> Label]
    BY <1>1, LenProperties
  <2> QED  BY <2>1
<1>5. Clean(c) = c
  BY <1>1, <1>3, <1>4
<1> QED  BY <1>5 DEF c

-------------------------------------------------------------------------------
(* Patterns *)

LEMMA StarBefore ==
    ASSUME NEW domain \in Seq(Label)
    PROVE  /\ Len(<<"*">> \o domain) = Len(domain) + 1
           /\ Tail(<<"*">> \o domain) = domain
           /\ (<<"*">> \o domain)[1] = "*"
<1>1. "*" \in Label
  BY LabelAssumption
<1> DEFINE star == <<"*">>
           p    == star \o domain
<1>2. star \in Seq(Label) /\ Len(star) = 1 /\ star[1] = "*"
  BY <1>1
<1> HIDE DEF star
<1>3. /\ p \in Seq(Label) /\ Len(p) = 1 + Len(domain)
      /\ \A i \in 1..(1 + Len(domain)) : p[i] = IF i <= 1 THEN star[i] ELSE domain[i - 1]
  <2>1. /\ star \o domain \in Seq(Label) /\ Len(star \o domain) = Len(star) + Len(domain)
        /\ \A i \in 1..(Len(star) + Len(domain)) :
              (star \o domain)[i] = IF i <= Len(star) THEN star[i] ELSE domain[i - Len(star)]
    BY <1>2, ConcatProperties
  <2> QED  BY <1>2, <2>1
<1>4. Len(domain) \in Nat
  OBVIOUS
<1> HIDE DEF p
<1>5. p # <<>> /\ p[1] = "*"
  BY <1>2, <1>3, <1>4
<1>6. /\ Tail(p) \in Seq(Label) /\ Len(Tail(p)) = Len(p) - 1
      /\ \A i \in 1..Len(Tail(p)) : Tail(p)[i] = p[i + 1]
  BY <1>3, <1>5, HeadTailProperties
<1>7. \A i \in 1..Len(domain) : Tail(p)[i] = domain[i]
  BY <1>3, <1>4, <1>6
<1>8. Tail(p) = domain
  BY <1>3, <1>4, <1>6, <1>7, SeqEqual
<1> QED  BY <1>3, <1>4, <1>5, <1>8 DEF p, star

\* dns_name_allowed, "not lan itself": a wildcard pattern does not cover the
\* domain it names.
THEOREM DomainNotCovered ==
    ASSUME NEW domain \in Seq(Label), domain \notin Address
    PROVE  ~Covers(<<"*">> \o domain, domain)
<1> DEFINE p == <<"*">> \o domain
<1>1. Len(p) = Len(domain) + 1 /\ Tail(p) = domain
  BY StarBefore
<1> HIDE DEF p
<1>2. p # domain
  <2>1. Len(domain) \in Nat
    BY LenProperties
  <2>2. Len(p) # Len(domain)
    BY <1>1, <2>1
  <2> QED  BY <2>2
<1>3. ~Under(domain, domain)
  BY DEF Under
<1>4. ~Covers(p, domain)
  BY <1>1, <1>2, <1>3 DEF Covers
<1> QED  BY <1>4 DEF p

\* "any depth": with a name, it covers every name below that.
THEOREM WildcardCoversBelow ==
    ASSUME NEW domain \in Seq(Label), domain # <<>>, NEW name \in Seq(Label), NEW l \in Label,
           name \notin Address, <<l>> \o name \notin Address,
           name # <<"*">> \o domain,
           Covers(<<"*">> \o domain, name)
    PROVE  Covers(<<"*">> \o domain, <<l>> \o name)
<1> DEFINE p == <<"*">> \o domain
           n == <<l>> \o name
<1>1. Len(p) = Len(domain) + 1 /\ Tail(p) = domain /\ p[1] = "*"
  BY StarBefore
<1>2. IsWildcard(p)
  BY <1>1 DEF IsWildcard
<1>3. Under(name, domain)
  BY <1>1 DEF Covers
<1>4. Len(n) = Len(name) + 1 /\ \A k \in 1..Len(name) : n[k + 1] = name[k]
  OBVIOUS
<1>5. Under(n, domain)
  <2>1. Len(n) > Len(domain)
    BY <1>3, <1>4 DEF Under
  <2>2. ASSUME NEW k \in 1..Len(domain)
        PROVE  n[Len(n) - Len(domain) + k] = domain[k]
    <3>1. Len(name) - Len(domain) + k \in 1..Len(name)
      BY <1>3 DEF Under
    <3>2. n[Len(name) - Len(domain) + k + 1] = name[Len(name) - Len(domain) + k]
      BY <1>4, <3>1
    <3>3. Len(n) - Len(domain) + k = Len(name) - Len(domain) + k + 1
      BY <1>4
    <3> QED  BY <1>3, <3>2, <3>3 DEF Under
  <2> QED  BY <2>1, <2>2 DEF Under
<1> QED  BY <1>1, <1>2, <1>5 DEF Covers

-------------------------------------------------------------------------------
(* The PC and its policy *)

\* A PC whose own name is clean and fits its policy
Fits(computer) ==
    /\ Clean(computer.fqdn) = computer.fqdn
    /\ FqdnOk(computer.fqdn, computer.policy)

\* Pairing (enroll) leaves a PC whose own name its policy allows,
THEOREM PairedFits ==
    ASSUME NEW form, NEW raw \in Seq(Label), Pairs(form, raw)
    PROVE  Fits(Paired(form, raw))
<1> DEFINE computer == Paired(form, raw)
<1>1. computer.fqdn = Clean(raw) /\ computer.policy = Policy(form)
  BY DEF Paired
<1>2. Clean(computer.fqdn) = computer.fqdn
  BY <1>1, CleanOnce
<1>3. FqdnOk(computer.fqdn, computer.policy)
  BY <1>1, <1>2 DEF Pairs, FqdnOk
<1> QED  BY <1>2, <1>3 DEF Fits

\* and no change an admin makes (edit_device_policy, "the PC's own name must
\* still fit") takes that away, whatever the form says.
THEOREM EditedFits ==
    ASSUME NEW form, NEW fqdn, NEW policy, NEW server, NEW worker, NEW maxDays,
           Fits([fqdn |-> fqdn, policy |-> policy, server |-> server]),
           EditOk([fqdn |-> fqdn, policy |-> policy, server |-> server], form, worker, maxDays)
    PROVE  Fits(Edited([fqdn |-> fqdn, policy |-> policy, server |-> server], form))
<1> DEFINE before == [fqdn |-> fqdn, policy |-> policy, server |-> server]
           after  == Edited(before, form)
<1>1. PICK new : new = Policy(Edit(before, form))
  OBVIOUS
<1>2. after.fqdn = fqdn /\ after.policy.dns = new.dns /\ after.policy.cases = new.cases
  BY <1>1 DEF Edited, Policy
<1>3. FqdnOk(fqdn, new) /\ Clean(fqdn) = fqdn
  BY <1>1 DEF EditOk, Fits
<1>4. MachineOn(after.policy) <=> MachineOn(new)
  BY <1>2 DEF MachineOn
<1> QED  BY <1>2, <1>3, <1>4 DEF Fits, FqdnOk

-------------------------------------------------------------------------------
(* The names of a request *)

\* Every alternative name of a certificate for a PC is one its policy allows,
\* the PC's own name included, which a computer certificate gets unasked
\* (parse_names), and none has an asterisk in it: "a PC allowed *.lan must not
\* get a certificate that impersonates every host on the LAN".
THEOREM NamesWithinPolicy ==
    ASSUME NEW computer, Fits(computer), NEW case \in UseCase, computer.policy.cases[case] # "off",
           NEW sent, NamesOk(case, sent, computer), NEW n \in Names(case, sent, computer).san
    PROVE  /\ DnsNameAllowed(n, computer.policy.dns)
           /\ \A k \in DOMAIN n : n[k] \notin Starry
           /\ IsRequestable(n)
<1>1. CASE case = "computer"
  <2>1. n = computer.fqdn
    BY <1>1 DEF Names
  <2>2. MachineOn(computer.policy)
    BY <1>1 DEF MachineOn, MachineUseCase
  <2> QED  BY <2>1, <2>2 DEF Fits, FqdnOk, DnsNameAllowed, IsRequestable
<1>2. CASE case = "web-server"
  <2>1. Names(case, sent, computer).san = {Clean(sent.dns[k]) : k \in DOMAIN sent.dns}
    BY <1>2 DEF Names
  <2>2. PICK k \in DOMAIN sent.dns : n = Clean(sent.dns[k])
    BY <2>1
  <2>3. /\ IsRequestable(Clean(sent.dns[k]))
        /\ DnsNameAllowed(Clean(sent.dns[k]), computer.policy.dns)
    BY <1>2, <2>2 DEF NamesOk
  <2> QED  BY <2>2, <2>3 DEF DnsNameAllowed
<1>3. CASE case \in {"user", "code-signing"}
  <2>1. Names(case, sent, computer).san = {}
    BY <1>3 DEF Names
  <2> QED  BY <2>1
<1> QED  BY <1>1, <1>2, <1>3 DEF UseCase, MachineUseCase

-------------------------------------------------------------------------------
(* Renewals *)

\* renew_opens, "so a PC can't stockpile certificates": the window opens within
\* the certificate's life, no more than 30 days and no more than a third of it
\* before the end.
THEOREM RenewWindow ==
    ASSUME NEW old, old.from \in Int, old.to \in Int, old.from <= old.to
    PROVE  /\ RenewOpens(old) \in old.from..old.to
           /\ old.to - RenewOpens(old) <= 30 * Day
           /\ 3 * (old.to - RenewOpens(old)) <= old.to - old.from
<1> DEFINE life  == old.to - old.from
           third == life \div 3
<1>1. life \in Nat /\ 30 * Day \in Nat
  BY DayAssumption
<1>2. third \in Nat /\ 3 * third <= life
  <2> HIDE DEF life
  <2> QED  BY <1>1
<1>3. RenewOpens(old) = old.to - Least(30 * Day, third)
  BY DEF RenewOpens
<1>4. /\ Least(30 * Day, third) \in Nat
      /\ Least(30 * Day, third) <= 30 * Day /\ Least(30 * Day, third) <= third
  BY <1>1, <1>2 DEF Least
<1> QED  BY <1>1, <1>2, <1>3, <1>4

\* A certificate renewed by one that ends later is not renewed again while that
\* one lives (_duplicate_refusal, "Already renewed").
THEOREM RenewedOnce ==
    ASSUME NEW certs, NEW old, NEW new \in certs, NEW case, NEW names, NEW now \in Int,
           old.to \in Int, new.to \in Int,
           new.case = case, new.names.cn = names.cn, ~new.revoked, new.to > now,
           new.to > old.to
    PROVE  ~RenewalOk(certs, old, case, names, now)
<1>1. new \in LiveCerts(certs, case, names.cn, now) \ {old}
  BY DEF LiveCerts
<1> QED  BY <1>1 DEF RenewalOk

-------------------------------------------------------------------------------
(* Requests: types *)

USE RevocableAssumption, NoneAssumption, FlagAssumption

LocalsType ==
    /\ pc \in [Thread -> Pc]
    /\ at \in [Thread -> Request \cup {NoRequest}]
    /\ asked \in [Thread -> Mode \cup {"renew", "keep"}]
    /\ todo \in [Thread -> SUBSET Cert]
    /\ hand \in [Thread -> SUBSET Cert]
    /\ deleting \in [Thread -> BOOLEAN]

\* A handler on its way to a certificate works on some request.
OnRequest == {"live", "waiting", "insert", "claim", "load", "save", "mark", "putback"}
AtRequest == \A t \in Thread : pc[t] \in OnRequest => at[t] \in Request

\* Returning leaves a handler's notes in order.
LEMMA FinishLocals ==
    ASSUME TypeOK, AtRequest, NEW t \in Thread, Finish(t)
    PROVE  LocalsType' /\ AtRequest'
  BY DEF TypeOK, LocalsType, AtRequest, OnRequest, Finish, Goto, Pc, Mode

\* So does going on to another label.
LEMMA ProceedLocals ==
    ASSUME TypeOK, AtRequest, NEW t \in Thread, NEW label \in Pc, Proceed(t, label),
           label \in OnRequest => pc[t] \in OnRequest
    PROVE  LocalsType' /\ AtRequest'
  BY DEF TypeOK, LocalsType, AtRequest, Proceed, Goto

\* What a fault leaves undone are requests and certificates.
LEMMA AbandonTypes ==
    ASSUME TypeOK, AtRequest, NEW T \in SUBSET Thread, Abandon(T)
    PROVE  stuck' \subseteq Request /\ spared' \subseteq Cert
  BY DEF TypeOK, AtRequest, OnRequest, Abandon, Holding

\* Every variable keeps its type: no row ever has a status the code does not
\* know.
THEOREM RequestTypeCorrect == Spec => []TypeOK
<1> USE DEF TypeOK, Device, Mode, ReqStatus, CertStatus, Presence, Pc, database, locals, faults
<1>1. Init => TypeOK /\ AtRequest
  BY DEF Init, AtRequest, OnRequest
<1>2. TypeOK /\ AtRequest /\ [Next]_vars => TypeOK' /\ AtRequest'
  <2> SUFFICES ASSUME TypeOK, AtRequest, [Next]_vars
               PROVE  TypeOK' /\ AtRequest'
    OBVIOUS
  <2> USE DEF LocalsType, AtRequest, OnRequest
  <2>1. ASSUME NEW t \in Thread, Handle(t)
        PROVE  TypeOK' /\ AtRequest'
    <3>1. ASSUME NEW r \in Request, NEW old \in Cert \cup {NoCert}, Ask(t, r, old) PROVE TypeOK' /\ AtRequest'
      <4>1. {old} \ {NoCert} \in SUBSET Cert
        OBVIOUS
      <4> QED
        BY <3>1, <4>1 DEF Ask, Goto
    <3>2. ASSUME NEW r \in Request, Approve(t, r) PROVE TypeOK' /\ AtRequest'
      BY <3>2 DEF Approve, Goto
    <3>3. ASSUME NEW keep \in BOOLEAN, NEW del \in BOOLEAN, Disconnect(t, keep, del) PROVE TypeOK' /\ AtRequest'
      BY <3>3 DEF Disconnect, Goto
    <3>4. CASE DeleteRevoked(t)
      BY <3>4 DEF DeleteRevoked, Proceed, Goto
    <3>5. ASSUME NEW S \in SUBSET Cert, RemoveOwn(t, S) PROVE TypeOK' /\ AtRequest'
      BY <3>5 DEF RemoveOwn, Goto
    <3>6. CASE StartAudit(t)
      BY <3>6 DEF StartAudit, Proceed, Goto
    <3> QED
      BY <2>1, <3>1, <3>2, <3>3, <3>4, <3>5, <3>6 DEF Handle
  <2>2. ASSUME NEW t \in Thread, Continue(t)
        PROVE  TypeOK' /\ AtRequest'
    <3>1. CASE CheckLive(t)
      BY <3>1, FinishLocals, ProceedLocals DEF CheckLive
    <3>2. CASE CheckWaiting(t)
      BY <3>2, FinishLocals, ProceedLocals DEF CheckWaiting
    <3>3. CASE Insert(t)
      <4>2. req' \in [Request -> ReqStatus]
        BY <3>3 DEF Insert
      <4>3. LocalsType' /\ AtRequest'
        <5>1. CASE Finish(t)
          BY <5>1, FinishLocals
        <5>2. CASE ~Finish(t)
          BY <3>3, <5>2 DEF Insert, Goto
        <5> QED
          BY <5>1, <5>2
      <4> QED
        BY <3>3, <4>2, <4>3 DEF Insert
    <3>4. CASE Claim(t)
      <4>1. req' \in [Request -> ReqStatus]
        BY <3>4 DEF Claim
      <4>2. LocalsType' /\ AtRequest'
        BY <3>4, FinishLocals, ProceedLocals DEF Claim
      <4> QED
        BY <3>4, <4>1, <4>2 DEF Claim
    <3>5. CASE Load(t)
      BY <3>5, ProceedLocals DEF Load
    <3>6. ASSUME NEW c \in Cert, Save(t, c) PROVE TypeOK' /\ AtRequest'
      <4>1. spared' \subseteq Cert
        BY <3>6 DEF Save
      <4> QED
        BY <3>6, <4>1 DEF Save, Goto
    <3>7. ASSUME NEW c \in Cert, RevokeCert(t, c) PROVE TypeOK' /\ AtRequest'
      <4>1. cert' \in [Cert -> CertStatus]
        BY <3>7 DEF RevokeCert
      <4>2. LocalsType' /\ AtRequest'
        <5>1. CASE Finish(t)
          BY <5>1, FinishLocals
        <5>2. CASE ~Finish(t)
          BY <3>7, <5>2 DEF RevokeCert, Goto
        <5> QED
          BY <5>1, <5>2
      <4> QED
        BY <3>7, <4>1, <4>2 DEF RevokeCert
    <3>8. CASE SaveFails(t)
      BY <3>8, ProceedLocals DEF SaveFails
    <3>9. CASE PutBack(t)
      <4>1. req' \in [Request -> ReqStatus]
        BY <3>9 DEF PutBack
      <4> QED
        BY <3>9, <4>1, FinishLocals DEF PutBack
    <3>10. CASE MarkIssued(t)
      <4>1. req' \in [Request -> ReqStatus] /\ certId' \in [Request -> Cert \cup {NoCertId}]
        BY <3>10 DEF MarkIssued
      <4> QED
        BY <3>10, <4>1, ProceedLocals DEF MarkIssued
    <3>11. CASE Supersede(t)
      <4>1. LocalsType' /\ AtRequest'
        <5>1. CASE Finish(t)
          BY <5>1, FinishLocals
        <5>2. CASE ~Finish(t)
          BY <3>11, <5>2 DEF Supersede, Goto, Live
        <5> QED
          BY <5>1, <5>2
      <4> QED
        BY <3>11, <4>1 DEF Supersede
    <3>16. CASE ListCerts(t)
      <4>1. CASE Finish(t)
        BY <3>16, <4>1, FinishLocals DEF ListCerts
      <4>2. CASE ~Finish(t)
        <5>1. Unrevoked \cap Revocable \in SUBSET Cert
          BY DEF Unrevoked
        <5> QED
          BY <3>16, <4>2, <5>1 DEF ListCerts, Goto
      <4> QED
        BY <4>1, <4>2
    <3>12. CASE CutOff(t)
      <4>1. device' \in Device /\ req' \in [Request -> ReqStatus] /\ spared' \subseteq Cert
        BY <3>12 DEF CutOff, Unrevoked
      <4>2. LocalsType' /\ AtRequest'
        BY <3>12, FinishLocals, ProceedLocals DEF CutOff
      <4> QED
        BY <3>12, <4>1, <4>2 DEF CutOff
    <3>13. CASE Forget(t)
      <4>1. device' \in Device /\ req' \in [Request -> ReqStatus]
        BY <3>13 DEF Forget
      <4> QED
        BY <3>13, <4>1, FinishLocals DEF Forget
    <3>14. CASE MarkRemoved(t)
      BY <3>14, FinishLocals DEF MarkRemoved
    <3>15. ASSUME NEW S \in SUBSET Cert, Audit(t, S) PROVE TypeOK' /\ AtRequest'
      <4>1. present' \in [Cert -> Presence]
        BY <3>15 DEF Audit
      <4> QED
        BY <3>15, <4>1, FinishLocals DEF Audit
    <3> QED
      BY <2>2, <3>1, <3>2, <3>3, <3>4, <3>5, <3>6, <3>7, <3>8, <3>9, <3>10, <3>11, <3>12, <3>13,
         <3>14, <3>15, <3>16 DEF Continue
  <2>3. ASSUME NEW r \in Request, Deny(r) PROVE TypeOK' /\ AtRequest'
    BY <2>3 DEF Deny
  <2>4. ASSUME NEW m \in Mode, EditPolicy(m) PROVE TypeOK' /\ AtRequest'
    BY <2>4 DEF EditPolicy
  <2>5. ASSUME NEW c \in Cert, AdminRevokes(c) \/ Leaves(c) PROVE TypeOK' /\ AtRequest'
    BY <2>5 DEF AdminRevokes, Leaves
  <2>6. CASE Restart
    <3>1. stuck' \subseteq Request /\ spared' \subseteq Cert
      BY <2>6, AbandonTypes DEF Restart
    <3> QED
      BY <2>6, <3>1 DEF Restart
  <2>7. CASE Unlock
    BY <2>7 DEF Unlock
  <2>8. CASE UNCHANGED vars
    BY <2>8 DEF vars
  <2>9. ASSUME NEW t \in Thread, Fails(t) PROVE TypeOK' /\ AtRequest'
    <3>1. stuck' \subseteq Request /\ spared' \subseteq Cert
      BY <2>9, AbandonTypes DEF Fails
    <3> QED
      BY <2>9, <3>1, FinishLocals DEF Fails
  <2> QED
    BY <2>1, <2>2, <2>3, <2>4, <2>5, <2>6, <2>7, <2>8, <2>9 DEF Next
<1> QED
  BY <1>1, <1>2, PTL DEF Spec

-------------------------------------------------------------------------------

\* A step of one handler that touches neither statuses nor signatures, and
\* takes up no request.
LEMMA QuietStep ==
    ASSUME TypeOK, RequestsInv, NEW t \in Thread,
           UNCHANGED <<req, certId, signedFor>>,
           \A c \in Cert : cert'[c] = "unissued" => cert[c] = "unissued",
           \A u \in Thread \ {t} : pc'[u] = pc[u] /\ at'[u] = at[u] /\ hand'[u] = hand[u],
           \/ pc'[t] \notin Asking \cup Holding \cup {"claim"}
           \/ pc'[t] \in Asking /\ pc[t] \in Asking /\ at'[t] = at[t]
           \/ pc'[t] \in Holding \ {"mark"} /\ pc[t] \in Holding \ {"mark"} /\ at'[t] = at[t],
           pc'[t] \in Asking \/ at'[t] \in {at[t], NoRequest}
    PROVE  RequestsInv'
<1> USE DEF RequestsInv, Asking, Holding, TypeOK
<1>1. \A r \in Request : Given(r)' = Given(r)
  BY DEF Given
<1>2. AskingInv'
  BY DEF AskingInv
<1>3. HoldingInv'
  BY <1>1 DEF HoldingInv
<1>4. SignedOnce' /\ RowsTellTheTruth'
  BY <1>1 DEF SignedOnce, RowsTellTheTruth
<1> QED
  BY <1>2, <1>3, <1>4

\* A step of no handler that touches neither statuses nor signatures.
LEMMA OutsideStep ==
    ASSUME TypeOK, RequestsInv,
           UNCHANGED <<req, certId, signedFor, pc, at, hand>>,
           \A c \in Cert : cert'[c] = "unissued" => cert[c] = "unissued"
    PROVE  RequestsInv'
<1>1. \A r \in Request : Given(r)' = Given(r)
  BY DEF Given
<1> QED
  BY <1>1 DEF RequestsInv, AskingInv, HoldingInv, SignedOnce, RowsTellTheTruth

\* A step that moves one request between statuses that carry no certificate.
LEMMA StatusStep ==
    ASSUME TypeOK, RequestsInv,
           UNCHANGED <<certId, signedFor, pc, at, hand, cert>>,
           \A r \in Request : \/ req'[r] = req[r]
                              \/ req[r] = "pending" /\ req'[r] = "denied"
                              \/ req[r] # "unused" /\ req'[r] = "forgotten"
    PROVE  RequestsInv'
<1>1. \A r \in Request : Given(r)' = Given(r)
  BY DEF Given
<1> QED
  BY <1>1 DEF RequestsInv, AskingInv, HoldingInv, Asking, Holding, SignedOnce, RowsTellTheTruth

\* The same when the handler of t makes the step and is done with requests.
LEMMA HandlerStatusStep ==
    ASSUME TypeOK, RequestsInv, NEW t \in Thread,
           UNCHANGED <<certId, signedFor, cert>>,
           \A u \in Thread \ {t} : pc'[u] = pc[u] /\ at'[u] = at[u] /\ hand'[u] = hand[u],
           pc'[t] \notin Asking \cup Holding \cup {"claim"},
           at'[t] \in {at[t], NoRequest},
           \A r \in Request : \/ req'[r] = req[r]
                              \/ req[r] = "pending" /\ req'[r] = "denied"
                              \/ req[r] # "unused" /\ req'[r] = "forgotten"
    PROVE  RequestsInv'
<1>1. \A r \in Request : Given(r)' = Given(r)
  BY DEF Given
<1> QED
  BY <1>1 DEF RequestsInv, AskingInv, HoldingInv, Asking, Holding, SignedOnce, RowsTellTheTruth

\* The steps that take a request from one status to the next.
LEMMA IssuingStep ==
    ASSUME TypeOK, TypeOK', RequestsInv, NEW t \in Thread,
           \/ Insert(t) \/ Claim(t) \/ PutBack(t) \/ MarkIssued(t)
           \/ \E c \in Cert : Save(t, c)
    PROVE  RequestsInv'
<1> USE DEF Goto, Proceed, Finish, Asking, Holding
<1>1. ASSUME UNCHANGED signedFor PROVE \A r \in Request : Given(r)' = Given(r)
  BY <1>1 DEF Given
<1>2. CASE Insert(t)
  <2>1. at[t] \in Request /\ req[at[t]] = "unused"
    BY <1>2 DEF Insert, RequestsInv, AskingInv
  <2>2. UNCHANGED <<certId, cert, signedFor>>
    BY <1>2 DEF Insert
  <2>3. \A r \in Request : req'[r] = req[r] \/ (r = at[t] /\ req'[r] = "pending")
    <3>1. req \in [Request -> ReqStatus]
      BY DEF TypeOK
    <3>2. req' = req \/ req' = [req EXCEPT ![at[t]] = "pending"]
      BY <1>2 DEF Insert
    <3> QED
      BY <2>1, <3>1, <3>2
  <2>4. /\ pc'[t] \in {"idle", "claim"}
        /\ pc'[t] = "claim" => at'[t] = at[t]
        /\ at'[t] \in {at[t], NoRequest}
        /\ \A u \in Thread \ {t} : pc'[u] = pc[u] /\ at'[u] = at[u] /\ hand'[u] = hand[u]
    BY <1>2 DEF Insert, TypeOK
  <2> QED
    BY <1>1, <2>1, <2>2, <2>3, <2>4 DEF RequestsInv, AskingInv, HoldingInv, SignedOnce, RowsTellTheTruth
<1>3. CASE Claim(t)
  <2>1. UNCHANGED <<certId, cert, signedFor>> /\ at[t] \in Request
    BY <1>3 DEF Claim, RequestsInv
  <2>2. CASE req[at[t]] = "pending"
    <3>1. /\ req' = [req EXCEPT ![at[t]] = "issuing"]
          /\ pc' = [pc EXCEPT ![t] = "load"]
          /\ UNCHANGED <<at, hand>>
      BY <1>3, <2>2 DEF Claim
    <3> QED
      BY <1>1, <2>1, <2>2, <3>1 DEF TypeOK, RequestsInv, AskingInv, HoldingInv, SignedOnce, RowsTellTheTruth
  <2>3. CASE req[at[t]] # "pending"
    <3>1. /\ pc' = [pc EXCEPT ![t] = "idle"] /\ at' = [at EXCEPT ![t] = NoRequest]
          /\ hand' = [hand EXCEPT ![t] = {}] /\ UNCHANGED req
      BY <1>3, <2>3 DEF Claim
    <3>2. /\ \A u \in Thread \ {t} : pc'[u] = pc[u] /\ at'[u] = at[u] /\ hand'[u] = hand[u]
          /\ pc'[t] = "idle" /\ at'[t] = NoRequest
      BY <3>1 DEF TypeOK
    <3>3. \A r \in Request : req'[r] = req[r]
      BY <3>1
    <3> QED
      BY <2>1, <3>2, <3>3, HandlerStatusStep
  <2> QED
    BY <2>2, <2>3
<1>4. CASE PutBack(t)
  <2>1. UNCHANGED <<certId, cert, signedFor>> /\ at[t] \in Request
    BY <1>4 DEF PutBack, RequestsInv, HoldingInv
  <2>2. \A r \in Request : req'[r] = req[r] \/ (r = at[t] /\ req[r] = "issuing" /\ req'[r] = "pending")
    <3>1. req \in [Request -> ReqStatus]
      BY DEF TypeOK
    <3>2. req' = [req EXCEPT ![at[t]] = IF req[at[t]] = "issuing" THEN "pending" ELSE req[at[t]]]
      BY <1>4 DEF PutBack
    <3> QED
      BY <2>1, <3>1, <3>2
  <2>3. /\ pc'[t] = "idle" /\ at'[t] = NoRequest
        /\ \A u \in Thread \ {t} : pc'[u] = pc[u] /\ at'[u] = at[u] /\ hand'[u] = hand[u]
    BY <1>4 DEF PutBack, TypeOK
  <2>4. Given(at[t]) = {} /\ \A u \in Thread \ {t} : pc[u] \in Holding => at[u] # at[t]
    BY <1>4 DEF PutBack, RequestsInv, HoldingInv
  <2> QED
    BY <1>1, <2>1, <2>2, <2>3, <2>4 DEF RequestsInv, AskingInv, HoldingInv, SignedOnce, RowsTellTheTruth
<1>5. CASE MarkIssued(t)
  <2>1. UNCHANGED <<cert, signedFor, at, hand>> /\ pc' = [pc EXCEPT ![t] = "supersede"]
    BY <1>5 DEF MarkIssued
  <2>2. at[t] \in Request /\ \A u \in Thread \ {t} : pc[u] \in Holding => at[u] # at[t]
    BY <1>5 DEF MarkIssued, RequestsInv, HoldingInv
  <2>3. \A r \in Request : \/ req'[r] = req[r] /\ certId'[r] = certId[r]
                           \/ /\ r = at[t] /\ req[r] = "issuing" /\ req'[r] = "issued"
                              /\ certId'[r] \in Given(r)
    <3>1. hand[t] # {} /\ hand[t] \subseteq Given(at[t])
      BY <1>5 DEF MarkIssued, RequestsInv, HoldingInv
    <3> QED
      BY <1>5, <2>2, <3>1 DEF MarkIssued, TypeOK
  <2> QED
    BY <1>1, <2>1, <2>2, <2>3 DEF TypeOK, RequestsInv, AskingInv, HoldingInv, SignedOnce, RowsTellTheTruth
<1>6. ASSUME NEW c \in Cert, Save(t, c) PROVE RequestsInv'
  <2>1. /\ at[t] \in Request /\ Given(at[t]) = {} /\ req[at[t]] \in {"issuing", "forgotten"}
        /\ signedFor[c] = NoRequest
        /\ \A u \in Thread \ {t} : pc[u] \in Holding => at[u] # at[t]
    BY <1>6 DEF Save, RequestsInv, HoldingInv
  <2>2. /\ pc' = [pc EXCEPT ![t] = "mark"] /\ hand' = [hand EXCEPT ![t] = {c}]
        /\ cert' = [cert EXCEPT ![c] = "live"] /\ UNCHANGED <<req, certId, at>>
    BY <1>6 DEF Save
  <2>3. Given(at[t])' = {c} /\ \A r \in Request \ {at[t]} : Given(r)' = Given(r)
    BY <1>6, <2>1 DEF Save, Given, TypeOK
  <2>4. AskingInv'
    BY <2>2, <1>6 DEF TypeOK, Save, RequestsInv, AskingInv
  <2>5. HoldingInv'
    BY <2>1, <2>2, <2>3, <1>6 DEF TypeOK, Save, RequestsInv, HoldingInv
  <2>6. SignedOnce'
    <3>1. SUFFICES ASSUME NEW r \in Request PROVE \A d, e \in Given(r)' : d = e
      BY DEF SignedOnce
    <3>2. at'[t] = at[t]
      BY <2>2
    <3>3. CASE r = at[t]
      BY <2>3, <3>2, <3>3
    <3>4. CASE r # at[t]
      BY <2>3, <3>4 DEF RequestsInv, SignedOnce
    <3> QED  BY <3>3, <3>4
  <2>8. RowsTellTheTruth'
    <3>1. SUFFICES ASSUME NEW r \in Request
                   PROVE  /\ req'[r] \in {"unused", "pending", "denied"} => Given(r)' = {}
                          /\ req'[r] = "issued" => certId'[r] \in Given(r)'
      BY DEF RowsTellTheTruth
    <3>2. req'[r] = req[r] /\ certId'[r] = certId[r]
      BY <2>2
    <3>3. CASE r = at[t]
      BY <2>1, <3>2, <3>3
    <3>4. CASE r # at[t]
      BY <2>3, <3>2, <3>4 DEF RequestsInv, RowsTellTheTruth
    <3> QED  BY <3>3, <3>4
  <2>7. \A d \in Cert : cert'[d] = "unissued" => signedFor'[d] = NoRequest
    BY <1>6 DEF Save, TypeOK, RequestsInv
  <2> QED
    BY <2>1, <2>2, <2>4, <2>5, <2>6, <2>7, <2>8 DEF TypeOK, RequestsInv
<1> QED
  BY <1>2, <1>3, <1>4, <1>5, <1>6

\* The other steps of a handler.
LEMMA OtherStep ==
    ASSUME TypeOK, RequestsInv, NEW t \in Thread,
           \/ CheckLive(t) \/ CheckWaiting(t) \/ Load(t) \/ SaveFails(t) \/ Supersede(t)
           \/ ListCerts(t) \/ DeleteRevoked(t) \/ StartAudit(t) \/ MarkRemoved(t)
           \/ CutOff(t) \/ Forget(t) \/ Fails(t)
           \/ \E c \in Cert : RevokeCert(t, c)
           \/ \E S \in SUBSET Cert : Audit(t, S) \/ RemoveOwn(t, S)
           \/ \E keep, del \in BOOLEAN : Disconnect(t, keep, del)
    PROVE  RequestsInv'
<1> USE DEF Goto, Proceed, Finish, Asking, Holding, database
<1> DEFINE Others == \A u \in Thread \ {t} : pc'[u] = pc[u] /\ at'[u] = at[u] /\ hand'[u] = hand[u]
           Done   == pc'[t] \notin Asking \cup Holding \cup {"claim"} /\ at'[t] \in {at[t], NoRequest}
           Same   == UNCHANGED <<req, certId, signedFor>>
           Kept   == \A c \in Cert : cert'[c] = "unissued" => cert[c] = "unissued"
<1>1. CASE CheckLive(t) \/ CheckWaiting(t)
  <2>1. Others /\ Same /\ Kept
    BY <1>1 DEF CheckLive, CheckWaiting, TypeOK
  <2>2. Done \/ (pc'[t] \in Asking /\ pc[t] \in Asking /\ at'[t] = at[t])
    BY <1>1 DEF CheckLive, CheckWaiting, TypeOK
  <2> QED
    BY <2>1, <2>2, QuietStep
<1>2. CASE Load(t) \/ SaveFails(t)
  <2>1. Others /\ Same /\ Kept
    BY <1>2 DEF Load, SaveFails, TypeOK
  <2>2. pc'[t] \in Holding \ {"mark"} /\ pc[t] \in Holding \ {"mark"} /\ at'[t] = at[t]
    BY <1>2 DEF Load, SaveFails, TypeOK
  <2> QED
    BY <2>1, <2>2, QuietStep
<1>3. CASE Supersede(t) \/ ListCerts(t) \/ DeleteRevoked(t) \/ StartAudit(t) \/ MarkRemoved(t) \/ Fails(t)
  <2>1. Others /\ Same /\ Kept
    BY <1>3 DEF Supersede, ListCerts, DeleteRevoked, StartAudit, MarkRemoved, Fails, TypeOK
  <2>2. Done
    BY <1>3 DEF Supersede, ListCerts, DeleteRevoked, StartAudit, MarkRemoved, Fails, TypeOK
  <2> QED
    BY <2>1, <2>2, QuietStep
<1>4. ASSUME NEW c \in Cert, RevokeCert(t, c) PROVE RequestsInv'
  <2>1. Others /\ Same
    BY <1>4 DEF RevokeCert, TypeOK
  <2>2. Kept
    <3>1. cert' = [cert EXCEPT ![c] = IF c \in Unrevoked THEN "revoked" ELSE cert[c]]
      BY <1>4 DEF RevokeCert
    <3> QED
      BY <3>1 DEF TypeOK
  <2>3. Done
    BY <1>4 DEF RevokeCert, TypeOK
  <2> QED
    BY <2>1, <2>2, <2>3, QuietStep
<1>5. ASSUME NEW S \in SUBSET Cert, Audit(t, S) \/ RemoveOwn(t, S) PROVE RequestsInv'
  <2>1. Others /\ Same /\ Kept
    BY <1>5 DEF Audit, RemoveOwn, TypeOK
  <2>2. Done
    BY <1>5 DEF Audit, RemoveOwn, TypeOK
  <2> QED
    BY <2>1, <2>2, QuietStep
<1>6. ASSUME NEW keep \in BOOLEAN, NEW del \in BOOLEAN, Disconnect(t, keep, del) PROVE RequestsInv'
  <2>1. Others /\ Same /\ Kept /\ Done
    BY <1>6 DEF Disconnect, TypeOK
  <2> QED
    BY <2>1, QuietStep
<1>7. CASE CutOff(t) \/ Forget(t)
  <2>1. Others /\ UNCHANGED <<certId, signedFor, cert>>
    BY <1>7 DEF CutOff, Forget, TypeOK
  <2>2. Done
    BY <1>7 DEF CutOff, Forget, TypeOK
  <2>3. \A r \in Request : \/ req'[r] = req[r]
                           \/ req[r] = "pending" /\ req'[r] = "denied"
                           \/ req[r] # "unused" /\ req'[r] = "forgotten"
    BY <1>7 DEF CutOff, Forget, TypeOK
  <2> QED
    BY <2>1, <2>2, <2>3, HandlerStatusStep
<1> QED
  BY <1>1, <1>2, <1>3, <1>4, <1>5, <1>6, <1>7

\* The invariant behind the two theorems below.
THEOREM RequestsInvHolds == Spec => []RequestsInv
<1>1. Init => RequestsInv
  BY DEF Init, RequestsInv, AskingInv, HoldingInv, Asking, Holding, SignedOnce, RowsTellTheTruth, Given
<1>2. TypeOK /\ TypeOK' /\ RequestsInv /\ [Next]_vars => RequestsInv'
  <2> SUFFICES ASSUME TypeOK, TypeOK', RequestsInv, [Next]_vars
               PROVE  RequestsInv'
    OBVIOUS
  <2>1. ASSUME NEW t \in Thread, NEW r \in Request, NEW old \in Cert \cup {NoCert}, Ask(t, r, old)
        PROVE  RequestsInv'
    <3>1. /\ req[r] = "unused" /\ \A u \in Thread : at[u] # r
          /\ pc' = [pc EXCEPT ![t] = "live"] /\ at' = [at EXCEPT ![t] = r]
          /\ hand' = [hand EXCEPT ![t] = {old} \ {NoCert}]
          /\ UNCHANGED <<req, certId, cert, signedFor>>
      BY <2>1 DEF Ask, Goto, database
    <3>2. \A q \in Request : Given(q)' = Given(q)
      BY <3>1 DEF Given
    <3>3. AskingInv'
      BY <3>1 DEF RequestsInv, AskingInv, Asking, TypeOK
    <3>4. HoldingInv'
      BY <3>1, <3>2 DEF RequestsInv, HoldingInv, Holding, TypeOK
    <3> QED
      BY <3>1, <3>2, <3>3, <3>4 DEF RequestsInv, SignedOnce, RowsTellTheTruth, TypeOK
  <2>2. ASSUME NEW t \in Thread, NEW r \in Request, Approve(t, r)
        PROVE  RequestsInv'
    <3>1. /\ req[r] = "pending"
          /\ pc' = [pc EXCEPT ![t] = "claim"] /\ at' = [at EXCEPT ![t] = r]
          /\ UNCHANGED <<req, certId, cert, signedFor, hand>>
      BY <2>2 DEF Approve, Goto, database
    <3>2. \A q \in Request : Given(q)' = Given(q)
      BY <3>1 DEF Given
    <3>3. AskingInv'
      BY <3>1 DEF RequestsInv, AskingInv, Asking, TypeOK
    <3>4. HoldingInv'
      BY <3>1, <3>2 DEF RequestsInv, HoldingInv, Holding, TypeOK
    <3> QED
      BY <3>1, <3>2, <3>3, <3>4 DEF RequestsInv, SignedOnce, RowsTellTheTruth, TypeOK
  <2>3. ASSUME NEW r \in Request, Deny(r) PROVE RequestsInv'
    <3>1. \A q \in Request : \/ req'[q] = req[q]
                             \/ req[q] = "pending" /\ req'[q] = "denied"
      BY <2>3 DEF Deny, TypeOK
    <3> QED
      BY <2>3, <3>1, StatusStep DEF Deny, locals
  <2>4. ASSUME NEW c \in Cert, AdminRevokes(c) \/ Leaves(c) PROVE RequestsInv'
    <3>1. \A d \in Cert : cert'[d] = "unissued" => cert[d] = "unissued"
      BY <2>4 DEF AdminRevokes, Leaves, TypeOK
    <3> QED
      BY <2>4, <3>1, OutsideStep DEF AdminRevokes, Leaves, locals
  <2>5. CASE Unlock \/ UNCHANGED vars \/ \E m \in Mode : EditPolicy(m)
    BY <2>5, OutsideStep DEF Unlock, vars, EditPolicy, database, locals
  <2>6. CASE Restart
    <3>1. \A r \in Request : Given(r)' = Given(r)
      BY <2>6 DEF Restart, Given
    <3> QED
      BY <2>6, <3>1 DEF Restart, database, RequestsInv, AskingInv, HoldingInv, Asking, Holding,
                        SignedOnce, RowsTellTheTruth
  <2> QED
    BY <2>1, <2>2, <2>3, <2>4, <2>5, <2>6, IssuingStep, OtherStep DEF Next, Handle, Continue
<1> QED
  BY <1>1, <1>2, RequestTypeCorrect, PTL DEF Spec

\* Two approvals of one request, retries and crashes never make two
\* certificates.
THEOREM SignedOnceHolds == Spec => []SignedOnce
<1>1. RequestsInv => SignedOnce
  BY DEF RequestsInv
<1> QED
  BY <1>1, RequestsInvHolds, PTL

\* A denied or waiting request has no certificate, an issued one names its own.
THEOREM RowsTellTheTruthHolds == Spec => []RowsTellTheTruth
<1>1. RequestsInv => RowsTellTheTruth
  BY DEF RequestsInv
<1> QED
  BY <1>1, RequestsInvHolds, PTL

-------------------------------------------------------------------------------
(* The refinement of PalPromise: what each step does to the answers. *)

\* The answer a status stands for while nothing is signed for the request.
Plain(status) ==
    CASE status = "unused" -> "none"
      [] status \in {"pending", "issuing", "issued"} -> "waiting"
      [] status = "denied" -> "refused"
      [] status = "forgotten" -> "dropped"

\* The answer is signed, or about to be, or what the status says.
LEMMA AnswerCases ==
    ASSUME TypeOK, NEW r \in Request
    PROVE  /\ Given(r) # {} => AnswerTo(r) = "signed"
           /\ Given(r) = {} /\ Signing(r) => AnswerTo(r) = "waiting"
           /\ Given(r) = {} /\ ~Signing(r) => AnswerTo(r) = Plain(req[r])
  BY DEF TypeOK, ReqStatus, AnswerTo, Plain

\* A step that signs nothing does to the promise what it does to each answer.
LEMMA AnswersStay ==
    ASSUME UNCHANGED signedFor, \A r \in Request : AnswerTo(r)' = AnswerTo(r)
    PROVE  UNCHANGED <<[r \in Request |-> AnswerTo(r)], [r \in Request |-> Given(r)]>>
<1>1. \A r \in Request : Given(r)' = Given(r)
  BY DEF Given
<1> QED
  BY <1>1

\* A step that signs nothing and drops some of what was waiting or refused.
LEMMA AnswersDrop ==
    ASSUME UNCHANGED signedFor,
           \A r \in Request : AnswerTo(r)' = AnswerTo(r)
                             \/ (AnswerTo(r) \in {"waiting", "refused"} /\ AnswerTo(r)' = "dropped")
    PROVE  Promise!PromiseNext
<1>1. \A r \in Request : Given(r)' = Given(r)
  BY DEF Given
<1> DEFINE S == {r \in Request : AnswerTo(r)' # AnswerTo(r)}
<1>2. Promise!Drop(S)
  BY <1>1 DEF Promise!Drop
<1> QED
  BY <1>2 DEF Promise!PromiseNext

\* A step that signs nothing and refuses some of what was waiting.
LEMMA AnswersRefuse ==
    ASSUME UNCHANGED signedFor,
           \A r \in Request : AnswerTo(r)' = AnswerTo(r)
                             \/ (AnswerTo(r) = "waiting" /\ AnswerTo(r)' = "refused")
    PROVE  Promise!PromiseNext
<1>1. \A r \in Request : Given(r)' = Given(r)
  BY DEF Given
<1> DEFINE S == {r \in Request : AnswerTo(r)' # AnswerTo(r)}
<1>2. Promise!Refuse(S)
  BY <1>1 DEF Promise!Refuse
<1> QED
  BY <1>2 DEF Promise!PromiseNext

\* Who is about to save a certificate only changes with a label "save".
LEMMA SigningStays ==
    ASSUME TypeOK, TypeOK', NEW r \in Request,
           \A u \in Thread : /\ pc'[u] = "save" <=> pc[u] = "save"
                             /\ pc[u] = "save" => at'[u] = at[u]
    PROVE  Signing(r)' <=> Signing(r)
  BY DEF Signing

\* What a request was given only changes with the signing history.
LEMMA GivenStays ==
    ASSUME UNCHANGED signedFor, NEW r \in Request
    PROVE  Given(r)' = Given(r)
  BY DEF Given

\* Steps that leave every answer as it is.
LEMMA Unanswering ==
    ASSUME TypeOK, TypeOK', RequestsInv, UNCHANGED signedFor,
           \A u \in Thread : /\ pc'[u] = "save" <=> pc[u] = "save"
                             /\ pc[u] = "save" => at'[u] = at[u],
           \A r \in Request : Plain(req'[r]) = Plain(req[r])
    PROVE  UNCHANGED <<[r \in Request |-> AnswerTo(r)], [r \in Request |-> Given(r)]>>
<1>1. ASSUME NEW r \in Request PROVE AnswerTo(r)' = AnswerTo(r)
  <2>1. /\ Given(r)' # {} => AnswerTo(r)' = "signed"
        /\ Given(r)' = {} /\ Signing(r)' => AnswerTo(r)' = "waiting"
        /\ Given(r)' = {} /\ ~Signing(r)' => AnswerTo(r)' = Plain(req'[r])
    BY DEF TypeOK, ReqStatus, AnswerTo, Plain
  <2> QED
    BY <2>1, AnswerCases, SigningStays, GivenStays
<1> QED
  BY <1>1, AnswersStay

\* Saving the certificate is what signs the request.
LEMMA SaveSigns ==
    ASSUME TypeOK, TypeOK', RequestsInv, NEW t \in Thread, NEW c \in Cert, Save(t, c)
    PROVE  Promise!PromiseNext
<1>0. PICK q \in Request : q = at[t]
  BY DEF Save, RequestsInv, HoldingInv, Holding
<1>1. Given(q) = {} /\ signedFor[c] = NoRequest /\ Signing(q)
  BY <1>0 DEF Save, RequestsInv, HoldingInv, Holding, Signing
<1>2. Given(q)' = {c} /\ \A r \in Request \ {q} : Given(r)' = Given(r)
  BY <1>0, <1>1 DEF Save, Given, TypeOK
<1>3. AnswerTo(q) = "waiting" /\ AnswerTo(q)' = "signed"
  BY <1>1, <1>2, AnswerCases DEF AnswerTo
<1>4. ASSUME NEW r \in Request \ {q} PROVE AnswerTo(r)' = AnswerTo(r)
  <2>1. Signing(r)' <=> Signing(r)
    BY <1>0 DEF Save, Goto, Signing, TypeOK
  <2>2. req' = req
    BY DEF Save
  <2> QED
    BY <1>2, <2>1, <2>2 DEF AnswerTo
<1>5. \A r \in Request : c \notin Given(r)
  BY <1>1 DEF Given
<1>6. Promise!Sign(q, c)
  BY <1>2, <1>3, <1>4, <1>5 DEF Promise!Sign
<1> QED
  BY <1>6 DEF Promise!PromiseNext

\* Inserting the row is what asks.
LEMMA InsertAsks ==
    ASSUME TypeOK, TypeOK', RequestsInv, NEW t \in Thread, Insert(t)
    PROVE  Promise!PromiseNext
           \/ UNCHANGED <<[r \in Request |-> AnswerTo(r)], [r \in Request |-> Given(r)]>>
<1>0. PICK q \in Request : q = at[t]
  BY DEF Insert, RequestsInv, AskingInv, Asking
<1>1. req[q] = "unused" /\ UNCHANGED signedFor
  BY <1>0 DEF Insert, RequestsInv, AskingInv, Asking
<1>2. \A u \in Thread : /\ pc'[u] = "save" <=> pc[u] = "save"
                        /\ pc[u] = "save" => at'[u] = at[u]
  BY DEF Insert, Finish, Goto, TypeOK
<1>3. CASE req' = req
  BY <1>1, <1>2, <1>3, Unanswering
<1>4. CASE req' = [req EXCEPT ![q] = "pending"]
  <2>1. Given(q) = {} /\ ~Signing(q)
    BY <1>1 DEF RequestsInv, RowsTellTheTruth, HoldingInv, Holding, Signing
  <2>2. AnswerTo(q) = "none"
    BY <1>1, <2>1, AnswerCases DEF Plain
  <2>3. \A r \in Request : Given(r)' = Given(r) /\ (Signing(r)' <=> Signing(r))
    BY <1>1, <1>2, GivenStays, SigningStays
  <2>4. req'[q] = "pending" /\ \A r \in Request \ {q} : req'[r] = req[r]
    BY <1>4 DEF TypeOK
  <2>5. AnswerTo(q)' = "waiting"
    BY <2>1, <2>3, <2>4 DEF AnswerTo
  <2>6. \A r \in Request \ {q} : AnswerTo(r)' = AnswerTo(r)
    BY <2>3, <2>4 DEF AnswerTo
  <2>7. Promise!Ask(q)
    BY <2>2, <2>3, <2>5, <2>6 DEF Promise!Ask
  <2> QED
    BY <2>7 DEF Promise!PromiseNext
<1> QED
  BY <1>0, <1>3, <1>4 DEF Insert

\* Losing a handler, or the rows of a deleted PC, drops what was not signed.
LEMMA SomeDropped ==
    ASSUME TypeOK, TypeOK', RequestsInv,
           Restart \/ \E t \in Thread : SaveFails(t) \/ Forget(t)
    PROVE  Promise!PromiseNext
<1>1. UNCHANGED signedFor
  BY DEF Restart, SaveFails, Forget
<1>2. \A r \in Request : req'[r] = req[r] \/ (req[r] # "unused" /\ req'[r] = "forgotten")
  BY DEF Restart, SaveFails, Forget, database, TypeOK
<1>3. ASSUME NEW r \in Request, Signing(r)' PROVE Signing(r)
  BY <1>3 DEF Restart, SaveFails, Forget, Proceed, Finish, Goto, Signing, TypeOK
<1>4. ASSUME NEW r \in Request, Signing(r) PROVE req[r] \in {"issuing", "forgotten"}
  BY <1>4 DEF Signing, RequestsInv, HoldingInv, Holding
<1>5. ASSUME NEW r \in Request
      PROVE  AnswerTo(r)' = AnswerTo(r)
             \/ (AnswerTo(r) \in {"waiting", "refused"} /\ AnswerTo(r)' = "dropped")
  <2>1. Given(r)' = Given(r)
    BY <1>1, GivenStays
  <2>2. CASE Given(r) # {}
    BY <2>1, <2>2 DEF AnswerTo
  <2>3. CASE Given(r) = {} /\ Signing(r)'
    BY <2>1, <2>3, <1>3 DEF AnswerTo
  <2>4. CASE Given(r) = {} /\ ~Signing(r)' /\ Signing(r)
    BY <2>1, <2>4, <1>2, <1>4 DEF AnswerTo
  <2>5. CASE Given(r) = {} /\ ~Signing(r)' /\ ~Signing(r)
    BY <2>1, <2>5, <1>2 DEF AnswerTo, TypeOK, ReqStatus
  <2> QED
    BY <2>2, <2>3, <2>4, <2>5
<1> QED
  BY <1>1, <1>5, AnswersDrop

\* The admin's no, and disconnecting, refuse what is pending.
LEMMA SomeRefused ==
    ASSUME TypeOK, TypeOK', RequestsInv,
           \/ \E r \in Request : Deny(r)
           \/ \E t \in Thread : CutOff(t)
    PROVE  Promise!PromiseNext
<1>1. UNCHANGED signedFor
  BY DEF Deny, CutOff
<1>2. \A r \in Request : req'[r] = req[r] \/ (req[r] = "pending" /\ req'[r] = "denied")
  BY DEF Deny, CutOff, TypeOK
<1>3. \A u \in Thread : /\ pc'[u] = "save" <=> pc[u] = "save"
                        /\ pc[u] = "save" => at'[u] = at[u]
  BY DEF Deny, CutOff, locals, Proceed, Finish, Goto, TypeOK
<1>4. ASSUME NEW r \in Request, req[r] = "pending" PROVE ~Signing(r)
  BY <1>4 DEF Signing, RequestsInv, HoldingInv, Holding
<1>5. ASSUME NEW r \in Request
      PROVE  AnswerTo(r)' = AnswerTo(r) \/ (AnswerTo(r) = "waiting" /\ AnswerTo(r)' = "refused")
  <2>1. Given(r)' = Given(r) /\ (Signing(r)' <=> Signing(r))
    BY <1>1, <1>3, GivenStays, SigningStays
  <2>2. CASE req'[r] = req[r]
    BY <2>1, <2>2 DEF AnswerTo
  <2>3. CASE req[r] = "pending" /\ req'[r] = "denied"
    BY <2>1, <2>3, <1>4 DEF AnswerTo, RequestsInv, RowsTellTheTruth
  <2> QED
    BY <1>2, <2>2, <2>3
<1> QED
  BY <1>1, <1>5, AnswersRefuse

\* The other steps of _issue move a request among statuses that all mean it
\* is still waiting.
LEMMA StillWaiting ==
    ASSUME TypeOK, TypeOK', RequestsInv, NEW t \in Thread,
           Claim(t) \/ Load(t) \/ PutBack(t) \/ MarkIssued(t)
    PROVE  UNCHANGED <<[r \in Request |-> AnswerTo(r)], [r \in Request |-> Given(r)]>>
<1>0. PICK q \in Request : q = at[t]
  BY DEF Claim, Load, PutBack, MarkIssued, RequestsInv, HoldingInv, Holding
<1>1. UNCHANGED signedFor
  BY DEF Claim, Load, PutBack, MarkIssued
<1>2. \A r \in Request : Plain(req'[r]) = Plain(req[r])
  <2>1. \A r \in Request : req'[r] = req[r]
            \/ (req[r] \in {"pending", "issuing"} /\ req'[r] \in {"pending", "issuing", "issued"})
    BY <1>0 DEF Claim, Load, PutBack, MarkIssued, database, TypeOK
  <2> QED
    BY <2>1 DEF Plain
<1>3. CASE Claim(t) \/ PutBack(t) \/ MarkIssued(t)
  <2>1. \A u \in Thread : /\ pc'[u] = "save" <=> pc[u] = "save"
                          /\ pc[u] = "save" => at'[u] = at[u]
    BY <1>3 DEF Claim, PutBack, MarkIssued, Proceed, Finish, Goto, TypeOK
  <2> QED
    BY <1>1, <1>2, <2>1, Unanswering
<1>4. CASE Load(t)
  <2>1. Given(q) = {} /\ req[q] \in {"issuing", "forgotten"} /\ ~Signing(q)
    BY <1>0, <1>4 DEF Load, RequestsInv, HoldingInv, Holding, Signing
  <2>2. UNCHANGED <<req, at>>
    BY <1>4 DEF Load, Proceed, database
  <2>3. \A r \in Request \ {q} : Signing(r)' <=> Signing(r)
    BY <1>0, <1>4 DEF Load, Proceed, Goto, Signing, TypeOK
  <2>4. Signing(q)' => req[q] = "issuing"
    BY <1>0, <1>4, <2>1 DEF Load, Proceed, Goto, Signing, TypeOK
  <2>5. ASSUME NEW r \in Request PROVE AnswerTo(r)' = AnswerTo(r)
    BY <1>1, <2>1, <2>2, <2>3, <2>4, GivenStays DEF AnswerTo
  <2> QED
    BY <1>1, <2>5, AnswersStay
<1> QED
  BY <1>3, <1>4

\* However handlers interleave, fail and are cut off, each request is answered
\* once: signed with one certificate, or refused, or dropped with its PC.
THEOREM RequestsRefine == Spec => RequestsKeepPromise
<1>1. Init => Promise!PromiseInit
  <2>1. ASSUME Init, NEW r \in Request PROVE Given(r) = {} /\ AnswerTo(r) = "none"
    BY <2>1 DEF Init, Given, AnswerTo, Signing
  <2> QED
    BY <2>1 DEF Promise!PromiseInit
<1>2. TypeOK /\ TypeOK' /\ RequestsInv /\ [Next]_vars
        => [Promise!PromiseNext]_<<[r \in Request |-> AnswerTo(r)], [r \in Request |-> Given(r)]>>
  <2> SUFFICES ASSUME TypeOK, TypeOK', RequestsInv, [Next]_vars
               PROVE  \/ Promise!PromiseNext
                      \/ UNCHANGED <<[r \in Request |-> AnswerTo(r)], [r \in Request |-> Given(r)]>>
    OBVIOUS
  <2>1. ASSUME UNCHANGED <<req, signedFor>>,
               \A u \in Thread : /\ pc'[u] = "save" <=> pc[u] = "save"
                                 /\ pc[u] = "save" => at'[u] = at[u]
        PROVE  UNCHANGED <<[r \in Request |-> AnswerTo(r)], [r \in Request |-> Given(r)]>>
    BY <2>1, Unanswering
  <2>2. ASSUME NEW t \in Thread, Handle(t)
        PROVE  UNCHANGED <<[r \in Request |-> AnswerTo(r)], [r \in Request |-> Given(r)]>>
    <3>1. UNCHANGED <<req, signedFor>>
      BY <2>2 DEF Handle, Ask, Approve, Disconnect, DeleteRevoked, RemoveOwn, StartAudit, database
    <3>2. \A u \in Thread : /\ pc'[u] = "save" <=> pc[u] = "save"
                            /\ pc[u] = "save" => at'[u] = at[u]
      BY <2>2 DEF Handle, Ask, Approve, Disconnect, DeleteRevoked, RemoveOwn, StartAudit, Proceed, Goto, TypeOK
    <3> QED
      BY <2>1, <3>1, <3>2
  <2>3. ASSUME NEW t \in Thread,
               \/ CheckLive(t) \/ CheckWaiting(t) \/ Supersede(t) \/ MarkRemoved(t) \/ ListCerts(t)
               \/ Fails(t)
        PROVE  UNCHANGED <<[r \in Request |-> AnswerTo(r)], [r \in Request |-> Given(r)]>>
    <3>1. UNCHANGED <<req, signedFor>>
      BY <2>3 DEF CheckLive, CheckWaiting, Supersede, MarkRemoved, ListCerts, Fails, database
    <3>2. \A u \in Thread : /\ pc'[u] = "save" <=> pc[u] = "save"
                            /\ pc[u] = "save" => at'[u] = at[u]
      BY <2>3 DEF CheckLive, CheckWaiting, Supersede, MarkRemoved, ListCerts, Fails, Proceed, Finish, Goto,
         TypeOK
    <3> QED
      BY <2>1, <3>1, <3>2
  <2>4. ASSUME NEW t \in Thread,
               (\E c \in Cert : RevokeCert(t, c)) \/ (\E S \in SUBSET Cert : Audit(t, S))
        PROVE  UNCHANGED <<[r \in Request |-> AnswerTo(r)], [r \in Request |-> Given(r)]>>
    <3>1. UNCHANGED <<req, signedFor>>
      BY <2>4 DEF RevokeCert, Audit
    <3>2. \A u \in Thread : /\ pc'[u] = "save" <=> pc[u] = "save"
                            /\ pc[u] = "save" => at'[u] = at[u]
      BY <2>4 DEF RevokeCert, Audit, Finish, Goto, TypeOK
    <3> QED
      BY <2>1, <3>1, <3>2
  <2>5. CASE Unlock \/ UNCHANGED vars \/ (\E m \in Mode : EditPolicy(m))
             \/ (\E c \in Cert : AdminRevokes(c) \/ Leaves(c))
    BY <2>1, <2>5 DEF Unlock, vars, EditPolicy, AdminRevokes, Leaves, database, locals
  <2> QED
    BY <2>2, <2>3, <2>4, <2>5, SaveSigns, InsertAsks, SomeDropped, SomeRefused, StillWaiting
    DEF Next, Continue
<1> QED
  BY <1>1, <1>2, RequestTypeCorrect, RequestsInvHolds, PTL
  DEF Spec, RequestsKeepPromise, Promise!PromiseSpec
-------------------------------------------------------------------------------
(* ClaimsAreHeld                                                           *)

\* A step of t that claims nothing, and after which t still holds what it held,
\* or has let go of it, or is ended by a fault.
LEMMA ClaimsStep ==
    ASSUME TypeOK, ClaimsAreHeld, NEW t \in Thread, stuck \subseteq stuck',
           \A u \in Thread \ {t} : pc'[u] = pc[u] /\ at'[u] = at[u],
           \A r \in Request : req'[r] = "issuing" => req[r] = "issuing",
           pc[t] \in Holding =>
               \/ pc'[t] \in Holding /\ at'[t] = at[t]
               \/ at[t] \in stuck'
               \/ at[t] \in Request => req'[at[t]] # "issuing"
    PROVE  ClaimsAreHeld'
  BY DEF ClaimsAreHeld

\* A request that is being issued has a handler at it, unless a fault ended
\* that handler (_issue).
THEOREM ClaimsAreHeldHolds == Spec => []ClaimsAreHeld
<1>1. Init => ClaimsAreHeld
  BY DEF Init, ClaimsAreHeld
<1>2. TypeOK /\ ClaimsAreHeld /\ [Next]_vars => ClaimsAreHeld'
  <2> SUFFICES ASSUME TypeOK, ClaimsAreHeld, [Next]_vars
               PROVE  ClaimsAreHeld'
    OBVIOUS
  <2> USE DEF TypeOK, Holding, Goto, Proceed, Finish, database, faults
  <2>1. ASSUME NEW t \in Thread, Handle(t) PROVE ClaimsAreHeld'
    <3>1. pc[t] = "idle" /\ UNCHANGED <<req, stuck>>
      BY <2>1 DEF Handle, Approve, Ask, Disconnect, DeleteRevoked, RemoveOwn, StartAudit
    <3>2. \A u \in Thread \ {t} : pc'[u] = pc[u] /\ at'[u] = at[u]
      BY <2>1 DEF Handle, Approve, Ask, Disconnect, DeleteRevoked, RemoveOwn, StartAudit
    <3> QED
      BY <3>1, <3>2, ClaimsStep
  <2>2. ASSUME NEW t \in Thread, Claim(t) PROVE ClaimsAreHeld'
    <3>1. CASE req[at[t]] = "pending"
      <4>1. /\ pc'[t] = "load" /\ at'[t] = at[t] /\ UNCHANGED stuck
            /\ \A u \in Thread \ {t} : pc'[u] = pc[u] /\ at'[u] = at[u]
        BY <2>2, <3>1 DEF Claim
      <4>2. pc[t] = "claim" /\ \A r \in Request : req'[r] = req[r] \/ r = at[t]
        BY <2>2, <3>1 DEF Claim
      <4> QED
        BY <4>1, <4>2 DEF ClaimsAreHeld
    <3>2. CASE req[at[t]] # "pending"
      BY <2>2, <3>2, ClaimsStep DEF Claim
    <3> QED
      BY <3>1, <3>2
  <2>3. ASSUME NEW t \in Thread, PutBack(t) \/ MarkIssued(t) PROVE ClaimsAreHeld'
    <3>1. UNCHANGED stuck /\ \A u \in Thread \ {t} : pc'[u] = pc[u] /\ at'[u] = at[u]
      BY <2>3 DEF PutBack, MarkIssued
    <3>2. \A r \in Request : /\ req'[r] = "issuing" => req[r] = "issuing"
                             /\ r = at[t] => req'[r] # "issuing"
      BY <2>3 DEF PutBack, MarkIssued
    <3> QED
      BY <3>1, <3>2, ClaimsStep
  <2>4. ASSUME NEW t \in Thread,
               \/ CheckLive(t) \/ CheckWaiting(t) \/ Insert(t) \/ Load(t) \/ SaveFails(t) \/ Supersede(t)
               \/ ListCerts(t) \/ CutOff(t) \/ Forget(t) \/ MarkRemoved(t)
               \/ (\E c \in Cert : Save(t, c) \/ RevokeCert(t, c)) \/ (\E S \in SUBSET Cert : Audit(t, S))
        PROVE  ClaimsAreHeld'
    <3>1. UNCHANGED stuck /\ \A u \in Thread \ {t} : pc'[u] = pc[u] /\ at'[u] = at[u]
      BY <2>4 DEF CheckLive, CheckWaiting, Insert, Load, SaveFails, Supersede, ListCerts, CutOff, Forget,
           MarkRemoved, Save, RevokeCert, Audit
    <3>2. \A r \in Request : req'[r] = "issuing" => req[r] = "issuing"
      BY <2>4 DEF CheckLive, CheckWaiting, Insert, Load, SaveFails, Supersede, ListCerts, CutOff, Forget,
           MarkRemoved, Save, RevokeCert, Audit
    <3>3. pc[t] \in Holding => pc'[t] \in Holding /\ at'[t] = at[t]
      BY <2>4 DEF CheckLive, CheckWaiting, Insert, Load, SaveFails, Supersede, ListCerts, CutOff, Forget,
           MarkRemoved, Save, RevokeCert, Audit
    <3> QED
      BY <3>1, <3>2, <3>3, ClaimsStep
  <2>5. ASSUME NEW t \in Thread, Fails(t) PROVE ClaimsAreHeld'
    <3>1. UNCHANGED req /\ \A u \in Thread \ {t} : pc'[u] = pc[u] /\ at'[u] = at[u]
      BY <2>5 DEF Fails
    <3>2. stuck \subseteq stuck' /\ (pc[t] \in Holding => at[t] \in stuck')
      BY <2>5 DEF Fails, Abandon
    <3> QED
      BY <3>1, <3>2, ClaimsStep
  <2>6. CASE Restart
    <3>1. UNCHANGED req /\ stuck \subseteq stuck' /\ \A t \in Thread : pc[t] \in Holding => at[t] \in stuck'
      BY <2>6 DEF Restart, Abandon
    <3> QED
      BY <3>1 DEF ClaimsAreHeld
  <2>7. CASE \/ \E r \in Request : Deny(r)
             \/ \E m \in Mode : EditPolicy(m)
             \/ \E c \in Cert : AdminRevokes(c) \/ Leaves(c)
             \/ Unlock \/ UNCHANGED vars
    <3>1. UNCHANGED <<stuck, pc, at>> /\ \A r \in Request : req'[r] = "issuing" => req[r] = "issuing"
      BY <2>7 DEF Deny, EditPolicy, AdminRevokes, Leaves, Unlock, vars, locals
    <3> QED
      BY <3>1 DEF ClaimsAreHeld
  <2> QED
    BY <2>1, <2>2, <2>3, <2>4, <2>5, <2>6, <2>7 DEF Next, Continue
<1> QED
  BY <1>1, <1>2, RequestTypeCorrect, PTL DEF Spec

-------------------------------------------------------------------------------
(* DisconnectRevokes                                                       *)

Left == Unrevoked \cap Revocable

\* What is left to revoke and not spared is in the notes of whoever has made a
\* list, and once the PC is cut off somebody is about to revoke it.
DisconnectInv ==
    \A c \in Left \ spared :
        /\ \A t \in Thread : Listed(t) => c \in todo[t]
        /\ device # "connected" => \E t \in Thread : pc[t] = "revoke" /\ c \in todo[t]

\* While no certificate is saved, what is left only shrinks.
LEMMA LeftShrinks ==
    ASSUME TypeOK, [Next]_vars, ~\E t \in Thread, c \in Cert : Save(t, c)
    PROVE  Left' \subseteq Left
<1>1. ASSUME NEW t \in Thread, Handle(t) PROVE cert' = cert
  BY <1>1 DEF Handle, Approve, Ask, Disconnect, DeleteRevoked, RemoveOwn, StartAudit, database
<1>2. ASSUME NEW t \in Thread, Continue(t), ~\E c \in Cert : RevokeCert(t, c) PROVE cert' = cert
  BY <1>2 DEF Continue, CheckLive, CheckWaiting, Insert, Claim, Load, SaveFails, PutBack, MarkIssued,
       Supersede, ListCerts, CutOff, Forget, MarkRemoved, Audit, database
<1>3. ASSUME NEW t \in Thread, NEW c \in Cert, RevokeCert(t, c) PROVE Left' \subseteq Left
  BY <1>3 DEF RevokeCert, Left, Unrevoked, TypeOK
<1>4. ASSUME NEW c \in Cert, AdminRevokes(c) \/ Leaves(c) PROVE Left' \subseteq Left
  BY <1>4 DEF AdminRevokes, Leaves, Left, Unrevoked, TypeOK
<1>5. CASE \/ (\E r \in Request : Deny(r)) \/ (\E m \in Mode : EditPolicy(m)) \/ Restart \/ Unlock
           \/ (\E t \in Thread : Fails(t)) \/ UNCHANGED vars
  BY <1>5 DEF Deny, EditPolicy, Restart, Fails, Unlock, vars, database, Left, Unrevoked
<1> QED
  BY <1>1, <1>2, <1>3, <1>4, <1>5 DEF Next, Left, Unrevoked

\* A step of t that cuts nobody off, makes no list and revokes nothing.
LEMMA DisconnectStep ==
    ASSUME DisconnectInv, NEW t \in Thread,
           Left' \subseteq Left, spared \subseteq spared', device' # "connected" => device # "connected",
           \A u \in Thread \ {t} : pc'[u] = pc[u] /\ asked'[u] = asked[u] /\ todo'[u] = todo[u],
           pc[t] # "revoke", ~Listed(t)'
    PROVE  DisconnectInv'
<1>1. \A u \in Thread : Listed(u)' => u # t /\ Listed(u)
  BY DEF Listed
<1> QED
  BY <1>1 DEF DisconnectInv

LEMMA DisconnectInvHolds == Spec => []DisconnectInv
<1>1. Init => DisconnectInv
  BY DEF Init, DisconnectInv, Left, Unrevoked
<1>2. TypeOK /\ DisconnectInv /\ [Next]_vars => DisconnectInv'
  <2> SUFFICES ASSUME TypeOK, DisconnectInv, [Next]_vars PROVE DisconnectInv'
    OBVIOUS
  <2>1. /\ pc \in [Thread -> Pc] /\ todo \in [Thread -> SUBSET Cert]
        /\ asked \in [Thread -> Mode \cup {"renew", "keep"}]
    BY DEF TypeOK
  <2> USE DEF Goto, Proceed, Finish, database, faults
  <2>3. ASSUME NEW t \in Thread, NEW d \in Cert, Save(t, d) PROVE DisconnectInv'
    <3>1. /\ UNCHANGED <<device, todo>> /\ pc[t] = "save" /\ spared \subseteq spared'
          /\ \A u \in Thread : Listed(u)' <=> Listed(u)
          /\ \A u \in Thread : pc[u] = "revoke" => pc'[u] = "revoke"
      BY <2>1, <2>3 DEF Save, Listed
    <3>2. Left' \subseteq Left \cup {d}
      BY <2>3 DEF Save, Left, Unrevoked, TypeOK
    <3>3. d \in Left' \ spared' => device = "connected" /\ \A u \in Thread : ~Listed(u)
      BY <2>3 DEF Save, Left
    <3> QED
      BY <3>1, <3>2, <3>3 DEF DisconnectInv
  <2> SUFFICES ASSUME ~\E t \in Thread, c \in Cert : Save(t, c) PROVE DisconnectInv'
    BY <2>3
  <2>4. Left' \subseteq Left
    BY LeftShrinks
  <2>5. ASSUME NEW t \in Thread, Handle(t) PROVE DisconnectInv'
    <3>1. pc[t] = "idle" /\ ~Listed(t)' /\ UNCHANGED <<device, spared>>
      BY <2>1, <2>5 DEF Handle, Approve, Ask, Disconnect, DeleteRevoked, RemoveOwn, StartAudit, Listed
    <3>2. \A u \in Thread \ {t} : pc'[u] = pc[u] /\ asked'[u] = asked[u] /\ todo'[u] = todo[u]
      BY <2>1, <2>5 DEF Handle, Approve, Ask, Disconnect, DeleteRevoked, RemoveOwn, StartAudit
    <3> QED
      BY <2>4, <3>1, <3>2, DisconnectStep
  <2>6. ASSUME NEW t \in Thread, ListCerts(t) PROVE DisconnectInv'
    <3>1. /\ pc[t] = "list" /\ UNCHANGED <<device, spared>>
          /\ \A u \in Thread \ {t} : pc'[u] = pc[u] /\ asked'[u] = asked[u] /\ todo'[u] = todo[u]
      BY <2>1, <2>6 DEF ListCerts
    <3>2. Listed(t)' => todo'[t] = Left
      BY <2>1, <2>6 DEF ListCerts, Listed, Left
    <3>3. \A u \in Thread \ {t} : Listed(u)' <=> Listed(u)
      BY <3>1 DEF Listed
    <3> QED
      BY <2>4, <3>1, <3>2, <3>3 DEF DisconnectInv
  <2>7. ASSUME NEW t \in Thread, CutOff(t) PROVE DisconnectInv'
    <3>1. /\ pc[t] = "cutOff" /\ pc'[t] # "cutOff"
          /\ \A u \in Thread \ {t} : pc'[u] = pc[u] /\ asked'[u] = asked[u] /\ todo'[u] = todo[u]
      BY <2>1, <2>7 DEF CutOff
    <3>2. spared \subseteq spared' /\ (device = "connected" /\ asked[t] = "keep" => Left \subseteq spared')
      BY <2>7 DEF CutOff, Left
    <3>3. todo[t] # {} => pc'[t] = "revoke" /\ todo'[t] = todo[t]
      BY <2>1, <2>7 DEF CutOff
    <3>4. \A u \in Thread : Listed(u)' => u # t /\ Listed(u)
      BY <3>1 DEF Listed
    <3>5. device = "connected" /\ asked[t] # "keep" => Listed(t)
      BY <3>1 DEF Listed
    <3> QED
      BY <2>4, <3>1, <3>2, <3>3, <3>4, <3>5 DEF DisconnectInv
  <2>8. ASSUME NEW t \in Thread, NEW d \in Cert, RevokeCert(t, d) PROVE DisconnectInv'
    <3>1. /\ UNCHANGED <<device, spared>> /\ pc[t] = "revoke" /\ ~Listed(t)'
          /\ \A u \in Thread \ {t} : pc'[u] = pc[u] /\ asked'[u] = asked[u] /\ todo'[u] = todo[u]
      BY <2>1, <2>8 DEF RevokeCert, Listed
    <3>2. d \notin Left'
      BY <2>8 DEF RevokeCert, Left, Unrevoked, TypeOK
    <3>3. todo[t] # {d} => pc'[t] = "revoke" /\ todo'[t] = todo[t] \ {d}
      BY <2>1, <2>8 DEF RevokeCert
    <3>4. \A u \in Thread : Listed(u)' => u # t /\ Listed(u)
      BY <3>1 DEF Listed
    <3> QED
      BY <2>4, <3>1, <3>2, <3>3, <3>4 DEF DisconnectInv
  <2>9. ASSUME NEW t \in Thread,
               \/ CheckLive(t) \/ CheckWaiting(t) \/ Insert(t) \/ Claim(t) \/ Load(t) \/ SaveFails(t)
               \/ PutBack(t) \/ MarkIssued(t) \/ Supersede(t) \/ Forget(t) \/ MarkRemoved(t)
               \/ \E S \in SUBSET Cert : Audit(t, S)
         PROVE  DisconnectInv'
    <3>1. pc[t] # "revoke" /\ ~Listed(t)' /\ UNCHANGED spared
      BY <2>1, <2>9 DEF CheckLive, CheckWaiting, Insert, Claim, Load, SaveFails, PutBack, MarkIssued, Supersede,
           Forget, MarkRemoved, Audit, Listed
    <3>2. \A u \in Thread \ {t} : pc'[u] = pc[u] /\ asked'[u] = asked[u] /\ todo'[u] = todo[u]
      BY <2>1, <2>9 DEF CheckLive, CheckWaiting, Insert, Claim, Load, SaveFails, PutBack, MarkIssued, Supersede,
           Forget, MarkRemoved, Audit
    <3>3. device' # "connected" => device # "connected"
      BY <2>9 DEF CheckLive, CheckWaiting, Insert, Claim, Load, SaveFails, PutBack, MarkIssued, Supersede,
           Forget, MarkRemoved, Audit
    <3> QED
      BY <2>4, <3>1, <3>2, <3>3, DisconnectStep
  <2>10. ASSUME NEW t \in Thread, Fails(t) PROVE DisconnectInv'
    <3>1. /\ UNCHANGED device /\ pc'[t] = "idle"
          /\ \A u \in Thread \ {t} : pc'[u] = pc[u] /\ asked'[u] = asked[u] /\ todo'[u] = todo[u]
      BY <2>1, <2>10 DEF Fails
    <3>2. /\ spared \subseteq spared'
          /\ device # "connected" /\ pc[t] = "revoke" => todo[t] \subseteq spared'
      BY <2>10 DEF Fails, Abandon
    <3>3. \A u \in Thread : Listed(u)' => u # t /\ Listed(u)
      BY <3>1 DEF Listed
    <3> QED
      BY <2>4, <3>1, <3>2, <3>3 DEF DisconnectInv
  <2>11. CASE Restart
    <3>1. UNCHANGED device /\ \A t \in Thread : ~Listed(t)'
      BY <2>11 DEF Restart, Listed
    <3>2. /\ spared \subseteq spared'
          /\ device # "connected" => \A t \in Thread : pc[t] = "revoke" => todo[t] \subseteq spared'
      BY <2>11 DEF Restart, Abandon
    <3> QED
      BY <2>4, <3>1, <3>2 DEF DisconnectInv
  <2>12. CASE \/ \E r \in Request : Deny(r)
              \/ \E m \in Mode : EditPolicy(m)
              \/ \E c \in Cert : AdminRevokes(c) \/ Leaves(c)
              \/ Unlock \/ UNCHANGED vars
    <3>1. UNCHANGED <<device, pc, asked, todo, spared>>
      BY <2>12 DEF Deny, EditPolicy, AdminRevokes, Leaves, Unlock, vars, locals
    <3> QED
      BY <2>4, <3>1 DEF DisconnectInv, Listed
  <2> QED
    BY <2>5, <2>6, <2>7, <2>8, <2>9, <2>10, <2>11, <2>12 DEF Next, Continue
<1> QED
  BY <1>1, <1>2, RequestTypeCorrect, PTL DEF Spec

\* Whatever overlaps with disconnecting a PC, no revocable certificate of it is
\* left unrevoked once all handlers are done, but those kept, those saved after
\* the listing, and those a fault left over (_disconnect in routes/pal.py; README,
\* "Disconnecting a PC revokes its certificates").
THEOREM DisconnectRevokesHolds == Spec => []DisconnectRevokes
<1>1. DisconnectInv => DisconnectRevokes
  BY DEF DisconnectInv, DisconnectRevokes, Left, Quiet
<1> QED
  BY <1>1, DisconnectInvHolds, PTL
===============================================================================
