------------------------------- MODULE PalNames -------------------------------
(***************************************************************************)
(* What a PC may ask for (Cert Generator Pal): the policy an admin enters, *)
(* the names it allows, the names a request gets, and when a certificate   *)
(* may be renewed.  app/pal.py, and the checks app/routes/pal.py makes     *)
(* before it creates a request.  PalRequests has the requests themselves.  *)
(*                                                                         *)
(* A DNS name, an address and a pattern are read from text: a text is here *)
(* the sequence of what stands between its dots, in any letter case, with  *)
(* empty labels where dots follow each other.  Lengths are left out.       *)
(*                                                                         *)
(* Of a function that refuses or returns a value, XOk says whether it      *)
(* returns, and X what.                                                    *)
(***************************************************************************)
EXTENDS Integers, Sequences

CONSTANTS
    Label,      \* what may stand between two dots; "" and "*" are some
    Lower,      \* Label -> Label: in lower case
    Valid,      \* those of a DNS name (_LABEL_RE)
    Starry,     \* those with an asterisk somewhere
    Address,    \* texts that are IP addresses
    Network,    \* texts that are addresses or networks
    Contains,   \* pairs: this address is in that network
    User,       \* what may stand before the @ of a name (_EMAIL_RE)
    Url,        \* texts that are a server's address (parse_crl_base_url)
    LanUrl,     \* those of a name, or of an address in the LAN (_server_url_error)
    Day         \* time units in a day

ASSUME LabelAssumption ==
    /\ Lower \in [Label -> Label]
    /\ \A l \in Label : Lower[Lower[l]] = Lower[l] /\ (Lower[l] = "" <=> l = "")
    /\ Valid \subseteq Label /\ Starry \subseteq Label /\ Valid \cap Starry = {}
    /\ "" \in Label \ Valid /\ "*" \in Starry \ User

ASSUME NetworkAssumption ==
    /\ Address \subseteq Network
    /\ Contains \subseteq Address \X Network
    /\ \A a \in Address : <<a, a>> \in Contains

ASSUME UrlAssumption == LanUrl \subseteq Url /\ "" \notin Url

ASSUME DayAssumption == Day \in Nat \ {0}

MachineUseCase == {"web-server", "computer"}
UseCase        == MachineUseCase \cup {"user", "code-signing"}
ApprovalMode   == {"off", "auto", "approve"}
BindTarget     == {"rdp", "winrm", "iis", "rd-gateway", "rd-broker"}
CrlDpMode      == {"server", "cloudflare", "placeholder", "none"}

-------------------------------------------------------------------------------
(* Names and patterns *)

\* strip().lower().rstrip(".")
Clean(text) ==
    [k \in {i \in 1..Len(text) : \E j \in i..Len(text) : text[j] # ""} |-> Lower[text[k]]]

IsDnsName(name) == name # <<>> /\ \A k \in DOMAIN name : name[k] \in Valid

IsRequestable(name) == name \in Address \/ IsDnsName(name)

IsWildcard(pattern) == Len(pattern) > 1 /\ pattern[1] = "*"

DnsPatternOk(raw) ==
    LET pattern == Clean(raw)
    IN \/ pattern \in Network
       \/ IsDnsName(IF IsWildcard(pattern) THEN Tail(pattern) ELSE pattern)

\* A name under a domain, at any depth, and not the domain itself
Under(name, domain) ==
    /\ Len(name) > Len(domain)
    /\ \A k \in 1..Len(domain) : name[Len(name) - Len(domain) + k] = domain[k]

Covers(pattern, name) ==
    IF name \in Address THEN <<name, pattern>> \in Contains
    ELSE name = pattern \/ (IsWildcard(pattern) /\ Under(name, Tail(pattern)))

\* Of a clean name: dns_name_allowed cleans it once more, which changes nothing.
DnsNameAllowed(name, patterns) ==
    /\ \A k \in DOMAIN name : name[k] \notin Starry
    /\ \E p \in patterns : Covers(p, name)

\* user@domain, or *@domain in a pattern
EMail(raw) == [user |-> Lower[raw.user], domain |-> [k \in DOMAIN raw.domain |-> Lower[raw.domain[k]]]]
IsEMail(name) == name.user \in User /\ name.domain # <<>>

UserPatternOk(raw) ==
    LET p == EMail(raw) IN IsEMail(p) \/ (p.user = "*" /\ IsDnsName(p.domain))

UserNameAllowed(name, patterns) ==
    \E p \in patterns : name = p \/ (p.user = "*" /\ name.domain = p.domain)

-------------------------------------------------------------------------------
(* Policies *)

MachineOn(policy) == \E c \in MachineUseCase : policy.cases[c] # "off"

\* parse_policy: what the admin's form has to be, and what becomes of it
PolicyOk(form, maxDays) ==
    /\ form.cases \in [UseCase -> ApprovalMode] /\ \E c \in UseCase : form.cases[c] # "off"
    /\ form.binds \in [BindTarget -> ApprovalMode]
    /\ \A raw \in form.dns : DnsPatternOk(raw)
    /\ \A raw \in form.users : UserPatternOk(raw)
    /\ MachineOn(form) => form.dns # {}
    /\ form.cases["user"] # "off" => form.users # {}
    /\ form.days \in 1..maxDays

\* The address of this server in the certificates: the one typed, or else the
\* server's own.
Base(form) == IF form.base = "" THEN form.server ELSE form.base

\* _set_crl_dp: the revocation types ticked, in the order of the form
CrlDpOk(ticked, base, worker) ==
    /\ ticked # <<>>
    /\ \A k \in DOMAIN ticked : /\ ticked[k] \in CrlDpMode
                                /\ ticked[k] = "server" => base \in Url
                                /\ ticked[k] = "cloudflare" => worker

\* The first is the default.
CrlDp(ticked, base) ==
    LET allowed == {ticked[k] : k \in DOMAIN ticked}
    IN [default |-> ticked[1], allowed |-> allowed, base |-> IF "server" \in allowed THEN base ELSE ""]

Policy(form) ==
    [cases |-> form.cases, binds |-> form.binds, days |-> form.days, remote |-> form.remote,
     dns |-> {Clean(raw) : raw \in form.dns}, users |-> {EMail(raw) : raw \in form.users},
     dps |-> CrlDp(form.dps, Base(form))]

\* The PC's own name: its computer certificates are issued to it.
FqdnOk(raw, policy) ==
    IsDnsName(Clean(raw)) /\ (MachineOn(policy) => DnsNameAllowed(Clean(raw), policy.dns))

\* create_code, for a CA that Windows can use
CodeOk(form, ca, maxDays) ==
    /\ ca.windows /\ PolicyOk(form, maxDays)
    /\ form.server \in LanUrl /\ CrlDpOk(form.dps, Base(form), ca.worker)

\* enroll with that code, of a PC that gives its name as raw
Pairs(form, raw)  == FqdnOk(raw, Policy(form))
Paired(form, raw) == [fqdn |-> Clean(raw), policy |-> Policy(form), server |-> form.server]

\* edit_device_policy: an address left empty is the one in the certificates so
\* far, or else the one in the pairing code.
Edit(pc, form) == [form EXCEPT !.server = IF pc.policy.dps.base = "" THEN pc.server ELSE pc.policy.dps.base]

EditOk(pc, form, worker, maxDays) ==
    LET edit == Edit(pc, form)
    IN /\ PolicyOk(edit, maxDays) /\ FqdnOk(pc.fqdn, Policy(edit))
       /\ CrlDpOk(edit.dps, Base(edit), worker)

Edited(pc, form) == [pc EXCEPT !.policy = [Policy(Edit(pc, form)) EXCEPT !.remote = pc.policy.remote]]

-------------------------------------------------------------------------------
(* The names of a request *)

\* Common name and alternative names, without the order of the latter.  "This
\* computer" gets the PC's own name, whatever was sent.
NamesOk(case, sent, pc) ==
    CASE case = "computer" -> TRUE
      [] case = "web-server" ->
            /\ sent.dns # <<>>
            /\ \A k \in DOMAIN sent.dns : /\ IsRequestable(Clean(sent.dns[k]))
                                          /\ DnsNameAllowed(Clean(sent.dns[k]), pc.policy.dns)
      [] case = "user" ->
            \A raw \in {sent.upn} \cup sent.email :     \* email: none or one
               IsEMail(EMail(raw)) /\ UserNameAllowed(EMail(raw), pc.policy.users)
      [] case = "code-signing" -> TRUE                  \* any plain text

Names(case, sent, pc) ==
    CASE case = "computer"     -> [cn |-> pc.fqdn, san |-> {pc.fqdn}, mail |-> {}]
      [] case = "web-server"   -> [cn |-> Clean(sent.dns[1]), mail |-> {},
                                   san |-> {Clean(sent.dns[k]) : k \in DOMAIN sent.dns}]
      [] case = "user"         -> [cn |-> EMail(sent.upn), san |-> {},
                                   mail |-> {EMail(raw) : raw \in {sent.upn} \cup sent.email}]
      [] case = "code-signing" -> [cn |-> sent.cn, san |-> {}, mail |-> {}]

-------------------------------------------------------------------------------
(* One live certificate per PC, kind and main name.  A PC's certificates are
   records of case, names, from, to, revoked, and what the PC last said of it:
   held, missing, or unchecked. *)

Least(a, b) == IF a < b THEN a ELSE b

\* renew_opens: the last 30 days, or the last third
RenewOpens(cert) == cert.to - Least(30 * Day, (cert.to - cert.from) \div 3)

LiveCerts(certs, case, cn, now) ==
    {c \in certs : c.case = case /\ c.names.cn = cn /\ ~c.revoked /\ c.to > now}

\* A computer certificate serves TLS for the PC's own name too.
Covered(certs, pc, case, names, now) ==
    /\ case = "web-server" /\ names.san = {pc.fqdn}
    /\ \E c \in LiveCerts(certs, "computer", pc.fqdn, now) : c.present # "missing"

\* A certificate the PC no longer holds does not stand in the way.
Duplicate(certs, case, names, now) ==
    \E c \in LiveCerts(certs, case, names.cn, now) : c.present # "missing"

NewOk(certs, pc, case, names, now) ==
    ~Covered(certs, pc, case, names, now) /\ ~Duplicate(certs, case, names, now)

\* _renewable: the e-mail address is not compared.
Renewable(old, case, names) ==
    ~old.revoked /\ old.case = case /\ old.names.cn = names.cn /\ old.names.san = names.san

RenewalOk(certs, old, case, names, now) ==
    /\ Renewable(old, case, names)
    /\ now >= RenewOpens(old)
    /\ \A c \in LiveCerts(certs, case, names.cn, now) \ {old} : c.to <= old.to

\* create_request, before the request is stored; renewing: none or one
RequestOk(pc, certs, case, sent, dp, renewing, now) ==
    /\ pc.policy.cases[case] # "off"
    /\ NamesOk(case, sent, pc)
    /\ dp \in pc.policy.dps.allowed
    /\ LET names == Names(case, sent, pc)
       IN IF renewing = {} THEN NewOk(certs, pc, case, names, now)
          ELSE \A old \in renewing : RenewalOk(certs, old, case, names, now)

\* A renewal was approved once.
AsksAdmin(pc, case, renewing) == pc.policy.cases[case] = "approve" /\ renewing = {}
===============================================================================
