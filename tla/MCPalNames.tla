------------------------------ MODULE MCPalNames ------------------------------
(* PalNames over few labels: what its theorems say, and what its operators
   answer in the cases the documentation names, evaluated for every text and
   policy of that size. *)
EXTENDS PalNames, FiniteSets

Labels   == {"pc", "PC", "lan", "10.0.0.5", "10.0.0.0/8", "*", "p*", ""}
InLower  == [l \in Labels |-> IF l = "PC" THEN "pc" ELSE l]
DnsLabel == {"pc", "lan"}
Asterisk == {"*", "p*"}
OneAddress  == {<<"10.0.0.5">>}
Networks    == {<<"10.0.0.5">>, <<"10.0.0.0/8">>}
InsideBoth  == OneAddress \X Networks
Users       == {"pc", "lan"}
Urls        == {"http://pc.lan", "http://192.0.2.1"}
LanUrls     == {"http://pc.lan"}

Texts(n) == UNION {[1..k -> Labels] : k \in 0..n}
Cleaned(n) == {Clean(text) : text \in Texts(n)}
DnsPatterns == {raw \in Texts(2) : DnsPatternOk(raw)}

-------------------------------------------------------------------------------
\* The documentation's cases: docs/cert-generator-pal.md, "*.lan".
ASSUME CoversAtAnyDepth ==
    /\ Covers(<<"*", "lan">>, <<"pc", "lan">>)
    /\ Covers(<<"*", "lan">>, <<"pc", "pc", "lan">>)
    /\ ~Covers(<<"*", "lan">>, <<"lan">>)
    /\ ~Covers(<<"*", "lan">>, <<"pc", "pc">>)
    /\ Covers(<<"10.0.0.0/8">>, <<"10.0.0.5">>)
    /\ Clean(<<"PC", "lan", "", "">>) = <<"pc", "lan">>

\* Cleaning, against its definition: the longest part of the text, in lower
\* case, that ends in a label.
ASSUME CleanIsLongest ==
    \A text \in Texts(4) :
        LET clean == Clean(text)
        IN /\ Clean(clean) = clean
           /\ \A k \in 1..Len(clean) : clean[k] = InLower[text[k]]
           /\ \A k \in (Len(clean) + 1)..Len(text) : text[k] = ""
           /\ clean # <<>> => clean[Len(clean)] # ""

\* A pattern covers a name if it is the name, or the name is some labels and
\* then the domain after the asterisk (addresses aside).
ASSUME CoversIsSuffix ==
    \A p \in {Clean(raw) : raw \in DnsPatterns}, name \in Cleaned(3) \ Address :
        Covers(p, name) <=>
            \/ name = p
            \/ \E k \in 1..(Len(name) - 1) :
                  p = <<"*">> \o SubSeq(name, k + 1, Len(name))

-------------------------------------------------------------------------------
(* The steps from a form to a name, for forms with one or two patterns. *)

Cases == {[c \in UseCase |-> IF c = on THEN "auto" ELSE "off"] : on \in UseCase}

Forms == [cases : Cases, dns : {{}} \cup {{raw} : raw \in Texts(2)}, users : {{}},
          binds : {[b \in BindTarget |-> "off"]}, days : {1}, remote : {FALSE},
          dps : {<<"none">>}, base : {""}, server : LanUrls]
AcceptedForms == {f \in Forms : PolicyOk(f, 1)}

ASSUME SomeFormsAccepted == AcceptedForms # {} /\ AcceptedForms # Forms

ASSUME NamesStayWithinPolicy ==
    \A first, second \in AcceptedForms, raw \in Texts(2) :
        Pairs(first, raw) =>
            LET paired == Paired(first, raw)
                edited == Edited(paired, second)
            IN EditOk(paired, second, FALSE, 1) =>
                   \A case \in MachineUseCase, text \in Texts(1) :
                       LET sent == [dns |-> <<text, raw>>]
                       IN edited.policy.cases[case] # "off" /\ NamesOk(case, sent, edited) =>
                              \A n \in Names(case, sent, edited).san :
                                  /\ DnsNameAllowed(n, edited.policy.dns) /\ IsRequestable(n)
                                  /\ \A k \in 1..Len(n) : n[k] \notin Asterisk

\* A policy that allows this server's list has the address to name in a
\* certificate, though the field is left empty or an edit brings the type back.
ASSUME ServerHasAddress ==
    LET some == CHOOSE f \in AcceptedForms : TRUE
        forms == {[some EXCEPT !.dps = dps, !.base = base, !.server = server] :
                     dps \in {<<"none">>, <<"server">>, <<"none", "server">>},
                     base \in Urls \cup {"", "pc.lan"}, server \in Urls \cup {"", "pc.lan"}}
        Addressed(policy) == "server" \in policy.dps.allowed => policy.dps.base \in Urls
        codes == {f \in forms : CodeOk(f, [windows |-> TRUE, worker |-> FALSE], 1)}
    IN /\ codes # {} /\ codes # forms
       /\ \A code \in codes, form \in forms :
              LET pc == Paired(code, <<"pc">>)
              IN /\ Addressed(pc.policy)
                 /\ CrlDpOk(form.dps, Base(Edit(pc, form)), FALSE) => Addressed(Edited(pc, form).policy)

ASSUME RenewalsWait ==
    \A from, to \in 0..200 : from <= to =>
        LET opens == RenewOpens([from |-> from, to |-> to])
        IN /\ opens \in from..to
           /\ to - opens <= 30 * Day /\ 3 * (to - opens) <= to - from
           /\ to - from >= 90 * Day => to - opens = 30 * Day
===============================================================================
