---------------------------- MODULE XrayRouting -----------------------------
(***************************************************************************)
(* The routing rules of xray's config and the nft rules before them: how   *)
(* buildRules orders eleven groups, of which the first that matches wins,  *)
(* and where a connection ends up.  A destination is the set of address    *)
(* sets (ips) and of domain sets (doms) it belongs to.                     *)
(***************************************************************************)
EXTENDS Config

CONSTANT RuCodes        \* the codes of geoip entries that begin with "ru"

ASSUME RuCodesAssumption == "ru" \in RuCodes

Entry(form, of) == [form |-> form, of |-> of]

\* The rules of a config are a sequence of places, each a set of at most one rule:
\* a group without entries leaves its place empty, where buildRules appends nothing.
\* A rule; an empty set is a condition that is not there.
Anything == [inb |-> {}, source |-> {}, net |-> {}, port |-> {}, ip |-> {}, domain |-> {}, tag |-> ""]

\* partitionEntries.
Ips(entries) == {e \in entries : e.form \in {"ip", "geoip", "slash"}}
Domains(entries) == entries \ Ips(entries)

When(cond, r) == IF cond THEN {r} ELSE {}
IpRule(ips, tag) == When(ips # {}, [Anything EXCEPT !.ip = ips, !.tag = tag])
DomainRule(doms, tag) == When(doms # {}, [Anything EXCEPT !.domain = doms, !.tag = tag])

\* cidrOfVPNLan.
VpnLanCidr(c) == [ip |-> c.vpnlan.ip, len |-> c.vpnlan.len]

\* Groups 1 to 4, which no list of the document can override.
FixedRules(c) ==
    << {[Anything EXCEPT !.inb = {"tproxy-in"}, !.port = {53}, !.tag = "dns-out"]},
       When(c.vpnlan # Nil /\ c.routing.via,
            [Anything EXCEPT !.source = {VpnLanCidr(c)}, !.tag = "vless-out"]),
       When(c.routing.quic, [Anything EXCEPT !.net = {"udp"}, !.port = {443}, !.tag = "block"]),
       IpRule({Entry("ip", "private")}, "direct") >>

\* The rule of one named list; an empty list has none.
ListRule(l, fetched) ==
    LET entries == {Entry("slash", n) : n \in fetched[l.name]}
    IN  IF l.kind = "domain" THEN DomainRule(entries, l.tag) ELSE IpRule(entries, l.tag)

\* ruleFromMap copies the keys it knows, if their values have the form it looks for,
\* and leaves the rest out: the rule then matches more than the document's.
RuleFromMap(raw) == [k \in DOMAIN Anything |-> IF k \in raw.odd THEN Anything[k] ELSE raw[k]]

Geoip(entries) == {e \in entries : e.form = "geoip"}

\* The rules of block and force_via_vpn, domains before addresses.
ForcedRules(r) ==
    << DomainRule(Domains(r.block), "block"), IpRule(Ips(r.block), "block"),
       DomainRule(Domains(r.vpn), "vless-out"), IpRule(Ips(r.vpn), "vless-out") >>

\* Those of the lists, of the operator's own rules, and the one for the rest.
ListRules(lists, fetched) == [i \in DOMAIN lists |-> ListRule(lists[i], fetched)]
RawRules(raw) == [i \in DOMAIN raw |-> {RuleFromMap(raw[i])}]
LastRule(profile) == << {[Anything EXCEPT !.net = {"tcp", "udp"},
                                          !.tag = IF profile = "full-tunnel" THEN "vless-out" ELSE "direct"]} >>

\* Mutant: geoip entries are not held back until after the lists.
RulesGeoipEarly(c, fetched) ==
    LET r == c.routing IN
    FixedRules(c) \o ForcedRules(r)
    \o << DomainRule(Domains(r.direct), "direct"), IpRule(Ips(r.direct), "direct") >>
    \o ListRules(r.lists, fetched) \o RawRules(r.raw) \o LastRule(r.profile)

\* Mutant: the private addresses come after the operator's own entries.
RulesPrivateLate(c, fetched) ==
    ForcedRules(c.routing) \o FixedRules(c) \o LastRule(c.routing.profile)

\* buildRules.
Rules(c, fetched) ==
    LET r == c.routing IN
    FixedRules(c) \o ForcedRules(r)
    \o << DomainRule(Domains(r.direct), "direct"), IpRule(Ips(r.direct) \ Geoip(r.direct), "direct") >>
    \o ListRules(r.lists, fetched)
    \o << IpRule(Geoip(r.direct), "direct") >>
    \o RawRules(r.raw) \o LastRule(r.profile)

\* Mutant: the rule for the list comes first of all.
AntifilterFirst(rules, l) == << IpRule({Entry("slash", l)}, "vless-out") >> \o rules

\* jq's contains(["geoip:ru"]) looks for a part of a string: geoip:ru-blocked has it.
HasRu(entries) == \E e \in entries : e.form = "geoip" /\ e.of \in RuCodes

\* What update-antifilter.sh makes of them: a rule for its list right before the
\* first that has geoip:ru.
WithAntifilter(rules, l) ==
    LET ru == {i \in DOMAIN rules : \E r \in rules[i] : HasRu(r.ip)}
        n == CHOOSE i \in ru : \A j \in ru : i <= j
    IN  IF ru = {} THEN rules
        ELSE SubSeq(rules, 1, n - 1) \o << IpRule({Entry("slash", l)}, "vless-out") >>
             \o SubSeq(rules, n, Len(rules))

\* The tags of the inbounds and outbounds; xray sends what no rule matches to
\* the first outbound.
Inbounds == {"socks-in", "tproxy-in"}
Outbounds == << "vless-out", "direct", "block", "dns-out" >>

-----------------------------------------------------------------------------
(* What xray and the kernel make of them *)

InSource(a, cidr) == a \div 2^(32 - cidr.len) = cidr.ip \div 2^(32 - cidr.len)

Matches(r, x, ips) ==
    /\ r.inb # {} => x.inb \in r.inb
    /\ r.source # {} => x.src # Nil /\ \E s \in r.source : InSource(x.src, s)
    /\ r.net # {} => x.net \in r.net
    /\ r.port # {} => x.port \in r.port
    /\ r.ip # {} => \E e \in r.ip : e.of \in ips
    /\ r.domain # {} => \E e \in r.domain : e.of \in x.doms

\* Sniffing on socks-in puts the domain in the address's place; on tproxy-in
\* (routeOnly) both are known.
SeesAddress(c, x) ==
    x.inb = "tproxy-in" \/ x.doms = {} \/ c.routing.strategy = "IPOnDemand"

\* The first rule that matches; with IPIfNonMatch the domain is looked up when
\* none does.
Hits(rules, x, ips) == {i \in DOMAIN rules : \E r \in rules[i] : Matches(r, x, ips)}

Decision(c, rules, x) ==
    LET first == Hits(rules, x, IF SeesAddress(c, x) THEN x.ips ELSE {})
        found == IF first = {} /\ c.routing.strategy = "IPIfNonMatch" THEN Hits(rules, x, x.ips)
                                                                      ELSE first
        rule == CHOOSE r \in rules[CHOOSE i \in found : \A j \in found : i <= j] : TRUE
    IN  IF found = {} THEN Outbounds[1] ELSE rule.tag

\* BuildNFT's chain prerouting, for what clients send: the first rule that matches
\* gives the verdict, and the policy is to accept.
Anywhere == [ips |-> {}, ports |-> {}, verdict |-> "tproxy"]
Prerouting ==
    << [Anywhere EXCEPT !.ips = {"private"}, !.verdict = "return"],
       [Anywhere EXCEPT !.ports = {53}], Anywhere >>

Caught(r, x) ==
    /\ r.ips # {} => r.ips \cap x.ips # {}
    /\ r.ports # {} => x.port \in r.ports
    /\ r.verdict = "tproxy" => x.net \in {"tcp", "udp"}

\* TPROXY hands a client's connection to xray; what the chain leaves alone goes where
\* the routing table says.  Programs of the router reach xray by its socks port.
Handed(x) ==
    \/ x.inb = "socks-in"
    \/ \E i \in DOMAIN Prerouting :
        /\ Caught(Prerouting[i], x) /\ Prerouting[i].verdict = "tproxy"
        /\ \A j \in 1..i - 1 : ~Caught(Prerouting[j], x)

Fate(c, rules, x) == IF Handed(x) THEN Decision(c, rules, x) ELSE "forwarded"
=============================================================================
