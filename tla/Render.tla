------------------------------- MODULE Render -------------------------------
(***************************************************************************)
(* From a document to the router's behaviour: Load, Render (any number of  *)
(* times, as the config is changed in place), and the cron script that     *)
(* later rewrites the rules.  The properties are about what clients of the *)
(* router get from all files together.                                     *)
(***************************************************************************)
EXTENDS Uci, XrayRouting

CONSTANTS
    Docs,       \* the documents
    Fetched,    \* what Lists.Fetch may return: functions from list names to sets
    Conns,      \* the connections looked at, with the source left open
    Update      \* the list of the cron script

ASSUME DocsAssumption == Docs \subseteq Document

ASSUME ConnsAssumption ==
    Conns \subseteq [inb: Inbounds, src: {Nil}, net: {"tcp", "udp"}, port: Nat,
                    ips: SUBSET STRING, doms: SUBSET STRING, proto: STRING]

\* Every list can be fetched; what it names, and what an entry of a document names,
\* is a set of addresses or of domains, as its kind or its prefix says.
ASSUME NamesAssumption ==
    \A d \in Docs, x \in Conns :
        LET Sort(e) == IF Ips({e}) # {} THEN e.of \notin x.doms ELSE e.of \notin x.ips IN
        /\ \A e \in d.routing.block \cup d.routing.vpn \cup d.routing.direct : Sort(e)
        /\ \A f \in Fetched : \A l \in Elements(d.routing.lists) :
            /\ l.name \in DOMAIN f
            /\ f[l.name] \cap (IF l.kind = "domain" THEN x.ips ELSE x.doms) = {}

VARIABLES
    doc,        \* the document as written
    stage,      \* how far it got
    cfg,        \* the config in memory, Nil before it is loaded
    files,      \* what was rendered from it
    fetched,    \* the lists that went into it
    updated     \* the cron script has run

vars == <<doc, stage, cfg, files, fetched, updated>>

Init ==
    /\ doc \in Docs
    /\ stage = "written" /\ cfg = Nil /\ files = Nil /\ fetched = Nil /\ updated = FALSE

\* config.Parse.
Load ==
    /\ stage = "written"
    /\ IF Valid(doc) THEN stage' = "loaded" /\ cfg' = ParseDefaults(doc)
                     ELSE stage' = "rejected" /\ UNCHANGED cfg
    /\ UNCHANGED <<doc, files, fetched, updated>>

\* render.Render with the lists as they are now.
RenderFiles(f) ==
    LET c == DeviceDefaults(cfg) IN
    /\ stage \in {"loaded", "rendered"}
    /\ stage' = "rendered"
    /\ cfg' = c
    /\ files' = [network |-> Network(c), firewall |-> Firewall(c), dhcp |-> Dhcp(c),
                 wireless |-> WirelessFile(c), rules |-> Rules(c, f)]
    /\ fetched' = f /\ updated' = FALSE
    /\ UNCHANGED doc

\* A list cannot be fetched: Render fails after it has changed the config.
RenderFails ==
    /\ stage \in {"loaded", "rendered"}
    /\ cfg.routing.lists # <<>>
    /\ cfg' = DeviceDefaults(cfg)
    /\ UNCHANGED <<doc, stage, files, fetched, updated>>

\* update-antifilter.sh
Antifilter ==
    /\ stage = "rendered" /\ ~updated
    /\ files' = [files EXCEPT !.rules = WithAntifilter(@, Update)]
    /\ updated' = TRUE
    /\ UNCHANGED <<doc, stage, cfg, fetched>>

Next == Load \/ (\E f \in Fetched : RenderFiles(f)) \/ RenderFails \/ Antifilter

Spec == Init /\ [][Next]_vars

-----------------------------------------------------------------------------
Rendered == stage = "rendered"

Leases(name) == Leasable(files.network, files.dhcp, name)

\* A few of a set of addresses: the ends and the middle.
Some(addresses) ==
    LET lo == CHOOSE a \in addresses : \A b \in addresses : a <= b
        hi == CHOOSE a \in addresses : \A b \in addresses : a >= b
    IN  IF addresses = {} THEN {} ELSE {lo, (lo + hi) \div 2, hi}

\* The connections that clients of an interface may make, and those that programs
\* on the router make through the socks port.
From(name) ==
    {[x EXCEPT !.src = a] : x \in {x \in Conns : x.inb = "tproxy-in"}, a \in Some(Leases(name))}
FromClients == From("lan") \cup (IF doc.vpnlan = Nil THEN {} ELSE From("vpnlan"))
FromRouter == {x \in Conns : x.inb = "socks-in"}

\* A connection as the rules see it: without its address where sniffing has put
\* the domain in its place and nothing resolves it.
AsSeen(x) == [x EXCEPT !.ips = IF SeesAddress(cfg, x) THEN @ ELSE {}]

\* The document keeps lan and vpnlan apart: their addresses do not overlap, and
\* the netmask that splitCIDR writes for vpnlan is not shorter than its prefix.
Separate(d) ==
    d.vpnlan # Nil =>
        /\ MaskLen(d.vpnlan.len) >= d.vpnlan.len
        /\ \/ First(d.lan.ip, d.lan.len) + Size(d.lan.len) <= First(d.vpnlan.ip, d.vpnlan.len)
           \/ First(d.vpnlan.ip, d.vpnlan.len) + Size(d.vpnlan.len) <= First(d.lan.ip, d.lan.len)

\* What the document asks for, group by group, as rank and outbound; the lowest
\* rank counts.
Names(entries, x) == \E e \in entries : e.of \in x.ips \cup x.doms

AfterLists == 11 + Len(doc.routing.lists)

\* A raw rule as the document has it; and whether all of it reaches xray.
Asked(raw, x) == Matches(raw, x, x.ips) /\ (raw.protocol # {} => x.proto \in raw.protocol)
Expressible(raw) == raw.odd = {} /\ raw.protocol = {}

Claims(x) ==
    LET r == doc.routing
        geo == Geoip(r.direct)
        Claim(cond, rank, tag) == IF cond THEN {<<rank, tag>>} ELSE {}
    IN  Claim(x.port = 53 /\ x.inb = "tproxy-in", 1, "dns-out")
        \cup Claim(doc.vpnlan # Nil /\ x.src # Nil /\ x.src \notin Leases("lan"), 2, "vless-out")
        \cup Claim(r.quic /\ x.port = 443 /\ x.net = "udp", 3, "block")
        \cup Claim("private" \in x.ips, 4, "direct")
        \cup Claim(Names(r.block, x), 5, "block")
        \cup Claim(Names(r.vpn, x), 6, "vless-out")
        \cup Claim(Names(r.direct \ geo, x), 7, "direct")
        \cup (UNION {Claim(fetched[r.lists[i].name] \cap (x.ips \cup x.doms) # {}, 10 + i, r.lists[i].tag)
                         : i \in DOMAIN r.lists})
        \cup Claim(Names(geo, x), AfterLists, "direct")
        \cup (UNION {Claim(Asked(r.raw[i], x), AfterLists + i, r.raw[i].tag) : i \in DOMAIN r.raw})
        \cup {<<AfterLists + 1 + Len(r.raw), "direct">>}

Intended(x) == (CHOOSE c \in Claims(x) : \A d \in Claims(x) : c[1] <= d[1])[2]

-----------------------------------------------------------------------------
(* Properties *)

\* The order of the groups in buildRules: DNS, vpnlan, QUIC, private, block,
\* force_via_vpn, force_direct, the lists in their order, geoip entries of
\* force_direct, raw rules, direct.  Clients of vpnlan are those that its DHCP
\* pool leases an address to: pool, netmask and the source of the rule agree, in a
\* document that keeps the subnets apart.  A raw rule that ruleFromMap cuts short
\* cannot spoil what a group before it claims; the rest is for documents without one.
PolicyOrder ==
    Rendered /\ ~updated /\ Separate(doc) =>
        \A x \in FromClients \cup FromRouter :
            \/ \A raw \in Elements(doc.routing.raw) : Expressible(raw)
            \/ \E c \in Claims(AsSeen(x)) : c[1] <= AfterLists
            => Decision(cfg, files.rules, x) = Intended(AsSeen(x))

\* config.go on privateV4: the "never leak to VPS" set.  Nothing that goes to a private
\* address the rules see leaves through the tunnel, whatever the document lists: nft
\* does not hand over what clients send there, the rules keep what programs of the
\* router send, and would keep that of clients of lan, too, if nft handed it over.
PrivateStaysLocal ==
    Rendered =>
        \A x \in FromClients \cup FromRouter : "private" \in AsSeen(x).ips =>
            /\ Fate(cfg, files.rules, x) # "vless-out"
            /\ x.inb = "tproxy-in" => Fate(cfg, files.rules, x) = "forwarded"
            /\ x \in From("lan") /\ Separate(doc) => Decision(cfg, files.rules, x) # "vless-out"

\* An update of the antifilter list changes the way of connections to its networks
\* only, and only of those that nothing before the geoip entries of force_direct
\* claims: what is blocked, forced direct or claimed by a list stays so, unless
\* the document has an entry that begins with geoip:ru among what it blocks or forces
\* through the tunnel.
UpdateOnlyDiverts ==
    [][/\ ~updated /\ updated' /\ Separate(doc)
       /\ ~HasRu(doc.routing.block \cup doc.routing.vpn)
       => \A x \in FromClients \cup FromRouter :
            Decision(cfg, files'.rules, x) # Decision(cfg, files.rules, x)
            => /\ Update \in AsSeen(x).ips
               /\ \A c \in Claims(AsSeen(x)) : c[1] >= AfterLists
               /\ Decision(cfg, files'.rules, x) = "vless-out"]_vars

\* The sections of the four files agree: zones and pools are of interfaces that
\* exist and have a device, nobody but the WAN is reachable from lan or vpnlan,
\* and no address is leased twice when the document keeps the subnets apart.
FilesAgree ==
    Rendered =>
        LET ifaces == OfType(files.network, "interface")
            devices == {d.o.name : d \in OfType(files.network, "device")} \cup {cfg.wan, "lo"}
            names == {i.name : i \in ifaces}
        IN  /\ \A i \in ifaces : i.o.device \in devices
            /\ {z.o.network : z \in OfType(files.firewall, "zone")} = names \ {"loopback"}
            /\ {d.o.interface : d \in OfType(files.dhcp, "dhcp")} = names \ {"loopback"}
            /\ \A n \in names : Reachable(files.firewall, n) \subseteq {"wan"}
            /\ Reachable(files.firewall, "wan") = {}
            /\ "vpnlan" \in names /\ Separate(doc) => Leases("lan") \cap Leases("vpnlan") = {}

\* Every SSID on an existing network and a declared radio that has a path, its own or
\* one filled in, comes up, however many share a radio: no section replaces another.
SsidsOnAir ==
    Rendered /\ cfg.wireless # Nil =>
        \A s \in Elements(doc.wireless.ssids) :
            /\ \E r \in Elements(cfg.wireless.radios) : r.name = s.radio /\ r.path # Nil
            /\ s.network = "vpnlan" => doc.vpnlan # Nil
            => s.ssid \in OnAir(files.wireless, files.network)

\* adapter.go: the document comes before its overrides, the overrides before the
\* adapter, for the ports as for the path of each radio by its name; a port or
\* path of the operator's is never replaced.
LayersInOrder ==
    Rendered =>
        LET ov == Given(doc.ov, [ports |-> <<>>, wan |-> Nil, radios |-> <<>>])
            layers == <<doc.lan.ports, ov.ports, Lookup(doc.model).ports>>
            Named(radios, name) == {r.path : r \in {r \in Elements(radios) : r.name = name}}
        IN  /\ \E i \in 1..3 : /\ cfg.lan.ports = layers[i]
                              /\ \A j \in 1..i - 1 : layers[j] = <<>>
                              /\ i < 3 => layers[i] # <<>>
            /\ cfg.wireless # Nil =>
                \A i \in DOMAIN cfg.wireless.radios :
                    LET r == doc.wireless.radios[i]
                        paths == << {r.path} \ {Nil}, Named(ov.radios, r.name),
                                    Named(Lookup(doc.model).radios, r.name), {Nil} >>
                    IN  \E k \in 1..4 : /\ cfg.wireless.radios[i].path \in paths[k]
                                       /\ \A j \in 1..k - 1 : paths[j] = {}

\* Render changes its argument, before it may fail: however often it ran, and failed,
\* the config is that of one Render of the document.
RenderOnce == Rendered => cfg = DeviceDefaults(ParseDefaults(doc))

-----------------------------------------------------------------------------
(* What the documentation says and the code does not do *)

\* schema.go on VPNLan: its "traffic is forced through the VPN outbound regardless
\* of domain/IP routing rules", name resolution aside.
VpnLanForced ==
    Rendered /\ doc.vpnlan # Nil =>
        \A x \in From("vpnlan") : "private" \notin x.ips /\ x.port # 53
            => Fate(cfg, files.rules, x) = "vless-out"

\* schema.go: raw is an escape hatch for "arbitrary xray ... overrides", for "data that
\* the high-level fields can't express".  What only a raw rule claims goes its way, and
\* nothing else does.
RawRulesRule ==
    Rendered /\ ~updated =>
        \A x \in FromClients \cup FromRouter :
            (\A c \in Claims(AsSeen(x)) : c[1] > AfterLists)
            => Decision(cfg, files.rules, x) = Intended(AsSeen(x))

\* config.go on privateV4, "never leak to VPS", for every program of the router.
PrivateNeverTunnelled ==
    Rendered => \A x \in FromClients \cup FromRouter :
                    "private" \in x.ips => Fate(cfg, files.rules, x) # "vless-out"

\* schema.go on DeviceOverrides: WANInterface, LANPorts and Radios "fill in
\* rendering defaults".  A document may leave out what they say.
OverridesFillIn == stage = "rejected" => doc.ov = Nil \/ ~Valid([doc EXCEPT !.wan = Given(@, doc.ov.wan)])

\* README, quick start: a document with `wan: { proto: dhcp }` renders.
QuickStartRenders == stage # "rejected"
=============================================================================
