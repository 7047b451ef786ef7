------------------------------- MODULE Config -------------------------------
(***************************************************************************)
(* A wrtbox.yaml document on its way to the renderer: validation, the      *)
(* defaults of config.Parse, and the defaults of the device adapters,      *)
(* which every Render fills in again.  A document is a record; Nil is the  *)
(* zero value of a string and of a pointer, 0 that of a number.            *)
(***************************************************************************)
EXTENDS Integers, Sequences

CONSTANT Nil

Given(x, default) == IF x = Nil THEN default ELSE x
Elements(s) == {s[i] : i \in 1..Len(s)}

-----------------------------------------------------------------------------
(* Documents, as far as the renderer tells them apart *)

Optional(S) == {Nil} \cup S

RadioList == Seq([name: STRING, htmode: Optional(STRING), path: Optional(STRING)])
WirelessDoc ==
    [radios: RadioList,
     ssids: Seq([radio: Optional(STRING), network: Optional(STRING), ssid: STRING])]
OverridesDoc == [ports: Seq(STRING), wan: Optional(STRING), radios: RadioList]
VpnLanDoc == [ip: Nat, len: 0..32, bridge: Optional(STRING)]
PoolDoc == [start: Int, limit: Int]

\* An entry of block, force_via_vpn or force_direct: its prefix ("bare" without
\* one, "slash" for a bare CIDR) and what it names.
EntryDoc == [form: {"ip", "geoip", "slash", "domain", "geosite", "full", "regexp", "bare"}, of: STRING]

\* A rule of raw.xray_rules, with xray's conditions; "protocol" stands for those
\* that the program's own rules never have.  xray takes one value or a list of them:
\* odd are the conditions of the form that ruleFromMap does not look for.
RawDoc ==
    [inb: SUBSET STRING, source: SUBSET [ip: Nat, len: 0..32], net: SUBSET STRING,
     port: SUBSET Nat, ip: SUBSET EntryDoc, domain: SUBSET EntryDoc, tag: STRING,
     protocol: SUBSET STRING, odd: SUBSET {"inb", "source", "net", "ip", "domain"}]

RoutingDoc ==
    [profile: STRING, strategy: Optional(STRING), quic: BOOLEAN, via: BOOLEAN,
     block: SUBSET EntryDoc, vpn: SUBSET EntryDoc, direct: SUBSET EntryDoc,
     lists: Seq([name: STRING, tag: STRING, kind: Optional(STRING)]), raw: Seq(RawDoc)]

Document ==
    [model: STRING, ov: Optional(OverridesDoc),
     lan: [ip: Nat, len: 0..32, ports: Seq(STRING), bridge: Optional(STRING)],
     wan: Optional(STRING), pools: [lan: Optional(PoolDoc), vpnlan: Optional(PoolDoc)],
     wireless: Optional(WirelessDoc), vpnlan: Optional(VpnLanDoc),
     xray: Optional([port: Optional(Nat)]), routing: RoutingDoc]

\* Nil is told apart from what may stand in its place; the literal is named because
\* the provers do not know it for a string.
ASSUME NilAssumption ==
    Nil \notin Int \cup [ip: Nat, len: 0..32, bridge: {"br-vpnlan"} \cup STRING]

-----------------------------------------------------------------------------
(* Validation *)

ValidPool(p) == p # Nil => p.start \in {0} \cup 2..254 /\ p.limit \in {0} \cup 1..253

ValidWireless(w) ==
    w # Nil => /\ w.radios # <<>> /\ w.ssids # <<>>
               /\ \A s \in Elements(w.ssids) : s.radio # Nil /\ s.network \in {"lan", "vpnlan"}

\* The struct tags that are about more than the form of one string, and the two
\* checks of Validate.
Valid(c) ==
    /\ c.wan # Nil
    /\ c.xray # Nil
    /\ c.routing.profile # "full-tunnel"
    /\ ValidPool(c.pools.lan) /\ ValidPool(c.pools.vpnlan)
    /\ ValidWireless(c.wireless)
    /\ \A l \in Elements(c.routing.lists) : /\ l.tag \in {"vless-out", "direct", "block"}
                                            /\ l.kind \in {Nil, "cidr", "domain"}

-----------------------------------------------------------------------------
(* Defaults *)

Bridged(subnet, default) == [subnet EXCEPT !.bridge = Given(@, default)]

\* applyDefaults: vpnlan_via_vpn is forced on with a vpnlan, also when the
\* document says false.
ParseDefaults(c) ==
    [c EXCEPT
        !.xray.port = Given(@, 12345),
        !.lan = Bridged(@, "br-lan"),
        !.vpnlan = IF @ = Nil THEN Nil ELSE Bridged(@, "br-vpnlan"),
        !.routing.strategy = Given(@, "IPIfNonMatch"),
        !.routing.via = @ \/ c.vpnlan # Nil]

MtRadios ==
    << [name |-> "radio0", htmode |-> "HE20", path |-> "soc/wifi"],
       [name |-> "radio1", htmode |-> "HE80", path |-> "soc/wifi+1"] >>

\* The adapter of a model; a model that has none gets the generic one.
Lookup(model) ==
    CASE model = "gl-mt6000" -> [ports |-> <<"lan1", "lan2">>, wan |-> "eth1", radios |-> MtRadios]
      [] model = "x86_64"    -> [ports |-> <<>>, wan |-> "eth0", radios |-> <<>>]
      [] OTHER               -> [ports |-> <<>>, wan |-> "eth1", radios |-> <<>>]

\* The radios of a list by name, as a search from its start finds them.
ByName(radios) ==
    [n \in {r.name : r \in Elements(radios)} |->
        radios[CHOOSE i \in DOMAIN radios : /\ radios[i].name = n
                                           /\ \A j \in 1..i - 1 : radios[j].name # n]]

Over(f, g) == [n \in DOMAIN f \cup DOMAIN g |-> IF n \in DOMAIN f THEN f[n] ELSE g[n]]

\* Mutant: the overrides are appended, the adapter's radio is found first.
MergeAfter(base, over) == Over(ByName(base), ByName(over))

\* mergeRadios: an override replaces the adapter's radio of that name.
MergeRadios(base, over) == Over(ByName(over), ByName(base))

\* A radio without a path takes path and htmode of the one of its name in stock.
FromStock(r, stock) ==
    IF r.path # Nil \/ r.name \notin DOMAIN stock THEN r
    ELSE [r EXCEPT !.path = stock[r.name].path, !.htmode = Given(@, stock[r.name].htmode)]

Stocked(w, stock) ==
    [w EXCEPT !.radios = [i \in DOMAIN w.radios |-> FromStock(w.radios[i], stock)]]

\* Mutant: the ports of the overrides are added at every Render.
DeviceDefaultsTwice(c) ==
    [c EXCEPT !.lan.ports = @ \o (IF c.ov = Nil THEN <<>> ELSE c.ov.ports)]

\* device.ApplyDefaults: the document comes first, then its overrides, then the
\* adapter.
DeviceDefaults(c) ==
    LET a == Lookup(c.model)
        ov == Given(c.ov, [ports |-> <<>>, wan |-> Nil, radios |-> <<>>])
        stock == MergeRadios(a.radios, ov.radios)
    IN  [c EXCEPT
            !.lan.ports = IF @ # <<>> THEN @ ELSE IF ov.ports # <<>> THEN ov.ports ELSE a.ports,
            !.wan = Given(@, Given(ov.wan, a.wan)),
            !.wireless = IF @ = Nil THEN Nil ELSE Stocked(@, stock)]
=============================================================================
