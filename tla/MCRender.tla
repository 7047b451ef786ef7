------------------------------ MODULE MCRender ------------------------------
(***************************************************************************)
(* Small instances of Render: documents that vary the device, the subnets  *)
(* and pools, and the routing section, each around the one of the README.  *)
(***************************************************************************)
EXTENDS Render, TLC

Lan == [ip |-> 256 + 1, len |-> 24, ports |-> <<>>, bridge |-> Nil]
SplitRouting ==
    [profile |-> "split", strategy |-> Nil, quic |-> FALSE, via |-> FALSE, block |-> {},
     vpn |-> {}, direct |-> {}, lists |-> <<>>, raw |-> <<>>]

\* The README's, with a WAN device.
Base ==
    [model |-> "gl-mt6000", ov |-> Nil, lan |-> Lan, wan |-> "eth1",
     pools |-> [lan |-> Nil, vpnlan |-> Nil], wireless |-> Nil, vpnlan |-> Nil,
     xray |-> [port |-> Nil], routing |-> SplitRouting]

QuickStart == [Base EXCEPT !.wan = Nil]

Radio(name, path) == [name |-> name, htmode |-> Nil, path |-> path]
Ssid(radio, network, ssid) == [radio |-> radio, network |-> network, ssid |-> ssid]

Stations ==
    {Nil,
     [radios |-> << Radio("radio0", Nil), Radio("radio1", "own") >>,
      ssids |-> << Ssid("radio0", "lan", "a"), Ssid("radio1", "lan", "b"), Ssid("radio0", "lan", "c"),
                   Ssid("radio1", "vpnlan", "d"), Ssid("radio0", "lan", "e") >>],
     [radios |-> << Radio("radio1", Nil), Radio("radio2", Nil) >>,
      ssids |-> << Ssid("radio2", "lan", "a"), Ssid("radio9", "lan", "b") >>]}

Overrides ==
    {Nil,
     [ports |-> <<>>, wan |-> "eth2",
      radios |-> << Radio("radio1", "over1"), Radio("radio2", "over2"), Radio("radio2", "over3") >>],
     [ports |-> <<"lan7">>, wan |-> Nil, radios |-> <<>>]}

VpnLan(ip, len) == [ip |-> ip, len |-> len, bridge |-> Nil]
Pools == {Nil, [start |-> 0, limit |-> 9], [start |-> 250, limit |-> 0]}

Devices ==
    {[Base EXCEPT !.model = m, !.ov = o, !.lan.ports = p, !.wan = w, !.wireless = s, !.vpnlan = v] :
        m \in {"gl-mt6000", "my-router"}, o \in Overrides, p \in {<<>>, <<"eth0">>}, w \in {"eth1", Nil},
        s \in Stations, v \in {Nil, VpnLan(10 * 256 + 1, 24)}}

\* Prefixes that splitCIDR knows, and shorter ones.
Subnets ==
    {[Base EXCEPT !.lan.len = l, !.vpnlan = v, !.pools = [lan |-> p, vpnlan |-> q]] :
        l \in {24, 25}, p \in Pools, q \in Pools,
        v \in {Nil, VpnLan(10 * 256 + 1, 24), VpnLan(10 * 256 + 129, 24), VpnLan(16 * 256 + 1, 22)}}

Halves == {[Base EXCEPT !.vpnlan = VpnLan(10 * 256 + 1, 25)]}

ListRef(name, tag, kind) == [name |-> name, tag |-> tag, kind |-> kind]
Raw(rule, protocol, odd) == [k \in DOMAIN Anything |-> rule[k]] @@ [protocol |-> protocol, odd |-> odd]
RawRule == [Anything EXCEPT !.domain = {Entry("bare", "tube")}, !.net = {"tcp"}, !.tag = "block"]

\* A condition of a key that ruleFromMap drops, and one given as a single value.
CutShort == << Raw(RawRule, {"bittorrent"}, {}),
               Raw([RawRule EXCEPT !.ip = {Entry("slash", "corp")}, !.domain = {}], {}, {"ip"}) >>

Routings ==
    {[Base EXCEPT !.vpnlan = v[1],
        !.routing = [SplitRouting EXCEPT !.strategy = v[2], !.quic = q, !.block = b, !.vpn = f,
                                         !.direct = d, !.lists = l, !.raw = r]] :
        v \in {<<Nil, Nil>>, << VpnLan(10 * 256 + 1, 24), Nil >>, <<Nil, "IPOnDemand">>}, q \in BOOLEAN,
        b \in {{}, {Entry("geosite", "ads"), Entry("slash", "corp")}},
        f \in {{}, {Entry("ip", "corp"), Entry("bare", "tube")}, {Entry("geoip", "ru-blocked")}},
        d \in {{}, {Entry("geoip", "ru")},
               {Entry("ip", "bank"), Entry("geoip", "ru"), Entry("geoip", "private"), Entry("domain", "ads")}},
        l \in {<<>>, << ListRef("blocked", "vless-out", Nil) >>,
               << ListRef("sites", "direct", "domain"), ListRef("blocked", "vless-out", "cidr") >>},
        r \in {<<>>, << Raw(RawRule, {}, {}) >>}}

CutShorts ==
    {[d EXCEPT !.routing.raw = CutShort] :
        d \in {d \in Routings : d.vpnlan = Nil /\ d.routing.strategy = Nil /\ d.routing.raw # <<>>}}

AllDocs == Devices \cup Subnets \cup Routings \cup CutShorts
QuickStarts == {QuickStart}

MCFetched == {[blocked |-> {"l1", "corp"}, sites |-> {"tube"}], [blocked |-> {}, sites |-> {"tube"}]}

Destinations ==
    {[ips |-> {}, doms |-> {"tube"}], [ips |-> {"private"}, doms |-> {"tube"}],
     [ips |-> {"private"}, doms |-> {}], [ips |-> {"private", "corp"}, doms |-> {}],
     [ips |-> {"ru"}, doms |-> {"ads"}], [ips |-> {"ru", "l1"}, doms |-> {}], [ips |-> {"l2", "ru"}, doms |-> {"tube"}],
     [ips |-> {"l2"}, doms |-> {}], [ips |-> {"bank", "ru", "l2"}, doms |-> {}], [ips |-> {"corp", "l2"}, doms |-> {"x"}]}

MCConns ==
    {[inb |-> i, src |-> Nil, net |-> p[1], port |-> p[2], ips |-> d.ips, doms |-> d.doms,
      proto |-> "http"] :
        i \in Inbounds, p \in {<<"udp", 53>>, <<"udp", 443>>, <<"tcp", 443>>}, d \in Destinations}
=============================================================================
