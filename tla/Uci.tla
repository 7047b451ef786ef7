-------------------------------- MODULE Uci ---------------------------------
(***************************************************************************)
(* The four UCI files that render builds from a config, with the options   *)
(* by which their sections refer to one another, and what OpenWrt makes of *)
(* them.  An address is a number, its last two octets; a CIDR is an        *)
(* address and a prefix length.                                            *)
(***************************************************************************)
EXTENDS Config

\* One section; a later one of the same name is merged into it by uci.
Section(type, name, options) == [type |-> type, name |-> name, o |-> options]
OfType(file, type) == {file[i] : i \in {i \in DOMAIN file : file[i].type = type}}
Only(cond, s) == IF cond THEN s ELSE <<>>

\* splitCIDR writes a netmask for four prefix lengths and takes any other
\* for /24.
MaskLen(len) == IF len \in {8, 16, 24, 32} THEN len ELSE 24

\* buildNetwork, with buildWAN.
Network(c) ==
    << Section("interface", "loopback", [device |-> "lo"]),
       Section("device", Nil, [name |-> c.lan.bridge, ports |-> Elements(c.lan.ports)]),
       Section("interface", "lan",
               [device |-> c.lan.bridge, ip |-> c.lan.ip, mask |-> c.lan.len]),
       Section("interface", "wan", [device |-> c.wan]) >>
    \o Only(c.vpnlan # Nil,
        << Section("device", "vpnlan_dev", [name |-> c.vpnlan.bridge, ports |-> {}]),
           Section("interface", "vpnlan", [device |-> c.vpnlan.bridge, ip |-> c.vpnlan.ip,
                                           mask |-> MaskLen(c.vpnlan.len)]) >>)

Zone(name, forward) == Section("zone", Nil, [name |-> name, network |-> name, forward |-> forward])
Forwarding(src, dest) == Section("forwarding", Nil, [src |-> src, dest |-> dest])

\* Mutant: vpnlan is added to the networks that wan forwards to.
FirewallOpen(c) ==
    << Zone("lan", "ACCEPT"), Zone("wan", "DROP"), Forwarding("lan", "wan") >>
    \o Only(c.vpnlan # Nil, << Zone("vpnlan", "REJECT"), Forwarding("vpnlan", "wan"),
                               Forwarding("wan", "lan") >>)

\* buildFirewall.
Firewall(c) ==
    << Zone("lan", "ACCEPT"), Zone("wan", "DROP"), Forwarding("lan", "wan") >>
    \o Only(c.vpnlan # Nil, << Zone("vpnlan", "REJECT"), Forwarding("vpnlan", "wan") >>)

\* defaultPool: zero means unset.
PoolOf(p) ==
    IF p = Nil THEN [start |-> 100, limit |-> 150]
    ELSE [start |-> IF p.start = 0 THEN 100 ELSE p.start,
          limit |-> IF p.limit = 0 THEN 150 ELSE p.limit]

Pool(name, p) ==
    Section("dhcp", name, [interface |-> name, start |-> PoolOf(p).start, limit |-> PoolOf(p).limit])

\* buildDHCP.
Dhcp(c) ==
    << Pool("lan", c.pools.lan), Section("dhcp", "wan", [interface |-> "wan"]) >>
    \o Only(c.vpnlan # Nil, << Pool("vpnlan", c.pools.vpnlan) >>)

\* Mutant: only the SSID right before is looked at.
IfaceNameAdjacent(ssids, i) ==
    IF i > 1 /\ ssids[i - 1].radio = ssids[i].radio THEN <<"wifinet", ssids[i].radio, i - 1>>
                                                    ELSE <<"default", ssids[i].radio>>

\* default_<radio> for the first SSID of a radio, wifinet_<radio>_<i> for others.
IfaceName(ssids, i) ==
    IF \E j \in 1..i - 1 : ssids[j].radio = ssids[i].radio
    THEN <<"wifinet", ssids[i].radio, i - 1>> ELSE <<"default", ssids[i].radio>>

\* buildWireless.
WirelessFile(c) ==
    IF c.wireless = Nil THEN <<>>
    ELSE LET radios == c.wireless.radios
             ssids == c.wireless.ssids
         IN  [i \in DOMAIN radios |->
                Section("wifi-device", radios[i].name,
                        [path |-> radios[i].path, htmode |-> radios[i].htmode])]
             \o [i \in DOMAIN ssids |->
                Section("wifi-iface", IfaceName(ssids, i),
                        [device |-> ssids[i].radio, network |-> ssids[i].network,
                         ssid |-> ssids[i].ssid])]

-----------------------------------------------------------------------------
(* What OpenWrt makes of the files *)

\* The addresses of a subnet: as many as its size, from its first on.
Size(len) == 2^(32 - len)
First(ip, len) == (ip \div Size(len)) * Size(len)

\* dnsmasq's range on an interface: network + start, limit addresses, cut off
\* before the broadcast address.
Leasable(network, dhcp, name) ==
    LET i == CHOOSE s \in OfType(network, "interface") : s.name = name
        d == CHOOSE s \in OfType(dhcp, "dhcp") : s.name = name
        size == Size(i.o.mask)
        last == IF d.o.start + d.o.limit < size THEN d.o.start + d.o.limit - 1 ELSE size - 2
    IN  {First(i.o.ip, i.o.mask) + n : n \in d.o.start..last}

\* The interfaces clients of one may reach: its forwardings, and their zones'
\* networks.
Reachable(firewall, name) ==
    {z.o.network : z \in {z \in OfType(firewall, "zone") :
        \E f \in OfType(firewall, "forwarding") : f.o.src = name /\ f.o.dest = z.o.name}}

\* The wireless networks that come up: a section overwritten by a later one of
\* its name does not, nor one that refers to what is not there or to a radio that has
\* no path to a device.
OnAir(wireless, network) ==
    {wireless[i].o.ssid : i \in {i \in DOMAIN wireless :
        /\ wireless[i].type = "wifi-iface"
        /\ \A j \in i + 1..Len(wireless) : wireless[j].name # wireless[i].name
        /\ \E r \in OfType(wireless, "wifi-device") : r.name = wireless[i].o.device /\ r.o.path # Nil
        /\ \E n \in OfType(network, "interface") : n.name = wireless[i].o.network}}
=============================================================================
