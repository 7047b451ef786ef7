---------------------------- MODULE RenderProofs ----------------------------
(***************************************************************************)
(* What holds of every document, config and connection: the files agree    *)
(* with one another, and the first rule that matches is the one the        *)
(* document asks for.  The invariant says what the files are made of, the  *)
(* rest is about the functions that make them.                             *)
(***************************************************************************)
EXTENDS Render, SequenceTheorems, WellFoundedInduction, TLAPS

\* The config of a document, once rendered.
Config(d) == DeviceDefaults(ParseDefaults(d))

\* The rules that are in place.
RulesNow == IF updated THEN WithAntifilter(Rules(cfg, fetched), Update) ELSE Rules(cfg, fetched)

\* How far the document got says what the config in memory and the files are.
RenderInv ==
    /\ doc \in Docs /\ updated \in BOOLEAN
    /\ stage \in {"written", "rejected", "loaded", "rendered"}
    /\ stage \in {"loaded", "rendered"} => Valid(doc)
    /\ stage = "loaded" => cfg \in {ParseDefaults(doc), Config(doc)}
    /\ stage = "rendered" =>
        /\ cfg = Config(doc)
        /\ fetched \in Fetched
        /\ files = [network |-> Network(cfg), firewall |-> Firewall(cfg), dhcp |-> Dhcp(cfg),
                    wireless |-> WirelessFile(cfg), rules |-> RulesNow]

-----------------------------------------------------------------------------
(* Defaults *)

\* A radio that took what stock has for it finds nothing more to take.
LEMMA StockOnce ==
    ASSUME NEW r, "name" \in DOMAIN r, "htmode" \in DOMAIN r, "path" \in DOMAIN r, NEW stock
    PROVE  FromStock(FromStock(r, stock), stock) = FromStock(r, stock)
<1>1. CASE r.path # Nil \/ r.name \notin DOMAIN stock
  BY <1>1 DEF FromStock
<1>2. CASE ~(r.path # Nil \/ r.name \notin DOMAIN stock)
  <2>. DEFINE q == FromStock(r, stock)
              p == stock[r.name].path
              h == stock[r.name].htmode
  <2>1. q = [r EXCEPT !.path = p, !.htmode = Given(r.htmode, h)]
    BY <1>2 DEF FromStock
  <2>2. /\ DOMAIN q = DOMAIN r /\ q.name = r.name /\ q.path = p /\ q.htmode = Given(r.htmode, h)
        /\ q = [k \in DOMAIN r |-> q[k]]
    BY <2>1
  <2>. SUFFICES FromStock(q, stock) = q
    OBVIOUS
  <2>. HIDE DEF q
  <2>3. CASE q.path # Nil
    BY <2>3 DEF FromStock
  <2>4. CASE q.path = Nil
    <3>1. FromStock(q, stock) = [q EXCEPT !.path = p, !.htmode = Given(q.htmode, h)]
      BY <1>2, <2>2, <2>4 DEF FromStock
    <3>2. Given(q.htmode, h) = q.htmode
      BY <2>2 DEF Given
    <3>3. [q EXCEPT !.path = p, !.htmode = q.htmode] = q
      BY <2>2
    <3>. QED
      BY <3>1, <3>2, <3>3
  <2>. QED
    BY <2>3, <2>4
<1>. QED
  BY <1>1, <1>2

LEMMA RadioHas ==
    ASSUME NEW radios \in RadioList, NEW i \in DOMAIN radios
    PROVE  "name" \in DOMAIN radios[i] /\ "htmode" \in DOMAIN radios[i] /\ "path" \in DOMAIN radios[i]
<1>. DEFINE R == [name: STRING, htmode: Optional(STRING), path: Optional(STRING)]
<1>1. radios[i] \in R
  <2>1. radios \in Seq(R)
    BY DEF RadioList
  <2>. HIDE DEF R
  <2>. QED
    BY <2>1
<1>. QED
  BY <1>1

LEMMA StockedOnce ==
    ASSUME NEW w \in WirelessDoc, NEW stock
    PROVE  Stocked(Stocked(w, stock), stock) = Stocked(w, stock)
<1>. DEFINE v == Stocked(w, stock)
            u == Stocked(v, stock)
<1>1. "radios" \in DOMAIN w /\ w.radios \in RadioList
  BY DEF WirelessDoc
<1>2. v.radios = [i \in DOMAIN w.radios |-> FromStock(w.radios[i], stock)]
  BY <1>1 DEF Stocked
<1>3. u.radios = [i \in DOMAIN w.radios |-> FromStock(v.radios[i], stock)]
  BY <1>1, <1>2 DEF Stocked
<1>4. ASSUME NEW i \in DOMAIN w.radios
      PROVE  FromStock(v.radios[i], stock) = v.radios[i]
  <2>1. "name" \in DOMAIN w.radios[i] /\ "htmode" \in DOMAIN w.radios[i] /\ "path" \in DOMAIN w.radios[i]
    BY <1>1, RadioHas
  <2>. QED
    BY <1>2, <2>1, StockOnce
<1>5. u.radios = v.radios
  BY <1>2, <1>3, <1>4
<1>6. u = [v EXCEPT !.radios = u.radios] /\ v = [w EXCEPT !.radios = v.radios]
  BY <1>2, <1>3 DEF Stocked
<1>. QED
  BY <1>5, <1>6 DEF Stocked

LEMMA Parsed ==
    ASSUME NEW d \in Document, NEW c, c = ParseDefaults(d)
    PROVE  /\ DOMAIN c = DOMAIN d
           /\ c.model = d.model /\ c.ov = d.ov /\ c.wan = d.wan
           /\ c.pools = d.pools /\ c.wireless = d.wireless
           /\ c.lan = Bridged(d.lan, "br-lan")
           /\ c.vpnlan = IF d.vpnlan = Nil THEN Nil ELSE Bridged(d.vpnlan, "br-vpnlan")
           /\ c.routing = [d.routing EXCEPT !.strategy = Given(@, "IPIfNonMatch"),
                                            !.via = @ \/ d.vpnlan # Nil]
<1>1. DOMAIN c = DOMAIN d
  BY DEF ParseDefaults, Document
<1>2. /\ c.model = d.model /\ c.ov = d.ov /\ c.wan = d.wan
      /\ c.pools = d.pools /\ c.wireless = d.wireless
  BY DEF ParseDefaults, Document
<1>3. c.lan = Bridged(d.lan, "br-lan")
  BY DEF ParseDefaults, Document
<1>4. c.vpnlan = IF d.vpnlan = Nil THEN Nil ELSE Bridged(d.vpnlan, "br-vpnlan")
  BY DEF ParseDefaults, Document
<1>5. c.routing = [d.routing EXCEPT !.strategy = Given(@, "IPIfNonMatch"), !.via = @ \/ d.vpnlan # Nil]
  BY DEF ParseDefaults, Document
<1>. QED
  BY <1>1, <1>2, <1>3, <1>4, <1>5

\* What the overrides of a config are, and the first list of ports that has any.
Overridden(c) == Given(c.ov, [ports |-> <<>>, wan |-> Nil, radios |-> <<>>])
Ports(c, mine) ==
    IF mine # <<>> THEN mine ELSE IF Overridden(c).ports # <<>> THEN Overridden(c).ports
    ELSE Lookup(c.model).ports
Stock(c) == MergeRadios(Lookup(c.model).radios, Overridden(c).radios)

LEMMA Defaulted ==
    ASSUME NEW c, {"model", "ov", "lan", "wan", "wireless", "vpnlan", "pools", "routing"} \subseteq DOMAIN c,
           "ports" \in DOMAIN c.lan, NEW e, e = DeviceDefaults(c)
    PROVE  /\ DOMAIN e = DOMAIN c
           /\ e.model = c.model /\ e.ov = c.ov /\ e.vpnlan = c.vpnlan
           /\ e.pools = c.pools /\ e.routing = c.routing
           /\ e.lan = [c.lan EXCEPT !.ports = Ports(c, c.lan.ports)]
           /\ e.wan = Given(c.wan, Given(Overridden(c).wan, Lookup(c.model).wan))
           /\ e.wireless = IF c.wireless = Nil THEN Nil ELSE Stocked(c.wireless, Stock(c))
<1>1. e = [c EXCEPT !.lan.ports = Ports(c, @),
                    !.wan = Given(@, Given(Overridden(c).wan, Lookup(c.model).wan)),
                    !.wireless = IF @ = Nil THEN Nil ELSE Stocked(@, Stock(c))]
  BY DEF DeviceDefaults, Ports, Overridden, Stock
<1>. QED
  BY <1>1

\* What the config of a document that names a WAN device has, field by field.
LEMMA ConfigFields ==
    ASSUME NEW d \in Document, d.wan # Nil, NEW e, e = Config(d)
    PROVE  /\ {"model", "ov", "lan", "wan", "wireless", "vpnlan", "pools", "routing"} \subseteq DOMAIN e
           /\ DOMAIN e.lan = {"ip", "len", "ports", "bridge"}
           /\ e.model = d.model /\ e.ov = d.ov /\ e.wan = d.wan /\ e.pools = d.pools
           /\ e.lan.ip = d.lan.ip /\ e.lan.len = d.lan.len
           /\ e.lan.ports = Ports(d, d.lan.ports)
           /\ e.vpnlan = IF d.vpnlan = Nil THEN Nil ELSE Bridged(d.vpnlan, "br-vpnlan")
           /\ e.wireless = IF d.wireless = Nil THEN Nil ELSE Stocked(d.wireless, Stock(d))
           /\ e.routing = [d.routing EXCEPT !.strategy = Given(@, "IPIfNonMatch"),
                                            !.via = @ \/ d.vpnlan # Nil]
           /\ "ports" \in DOMAIN ParseDefaults(d).lan
           /\ {"lan", "wan", "wireless"} \subseteq DOMAIN ParseDefaults(d)
<1>. DEFINE c == ParseDefaults(d)
            all == {"model", "ov", "lan", "wan", "wireless", "vpnlan", "pools", "routing"}
<1>1. /\ DOMAIN c = DOMAIN d
      /\ c.model = d.model /\ c.ov = d.ov /\ c.wan = d.wan
      /\ c.pools = d.pools /\ c.wireless = d.wireless
      /\ c.lan = Bridged(d.lan, "br-lan")
      /\ c.vpnlan = IF d.vpnlan = Nil THEN Nil ELSE Bridged(d.vpnlan, "br-vpnlan")
      /\ c.routing = [d.routing EXCEPT !.strategy = Given(@, "IPIfNonMatch"),
                                       !.via = @ \/ d.vpnlan # Nil]
  BY Parsed
<1>2. all \subseteq DOMAIN d /\ DOMAIN d.lan = {"ip", "len", "ports", "bridge"}
  BY DEF Document
<1>3. e = DeviceDefaults(c)
  BY DEF Config
<1>. HIDE DEF c
<1>4. /\ DOMAIN c.lan = {"ip", "len", "ports", "bridge"} /\ c.lan.ports = d.lan.ports
      /\ c.lan.ip = d.lan.ip /\ c.lan.len = d.lan.len
  BY <1>1, <1>2 DEF Bridged
<1>5. Overridden(c) = Overridden(d) /\ Stock(c) = Stock(d) /\ Ports(c, c.lan.ports) = Ports(d, d.lan.ports)
  BY <1>1, <1>4 DEF Stock, Ports, Overridden
<1>6. /\ DOMAIN e = DOMAIN c
      /\ e.model = c.model /\ e.ov = c.ov /\ e.vpnlan = c.vpnlan
      /\ e.pools = c.pools /\ e.routing = c.routing
      /\ e.lan = [c.lan EXCEPT !.ports = Ports(c, c.lan.ports)]
      /\ e.wan = Given(c.wan, Given(Overridden(c).wan, Lookup(c.model).wan))
      /\ e.wireless = IF c.wireless = Nil THEN Nil ELSE Stocked(c.wireless, Stock(c))
  BY <1>1, <1>2, <1>3, <1>4, Defaulted
<1>7. e.wan = d.wan
  BY <1>1, <1>6 DEF Given
<1>8. /\ DOMAIN e.lan = {"ip", "len", "ports", "bridge"} /\ e.lan.ip = d.lan.ip /\ e.lan.len = d.lan.len
      /\ e.lan.ports = Ports(d, d.lan.ports)
  BY <1>4, <1>5, <1>6
<1>9. all \subseteq DOMAIN c /\ "ports" \in DOMAIN c.lan
  BY <1>1, <1>2, <1>4
<1>. QED
  BY <1>1, <1>5, <1>6, <1>7, <1>8, <1>9 DEF c

\* A second Render fills in nothing.
LEMMA DefaultsOnce ==
    ASSUME NEW d \in Document, d.wan # Nil
    PROVE  DeviceDefaults(Config(d)) = Config(d)
<1>. DEFINE c == ParseDefaults(d)
            e == Config(d)
            all == {"model", "ov", "lan", "wan", "wireless", "vpnlan", "pools", "routing"}
            wireless == IF e.wireless = Nil THEN Nil ELSE Stocked(e.wireless, Stock(d))
<1>1. /\ all \subseteq DOMAIN e /\ DOMAIN e.lan = {"ip", "len", "ports", "bridge"}
      /\ e.model = d.model /\ e.ov = d.ov /\ e.wan = d.wan
      /\ e.lan.ports = Ports(d, d.lan.ports)
      /\ e.wireless = IF d.wireless = Nil THEN Nil ELSE Stocked(d.wireless, Stock(d))
      /\ "ports" \in DOMAIN c.lan /\ {"lan", "wan", "wireless"} \subseteq DOMAIN c
  BY ConfigFields
<1>8. \E p, w, r : e = [c EXCEPT !.lan.ports = p, !.wan = w, !.wireless = r]
  BY DEF Config, DeviceDefaults
<1>. HIDE DEF c, e
<1>2. /\ Overridden(e) = Overridden(d) /\ Stock(e) = Stock(d)
      /\ Ports(e, e.lan.ports) = e.lan.ports
  BY <1>1 DEF Stock, Ports, Overridden
<1>3. DeviceDefaults(e) = [e EXCEPT !.lan.ports = Ports(e, @),
                                    !.wan = Given(@, Given(Overridden(e).wan, Lookup(e.model).wan)),
                                    !.wireless = IF @ = Nil THEN Nil ELSE Stocked(@, Stock(e))]
  BY DEF DeviceDefaults, Ports, Overridden, Stock
<1>4. Given(e.wan, Given(Overridden(e).wan, Lookup(e.model).wan)) = e.wan
  BY <1>1 DEF Given
<1>5. wireless = e.wireless
  <2>1. CASE d.wireless = Nil
    BY <1>1, <2>1
  <2>2. CASE d.wireless # Nil
    <3>1. d.wireless \in WirelessDoc
      BY <2>2 DEF Document, Optional
    <3>. QED
      BY <1>1, <3>1, StockedOnce
  <2>. QED
    BY <2>1, <2>2
<1>6. DeviceDefaults(e) = [e EXCEPT !.lan.ports = e.lan.ports, !.wan = e.wan, !.wireless = e.wireless]
  BY <1>2, <1>3, <1>4, <1>5
<1>7. [e EXCEPT !.lan.ports = e.lan.ports, !.wan = e.wan, !.wireless = e.wireless] = e
  <2>1. PICK p, w, r : e = [c EXCEPT !.lan.ports = p, !.wan = w, !.wireless = r]
    BY <1>8
  <2>2. e.lan.ports = p /\ e.wan = w /\ e.wireless = r
    BY <1>1, <2>1
  <2>3. "ports" \in DOMAIN c.lan /\ {"lan", "wan", "wireless"} \subseteq DOMAIN c
    BY <1>1
  <2>. QED
    BY <2>1, <2>2, <2>3
<1>. QED
  BY <1>6, <1>7 DEF e

\* The config has a vpnlan when the document has one, with its subnet.
LEMMA ConfigVpnLan ==
    ASSUME NEW d \in Document, d.wan # Nil
    PROVE  /\ Config(d).vpnlan = Nil <=> d.vpnlan = Nil
           /\ d.vpnlan # Nil => /\ Config(d).vpnlan.ip = d.vpnlan.ip /\ d.vpnlan.ip \in Nat
                                /\ Config(d).vpnlan.len = d.vpnlan.len /\ d.vpnlan.len \in 0..32
                                /\ MaskLen(d.vpnlan.len) \in 0..32
<1>1. Config(d).vpnlan = IF d.vpnlan = Nil THEN Nil ELSE Bridged(d.vpnlan, "br-vpnlan")
  BY ConfigFields
<1>2. ASSUME d.vpnlan # Nil
      PROVE  /\ Bridged(d.vpnlan, "br-vpnlan") # Nil
             /\ Bridged(d.vpnlan, "br-vpnlan").ip = d.vpnlan.ip /\ d.vpnlan.ip \in Nat
             /\ Bridged(d.vpnlan, "br-vpnlan").len = d.vpnlan.len /\ d.vpnlan.len \in 0..32
  <2>. DEFINE v == d.vpnlan
              b == Given(v.bridge, "br-vpnlan")
  <2>1. v \in [ip: Nat, len: 0..32, bridge: Optional(STRING)]
    BY <1>2 DEF Document, Optional, VpnLanDoc
  <2>2. Bridged(v, "br-vpnlan") = [v EXCEPT !.bridge = b]
    BY DEF Bridged
  <2>3. b \in {"br-vpnlan"} \cup STRING
    BY <2>1 DEF Given, Optional
  <2>. HIDE DEF v, b
  <2>4. [v EXCEPT !.bridge = b] \in [ip: Nat, len: 0..32, bridge: {"br-vpnlan"} \cup STRING]
    BY <2>1, <2>3
  <2>5. [v EXCEPT !.bridge = b].ip = v.ip /\ [v EXCEPT !.bridge = b].len = v.len
        /\ v.ip \in Nat /\ v.len \in 0..32
    BY <2>1
  <2>. QED
    BY <2>2, <2>4, <2>5, NilAssumption DEF v
<1>3. \A len \in 0..32 : MaskLen(len) \in 0..32
  BY DEF MaskLen
<1>. QED
  BY <1>1, <1>2, <1>3

-----------------------------------------------------------------------------
(* The invariant *)

LEMMA RenderInit == Init => RenderInv
  BY DEF Init, RenderInv

LEMMA RenderStep == RenderInv /\ [Next]_vars => RenderInv'
<1>. SUFFICES ASSUME RenderInv, [Next]_vars PROVE RenderInv'
  OBVIOUS
<1>. USE DEF RenderInv
<1>1. Valid(doc) => /\ DeviceDefaults(ParseDefaults(doc)) = Config(doc)
                    /\ DeviceDefaults(Config(doc)) = Config(doc)
  BY DocsAssumption, DefaultsOnce DEF Valid, Config
<1>2. CASE Load
  BY <1>2 DEF Load
<1>3. ASSUME NEW f \in Fetched, RenderFiles(f) PROVE RenderInv'
  BY <1>1, <1>3 DEF RenderFiles, RulesNow
<1>4. CASE RenderFails
  BY <1>1, <1>4 DEF RenderFails, RulesNow
<1>5. CASE Antifilter
  BY <1>5 DEF Antifilter, RulesNow
<1>6. CASE UNCHANGED vars
  BY <1>6 DEF vars, RulesNow
<1>. QED
  BY <1>2, <1>3, <1>4, <1>5, <1>6 DEF Next

\* Spec keeps RenderInv.
THEOREM RenderInductive == Spec => []RenderInv
  BY RenderInit, RenderStep, PTL DEF Spec

\* However often Render ran and failed, the config is that of one Render.
THEOREM RenderOnceAlways == Spec => []RenderOnce
<1>1. RenderInv => RenderOnce
  BY DEF RenderInv, RenderOnce, Rendered, Config
<1>. QED
  BY <1>1, RenderInductive, PTL

-----------------------------------------------------------------------------
(* Layers *)

\* A set of natural numbers has a least one.
LEMMA LeastIsThere ==
    ASSUME NEW set \in SUBSET Nat, set # {}
    PROVE  \E m \in set : \A n \in set : m <= n
<1>. DEFINE less == OpToRel(<, Nat)
<1>1. IsWellFoundedOn(less, Nat)
  BY NatLessThanWellFounded, Zenon
<1>2. \A x, y \in Nat : <<y, x>> \in less <=> y < x
  BY DEF OpToRel
<1>. HIDE DEF less
<1>3. PICK m \in set : \A n \in set : ~(<<n, m>> \in less)
  BY <1>1, WFMin
<1>4. \A n \in set : ~(n < m) /\ n \in Nat /\ m \in Nat
  BY <1>2, <1>3
<1>. QED
  BY <1>4

\* What a search by name finds is a radio of the list with that name.
LEMMA Found ==
    ASSUME NEW radios, Len(radios) \in Nat, DOMAIN radios = 1..Len(radios), NEW n \in DOMAIN ByName(radios)
    PROVE  ByName(radios)[n] \in Elements(radios) /\ ByName(radios)[n].name = n
<1>. DEFINE all == {i \in DOMAIN radios : radios[i].name = n}
<1>1. all # {} /\ all \subseteq Nat
  BY DEF ByName, Elements
<1>2. PICK m \in all : \A i \in all : m <= i
  <2>. HIDE DEF all
  <2>. QED
    BY <1>1, LeastIsThere
<1>3. m \in DOMAIN radios /\ radios[m].name = n /\ \A j \in 1..m - 1 : radios[j].name # n
  BY <1>2
<1>4. ByName(radios)[n] = radios[CHOOSE i \in DOMAIN radios :
                                    radios[i].name = n /\ \A j \in 1..i - 1 : radios[j].name # n]
  BY DEF ByName
<1>. QED
  BY <1>3, <1>4 DEF Elements

\* The adapters' radios.
LEMMA AdapterRadios ==
    ASSUME NEW m
    PROVE  LET radios == Lookup(m).radios IN Len(radios) \in Nat /\ DOMAIN radios = 1..Len(radios)
<1>1. Lookup(m).radios \in {MtRadios, <<>>}
  BY Zenon DEF Lookup
<1>2. Len(MtRadios) \in Nat /\ DOMAIN MtRadios = 1..Len(MtRadios)
  BY DEF MtRadios
<1>3. Len(<<>>) \in Nat /\ DOMAIN <<>> = 1..Len(<<>>)
  <2>1. Len(<<>>) = 0 /\ DOMAIN <<>> = {} /\ 1..0 = {}
    OBVIOUS
  <2>. QED
    BY <2>1
<1>. QED
  BY <1>1, <1>2, <1>3

\* The ports and paths of the rendered config come from the document, its overrides
\* or the adapter, in that order.
THEOREM LayersInOrderAlways == Spec => []LayersInOrder
<1>1. RenderInv => LayersInOrder
  <2>. SUFFICES ASSUME RenderInv, Rendered PROVE LayersInOrder
    BY DEF LayersInOrder
  <2>. DEFINE ov == Overridden(doc)
              layers == <<doc.lan.ports, ov.ports, Lookup(doc.model).ports>>
              Named(radios, name) == {r.path : r \in {r \in Elements(radios) : r.name = name}}
  <2>1. doc \in Document /\ doc.wan # Nil /\ cfg = Config(doc)
    BY DocsAssumption DEF RenderInv, Rendered, Valid
  <2>2. /\ cfg.lan.ports = Ports(doc, doc.lan.ports)
        /\ cfg.wireless = IF doc.wireless = Nil THEN Nil ELSE Stocked(doc.wireless, Stock(doc))
    BY <2>1, ConfigFields
  <2>3. \E i \in 1..3 : /\ cfg.lan.ports = layers[i]
                        /\ \A j \in 1..i - 1 : layers[j] = <<>>
                        /\ i < 3 => layers[i] # <<>>
    <3>1. CASE doc.lan.ports # <<>>
      <4>1. cfg.lan.ports = layers[1]
        BY <2>2, <3>1 DEF Ports
      <4>. QED
        BY <3>1, <4>1
    <3>2. CASE doc.lan.ports = <<>> /\ ov.ports # <<>>
      <4>1. cfg.lan.ports = layers[2]
        BY <2>2, <3>2 DEF Ports
      <4>2. \A j \in 1..2 - 1 : layers[j] = <<>>
        <5>1. \A j \in 1..2 - 1 : j = 1
          OBVIOUS
        <5>2. layers[1] = <<>>
          BY <3>2
        <5>. HIDE DEF layers
        <5>. QED
          BY <5>1, <5>2
      <4>3. layers[2] # <<>>
        BY <3>2
      <4>. HIDE DEF layers
      <4>. QED
        BY <4>1, <4>2, <4>3
    <3>3. CASE doc.lan.ports = <<>> /\ ov.ports = <<>>
      <4>1. cfg.lan.ports = layers[3]
        BY <2>2, <3>3 DEF Ports
      <4>. QED
        BY <3>3, <4>1
    <3>. QED
      BY <3>1, <3>2, <3>3
  <2>4. ASSUME cfg.wireless # Nil, NEW i \in DOMAIN cfg.wireless.radios
        PROVE  LET r == doc.wireless.radios[i]
                   paths == << {r.path} \ {Nil}, Named(ov.radios, r.name),
                               Named(Lookup(doc.model).radios, r.name), {Nil} >>
               IN  \E k \in 1..4 : /\ cfg.wireless.radios[i].path \in paths[k]
                                  /\ \A j \in 1..k - 1 : paths[j] = {}
    <3>. DEFINE r == doc.wireless.radios[i]
                base == Lookup(doc.model).radios
                over == ov.radios
                path == cfg.wireless.radios[i].path
                paths == << {r.path} \ {Nil}, Named(over, r.name), Named(base, r.name), {Nil} >>
    <3>1. doc.wireless \in WirelessDoc /\ cfg.wireless = Stocked(doc.wireless, Stock(doc))
      BY <2>1, <2>2, <2>4 DEF Document, Optional
    <3>2. "radios" \in DOMAIN doc.wireless /\ doc.wireless.radios \in RadioList
      BY <3>1 DEF WirelessDoc
    <3>3. /\ i \in DOMAIN doc.wireless.radios
          /\ cfg.wireless.radios[i] = FromStock(r, Stock(doc))
      BY <3>1, <3>2, <2>4 DEF Stocked
    <3>4. "path" \in DOMAIN r /\ "htmode" \in DOMAIN r
      BY <3>2, <3>3, RadioHas
    <3>5. /\ Len(over) \in Nat /\ DOMAIN over = 1..Len(over)
          /\ Len(base) \in Nat /\ DOMAIN base = 1..Len(base)
      <4>1. CASE doc.ov = Nil
        BY <4>1, AdapterRadios DEF Overridden, Given
      <4>2. CASE doc.ov # Nil
        <5>1. doc.ov \in OverridesDoc
          BY <2>1, <4>2 DEF Document, Optional
        <5>. QED
          BY <4>2, <5>1, AdapterRadios DEF Overridden, Given, OverridesDoc, RadioList
      <4>. QED
        BY <4>1, <4>2
    <3>. HIDE DEF over, base
    <3>6. /\ \A n : Named(over, n) = {} <=> n \notin DOMAIN ByName(over)
          /\ \A n : Named(base, n) = {} <=> n \notin DOMAIN ByName(base)
      BY DEF ByName
    <3>7. Stock(doc) = Over(ByName(over), ByName(base))
      BY DEF Stock, MergeRadios, over, base
    <3>. HIDE DEF r
    <3>8. CASE r.path # Nil
      <4>1. path \in paths[1]
        BY <3>3, <3>8 DEF FromStock
      <4>. QED
        BY <4>1 DEF over, base, r
    <3>9. CASE r.path = Nil /\ r.name \in DOMAIN ByName(over)
      <4>1. path = ByName(over)[r.name].path
        BY <3>3, <3>4, <3>7, <3>9 DEF FromStock, Over
      <4>2. path \in paths[2] /\ paths[1] = {}
        BY <3>5, <3>9, <4>1, Found
      <4>. QED
        BY <4>2 DEF over, base, r
    <3>10. CASE r.path = Nil /\ r.name \notin DOMAIN ByName(over) /\ r.name \in DOMAIN ByName(base)
      <4>1. path = ByName(base)[r.name].path
        BY <3>3, <3>4, <3>7, <3>10 DEF FromStock, Over
      <4>2. path \in Named(base, r.name)
        BY <3>5, <3>10, <4>1, Found
      <4>3. path \in paths[3] /\ paths[1] = {} /\ paths[2] = {}
        BY <3>6, <3>10, <4>2
      <4>. QED
        BY <4>3 DEF over, base, r
    <3>11. CASE r.path = Nil /\ r.name \notin DOMAIN ByName(over) /\ r.name \notin DOMAIN ByName(base)
      <4>1. path = Nil
        BY <3>3, <3>7, <3>11 DEF FromStock, Over
      <4>2. path \in paths[4] /\ paths[1] = {} /\ paths[2] = {} /\ paths[3] = {}
        BY <3>6, <3>11, <4>1
      <4>. QED
        BY <4>2 DEF over, base, r
    <3>. QED
      BY <3>8, <3>9, <3>10, <3>11
  <2>. QED
    BY <2>3, <2>4 DEF LayersInOrder, Overridden
<1>. QED
  BY <1>1, RenderInductive, PTL

-----------------------------------------------------------------------------
(* Sections *)

VpnLanSections(c) ==
    IF c.vpnlan = Nil THEN {}
    ELSE {Section("interface", "vpnlan", [device |-> c.vpnlan.bridge, ip |-> c.vpnlan.ip, mask |-> MaskLen(c.vpnlan.len)])}
LEMMA Interfaces ==
    ASSUME NEW c
    PROVE OfType(Network(c), "interface") =
            {Section("interface", "loopback", [device |-> "lo"]),
             Section("interface", "lan", [device |-> c.lan.bridge, ip |-> c.lan.ip, mask |-> c.lan.len]),
             Section("interface", "wan", [device |-> c.wan])} \cup VpnLanSections(c)
<1>1. CASE c.vpnlan = Nil
  BY <1>1 DEF Network, OfType, Only, Section, VpnLanSections
<1>2. CASE c.vpnlan # Nil
  BY <1>2 DEF Network, OfType, Only, Section, VpnLanSections
<1>. QED
  BY <1>1, <1>2

LEMMA PoolSections ==
    ASSUME NEW c
    PROVE OfType(Dhcp(c), "dhcp") = {Pool("lan", c.pools.lan), Section("dhcp", "wan", [interface |-> "wan"])} \cup
          (IF c.vpnlan = Nil THEN {} ELSE {Pool("vpnlan", c.pools.vpnlan)})
  BY DEF Dhcp, OfType, Only, Section, Pool

-----------------------------------------------------------------------------
(* Subnets and leases *)

\* The provers compute a power of two whose exponent they are given.
LEMMA Powers ==
    \A n \in 0..32 : /\ 2^n \in Nat \ {0}
                     /\ n >= 8 => 2^n = 2^(n - 8) * 256
<1>. DEFINE p == [n \in Nat |-> 2^n]
<1>2. /\ p[0] = 1 /\ p[1] = 2 /\ p[2] = 4 /\ p[3] = 8 /\ p[4] = 16 /\ p[5] = 32 /\ p[6] = 64 /\ p[7] = 128
      /\ p[8] = 256 /\ p[9] = 512 /\ p[10] = 1024 /\ p[11] = 2048 /\ p[12] = 4096 /\ p[13] = 8192
      /\ p[14] = 16384 /\ p[15] = 32768 /\ p[16] = 65536 /\ p[17] = 131072 /\ p[18] = 262144
      /\ p[19] = 524288 /\ p[20] = 1048576 /\ p[21] = 2097152 /\ p[22] = 4194304 /\ p[23] = 8388608
      /\ p[24] = 16777216 /\ p[25] = 33554432 /\ p[26] = 67108864 /\ p[27] = 134217728
      /\ p[28] = 268435456 /\ p[29] = 536870912 /\ p[30] = 1073741824 /\ p[31] = 2147483648
      /\ p[32] = 4294967296
  OBVIOUS
<1>3. \A n \in Nat : 2^n = p[n]
  OBVIOUS
<1>. HIDE DEF p
<1>4. \A n \in 0..32 : p[n] \in Nat \ {0} /\ (n >= 8 => p[n] = p[n - 8] * 256)
  BY <1>2
<1>. SUFFICES ASSUME NEW n \in 0..32 PROVE 2^n \in Nat \ {0} /\ (n >= 8 => 2^n = 2^(n - 8) * 256)
  OBVIOUS
<1>5. 2^n = p[n]
  BY <1>3
<1>6. 2^n \in Nat \ {0}
  BY <1>4, <1>5, Zenon
<1>7. ASSUME n >= 8 PROVE 2^n = 2^(n - 8) * 256
  <2>1. n - 8 \in Nat
    BY <1>7
  <2>2. 2^(n - 8) = p[n - 8]
    BY <1>3, <2>1, Zenon
  <2>. QED
    BY <1>4, <1>5, <1>7, <2>2, Zenon
<1>. QED
  BY <1>6, <1>7
LEMMA Sizes ==
    ASSUME NEW len \in 0..32
    PROVE  Size(len) \in Nat \ {0} /\ (len <= 24 => Size(len) = Size(len + 8) * 256)
<1>. DEFINE n == 32 - len
<1>1. n \in 0..32 /\ (len <= 24 => n >= 8) /\ n - 8 = 32 - (len + 8)
  OBVIOUS
<1>2. Size(len) = 2^n /\ Size(len + 8) = 2^(32 - (len + 8))
  BY DEF Size
<1>. HIDE DEF n
<1>3. Size(len + 8) = 2^(n - 8)
  BY <1>1, <1>2, Zenon
<1>4. 2^n \in Nat \ {0} /\ (n >= 8 => 2^n = 2^(n - 8) * 256)
  BY <1>1, Powers, Zenon
<1>5. len <= 24 => 2^n = 2^(n - 8) * 256
  BY <1>1, <1>4, Zenon
<1>. QED
  BY <1>2, <1>3, <1>4, <1>5, Zenon

LEMMA QuotientUnique ==
    ASSUME NEW k \in Nat \ {0}, NEW a \in Nat, NEW q \in Nat
    PROVE  a \div k = q <=> q * k <= a /\ a < q * k + k
<1>. DEFINE r == a \div k
<1>1. r \in Nat /\ r * k <= a /\ a < r * k + k
  OBVIOUS
<1>. HIDE DEF r
<1>2. \A m, n \in Nat : m < n => m * k + k <= n * k
  <2>. SUFFICES ASSUME NEW m \in Nat, NEW n \in Nat, m < n PROVE m * k + k <= n * k
    OBVIOUS
  <2>1. n - (m + 1) \in Nat
    OBVIOUS
  <2>2. (n - (m + 1)) * k >= 0
    BY <2>1
  <2>3. (n - (m + 1)) * k = n * k - (m * k + k)
    OBVIOUS
  <2>4. n * k \in Int /\ m * k \in Int
    OBVIOUS
  <2>. QED
    BY <2>2, <2>3, <2>4
<1>3. r * k \in Int /\ q * k \in Int
  BY <1>1
<1>4. CASE r < q
  <2>1. r * k + k <= q * k
    BY <1>1, <1>2, <1>4
  <2>. QED
    BY <1>1, <1>3, <1>4, <2>1 DEF r
<1>5. CASE q < r
  <2>1. q * k + k <= r * k
    BY <1>1, <1>2, <1>5
  <2>. QED
    BY <1>1, <1>3, <1>5, <2>1 DEF r
<1>6. CASE r = q
  BY <1>1, <1>6 DEF r
<1>. QED
  BY <1>1, <1>4, <1>5, <1>6

\* A subnet is an interval.
LEMMA SubnetIsInterval ==
    ASSUME NEW a \in Nat, NEW ip \in Nat, NEW len \in 0..32
    PROVE  /\ First(ip, len) \in Nat
           /\ a \div Size(len) = ip \div Size(len)
              <=> First(ip, len) <= a /\ a < First(ip, len) + Size(len)
<1>. DEFINE k == Size(len)
            q == ip \div k
<1>1. k \in Nat \ {0}
  BY Sizes
<1>2. First(ip, len) = q * k
  BY DEF First
<1>. HIDE DEF k
<1>3. q \in Nat
  BY <1>1
<1>. HIDE DEF q
<1>4. a \div k = q <=> q * k <= a /\ a < q * k + k
  BY <1>1, <1>3, QuotientUnique
<1>5. q * k \in Nat
  BY <1>1, <1>3
<1>. QED
  BY <1>2, <1>4, <1>5 DEF q, k

\* An interval of the addresses of a subnet; and the range of a pool is one.
Within(range, ip, len) ==
    \E a, b \in Int : range = a..b /\ First(ip, len) <= a /\ b < First(ip, len) + Size(len)

LEMMA LeaseRange ==
    ASSUME NEW network, NEW dhcp, NEW name,
           NEW i \in OfType(network, "interface"), i.name = name,
           \A s \in OfType(network, "interface") : s.name = name => s = i,
           NEW p \in OfType(dhcp, "dhcp"), p.name = name,
           \A s \in OfType(dhcp, "dhcp") : s.name = name => s = p,
           i.o.ip \in Nat, i.o.mask \in 0..32, p.o.start \in Nat, p.o.limit \in Nat
    PROVE  Within(Leasable(network, dhcp, name), i.o.ip, i.o.mask)
<1>. DEFINE size == Size(i.o.mask)
            first == First(i.o.ip, i.o.mask)
            last == IF p.o.start + p.o.limit < size THEN p.o.start + p.o.limit - 1 ELSE size - 2
<1>1. /\ (CHOOSE s \in OfType(network, "interface") : s.name = name) = i
      /\ (CHOOSE s \in OfType(dhcp, "dhcp") : s.name = name) = p
  OBVIOUS
<1>2. Leasable(network, dhcp, name) = {first + n : n \in p.o.start..last}
  BY <1>1 DEF Leasable
<1>3. size \in Nat \ {0}
  BY Sizes
<1>a. i.o.ip \div size \in Nat
  BY <1>3
<1>4. first \in Nat
  BY <1>a, <1>3 DEF First
<1>. HIDE DEF size, first
<1>5. last \in Int /\ last < size
  BY <1>3
<1>6. {first + n : n \in p.o.start..last} = first + p.o.start .. first + last
  <2>1. \A n \in p.o.start..last : first + n \in first + p.o.start .. first + last
    BY <1>4, <1>5
  <2>2. ASSUME NEW a \in first + p.o.start .. first + last
        PROVE  a \in {first + n : n \in p.o.start..last}
    <3>1. a - first \in p.o.start..last /\ a = first + (a - first)
      BY <1>4, <1>5
    <3>. QED
      BY <3>1
  <2>. QED
    BY <2>1, <2>2
<1>7. first + p.o.start \in Int /\ first + last \in Int /\ first <= first + p.o.start /\ first + last < first + size
  BY <1>3, <1>4, <1>5
<1>. QED
  BY <1>2, <1>6, <1>7 DEF Within, size, first

LEMMA SomeOfRange ==
    ASSUME NEW a \in Int, NEW b \in Int
    PROVE  Some(a..b) \subseteq a..b
<1>1. CASE a > b
  BY <1>1 DEF Some
<1>2. CASE a <= b
  <2>. DEFINE lo == CHOOSE m \in a..b : \A n \in a..b : m <= n
              hi == CHOOSE m \in a..b : \A n \in a..b : m >= n
  <2>1. a \in a..b /\ b \in a..b /\ (\A n \in a..b : a <= n) /\ (\A n \in a..b : b >= n)
    BY <1>2
  <2>2. lo = a /\ hi = b
    BY <2>1
  <2>3. (a + b) \div 2 \in a..b
    BY <1>2
  <2>. QED
    BY <2>1, <2>2, <2>3 DEF Some
<1>. QED
  BY <1>1, <1>2

LEMMA PoolNumbers ==
    ASSUME NEW p \in Optional(PoolDoc), ValidPool(p)
    PROVE  PoolOf(p).start \in Nat /\ PoolOf(p).limit \in Nat
  BY DEF PoolOf, ValidPool, Optional, PoolDoc

\* What is leased on lan and on vpnlan lies in their subnets, in that of vpnlan with
\* the netmask that splitCIDR writes.
LEMMA Leased ==
    ASSUME RenderInv, Rendered
    PROVE  /\ Within(Leases("lan"), doc.lan.ip, doc.lan.len)
           /\ doc.vpnlan # Nil => Within(Leases("vpnlan"), doc.vpnlan.ip, MaskLen(doc.vpnlan.len))
<1>1. /\ doc \in Document /\ Valid(doc) /\ doc.wan # Nil /\ cfg = Config(doc)
      /\ files.network = Network(cfg) /\ files.dhcp = Dhcp(cfg)
  BY DocsAssumption DEF RenderInv, Rendered, Valid
<1>2. /\ cfg.lan.ip = doc.lan.ip /\ cfg.lan.len = doc.lan.len /\ cfg.pools = doc.pools
      /\ cfg.vpnlan = IF doc.vpnlan = Nil THEN Nil ELSE Bridged(doc.vpnlan, "br-vpnlan")
  BY <1>1, ConfigFields
<1>3. /\ doc.lan.ip \in Nat /\ doc.lan.len \in 0..32
      /\ doc.pools.lan \in Optional(PoolDoc) /\ doc.pools.vpnlan \in Optional(PoolDoc)
      /\ doc.vpnlan # Nil => doc.vpnlan \in VpnLanDoc
  BY <1>1 DEF Document, Optional
<1>4. /\ PoolOf(doc.pools.lan).start \in Nat /\ PoolOf(doc.pools.lan).limit \in Nat
      /\ PoolOf(doc.pools.vpnlan).start \in Nat /\ PoolOf(doc.pools.vpnlan).limit \in Nat
  BY <1>1, <1>3, PoolNumbers DEF Valid
<1>5. Within(Leases("lan"), doc.lan.ip, doc.lan.len)
  <2>. DEFINE i == Section("interface", "lan", [device |-> cfg.lan.bridge, ip |-> cfg.lan.ip, mask |-> cfg.lan.len])
              p == Pool("lan", cfg.pools.lan)
  <2>1. /\ i \in OfType(files.network, "interface") /\ i.name = "lan"
        /\ \A s \in OfType(files.network, "interface") : s.name = "lan" => s = i
    BY <1>1, Interfaces DEF Section, VpnLanSections
  <2>2. /\ p \in OfType(files.dhcp, "dhcp") /\ p.name = "lan"
        /\ \A s \in OfType(files.dhcp, "dhcp") : s.name = "lan" => s = p
    BY <1>1, PoolSections DEF Pool, Section
  <2>3. /\ i.o.ip = doc.lan.ip /\ i.o.mask = doc.lan.len
        /\ p.o.start \in Nat /\ p.o.limit \in Nat
    BY <1>2, <1>4 DEF Pool, Section
  <2>4. i.o.ip \in Nat /\ i.o.mask \in 0..32
    BY <1>3, <2>3
  <2>. HIDE DEF i, p
  <2>5. Within(Leasable(files.network, files.dhcp, "lan"), i.o.ip, i.o.mask)
    BY <2>1, <2>2, <2>3, <2>4, LeaseRange
  <2>. QED
    BY <2>3, <2>5 DEF Leases
<1>6. ASSUME doc.vpnlan # Nil
      PROVE  Within(Leases("vpnlan"), doc.vpnlan.ip, MaskLen(doc.vpnlan.len))
  <2>. DEFINE i == Section("interface", "vpnlan", [device |-> cfg.vpnlan.bridge, ip |-> cfg.vpnlan.ip,
                                                   mask |-> MaskLen(cfg.vpnlan.len)])
              p == Pool("vpnlan", cfg.pools.vpnlan)
  <2>1. /\ cfg.vpnlan # Nil /\ cfg.vpnlan.ip = doc.vpnlan.ip /\ cfg.vpnlan.len = doc.vpnlan.len
        /\ doc.vpnlan.ip \in Nat /\ MaskLen(doc.vpnlan.len) \in 0..32
    BY <1>1, <1>6, ConfigVpnLan
  <2>2. /\ i \in OfType(files.network, "interface") /\ i.name = "vpnlan"
        /\ \A s \in OfType(files.network, "interface") : s.name = "vpnlan" => s = i
    BY <1>1, <2>1, Interfaces DEF Section, VpnLanSections
  <2>3. /\ p \in OfType(files.dhcp, "dhcp") /\ p.name = "vpnlan"
        /\ \A s \in OfType(files.dhcp, "dhcp") : s.name = "vpnlan" => s = p
    BY <1>1, <2>1, PoolSections DEF Pool, Section
  <2>4. /\ i.o.ip = doc.vpnlan.ip /\ i.o.mask = MaskLen(doc.vpnlan.len)
        /\ p.o.start \in Nat /\ p.o.limit \in Nat
    BY <1>2, <1>4, <2>1 DEF Pool, Section
  <2>. HIDE DEF i, p
  <2>5. Within(Leasable(files.network, files.dhcp, "vpnlan"), i.o.ip, i.o.mask)
    BY <2>1, <2>2, <2>3, <2>4, LeaseRange
  <2>. QED
    BY <2>4, <2>5 DEF Leases
<1>. QED
  BY <1>5, <1>6

\* The netmask of vpnlan spans at most the addresses of its prefix.
LEMMA MaskInside ==
    ASSUME NEW len \in 0..32, MaskLen(len) >= len, NEW a \in Nat, NEW ip \in Nat,
           a \div Size(MaskLen(len)) = ip \div Size(MaskLen(len))
    PROVE  a \div Size(len) = ip \div Size(len)
<1>1. CASE MaskLen(len) = len
  BY <1>1
<1>2. CASE MaskLen(len) # len
  <2>1. MaskLen(len) = 24 /\ len + 8 \in 0..32 /\ len <= 24
    BY <1>2 DEF MaskLen
  <2>2. Size(24) = 256
    BY DEF Size
  <2>. DEFINE q == Size(len + 8)
  <2>3. q \in Nat \ {0}
    BY <2>1, Sizes
  <2>4. Size(len) = q * 256
    BY <2>1, Sizes
  <2>. HIDE DEF q
  <2>5. a \div (256 * q) = (a \div 256) \div q /\ ip \div (256 * q) = (ip \div 256) \div q
    BY <2>3
  <2>. QED
    BY <2>1, <2>2, <2>3, <2>4, <2>5
<1>. QED
  BY <1>1, <1>2

\* When the subnets are apart, the source of the rule for vpnlan covers what is
\* leased there and nothing of lan.
LEMMA Apart ==
    ASSUME RenderInv, Rendered, Separate(doc), doc.vpnlan # Nil
    PROVE  /\ Leases("lan") \subseteq Nat /\ Leases("vpnlan") \subseteq Nat
           /\ Leases("lan") \cap Leases("vpnlan") = {}
           /\ \A a \in Leases("lan") : ~InSource(a, VpnLanCidr(cfg))
           /\ \A a \in Leases("vpnlan") : InSource(a, VpnLanCidr(cfg))
<1>1. /\ doc \in Document /\ doc.wan # Nil /\ cfg = Config(doc)
  BY DocsAssumption DEF RenderInv, Rendered, Valid
<1>. DEFINE ip == doc.vpnlan.ip
            len == doc.vpnlan.len
            lan == First(doc.lan.ip, doc.lan.len)
            vpnlan == First(ip, len)
<1>2. /\ ip \in Nat /\ len \in 0..32 /\ MaskLen(len) \in 0..32
      /\ VpnLanCidr(cfg) = [ip |-> ip, len |-> len]
      /\ doc.lan.ip \in Nat /\ doc.lan.len \in 0..32
  BY <1>1, ConfigVpnLan DEF VpnLanCidr, Document
<1>3. lan \in Nat /\ vpnlan \in Nat /\ First(ip, MaskLen(len)) \in Nat
  BY <1>2, SubnetIsInterval
<1>4. Size(len) \in Nat /\ Size(doc.lan.len) \in Nat /\ Size(MaskLen(len)) \in Nat
  BY <1>2, Sizes
<1>5. /\ Leases("lan") \subseteq Nat
      /\ \A a \in Leases("lan") : lan <= a /\ a < lan + Size(doc.lan.len)
  <2>1. PICK a, b \in Int : Leases("lan") = a..b /\ lan <= a /\ b < lan + Size(doc.lan.len)
    BY Leased DEF Within
  <2>. HIDE DEF lan
  <2>. QED
    BY <1>3, <1>4, <2>1
<1>6. /\ Leases("vpnlan") \subseteq Nat
      /\ \A a \in Leases("vpnlan") : /\ First(ip, MaskLen(len)) <= a
                                     /\ a < First(ip, MaskLen(len)) + Size(MaskLen(len))
  <2>. DEFINE f == First(ip, MaskLen(len))
  <2>1. PICK a, b \in Int : Leases("vpnlan") = a..b /\ f <= a /\ b < f + Size(MaskLen(len))
    BY Leased DEF Within
  <2>2. f \in Nat
    BY <1>3
  <2>. HIDE DEF f
  <2>3. /\ Leases("vpnlan") \subseteq Nat
        /\ \A x \in Leases("vpnlan") : f <= x /\ x < f + Size(MaskLen(len))
    BY <1>4, <2>1, <2>2
  <2>. QED
    BY <2>3 DEF f
<1>7. ASSUME NEW a \in Leases("vpnlan") PROVE InSource(a, VpnLanCidr(cfg))
  <2>1. a \div Size(MaskLen(len)) = ip \div Size(MaskLen(len))
    <3>. DEFINE m == MaskLen(len)
    <3>1. a \in Nat /\ ip \in Nat /\ m \in 0..32 /\ First(ip, m) <= a /\ a < First(ip, m) + Size(m)
      BY <1>2, <1>6
    <3>. HIDE DEF m, ip
    <3>2. a \div Size(m) = ip \div Size(m)
      BY <3>1, SubnetIsInterval
    <3>. QED
      BY <3>2 DEF m, ip
  <2>2. MaskLen(len) >= len /\ a \in Nat
    BY <1>6 DEF Separate
  <2>3. a \div Size(len) = ip \div Size(len)
    BY <1>2, <2>1, <2>2, MaskInside
  <2>. QED
    BY <1>2, <2>3 DEF InSource, Size
<1>8. ASSUME NEW a \in Nat, InSource(a, VpnLanCidr(cfg)) PROVE vpnlan <= a /\ a < vpnlan + Size(len)
  <2>1. a \div Size(len) = ip \div Size(len)
    BY <1>2, <1>8 DEF InSource, Size
  <2>. QED
    BY <1>2, <2>1, SubnetIsInterval
<1>9. lan + Size(doc.lan.len) <= vpnlan \/ vpnlan + Size(len) <= lan
  BY DEF Separate
<1>. HIDE DEF lan, vpnlan, ip, len
<1>10. \A a \in Leases("lan") : ~InSource(a, VpnLanCidr(cfg))
  BY <1>3, <1>4, <1>5, <1>8, <1>9
<1>. QED
  BY <1>5, <1>6, <1>7, <1>10

-----------------------------------------------------------------------------
(* The files *)

ZoneNames(c) == {"lan", "wan"} \cup (IF c.vpnlan = Nil THEN {} ELSE {"vpnlan"})

LEMMA FirewallSections ==
    ASSUME NEW c
    PROVE  /\ \A z \in OfType(Firewall(c), "zone") : z.o.name = z.o.network
           /\ {z.o.network : z \in OfType(Firewall(c), "zone")} = ZoneNames(c)
           /\ {<<f.o.src, f.o.dest>> : f \in OfType(Firewall(c), "forwarding")} =
                  {<<"lan", "wan">>} \cup (IF c.vpnlan = Nil THEN {} ELSE {<<"vpnlan", "wan">>})
<1>1. CASE c.vpnlan = Nil
  BY <1>1 DEF Firewall, OfType, Only, Section, Zone, Forwarding, ZoneNames
<1>2. CASE c.vpnlan # Nil
  BY <1>2 DEF Firewall, OfType, Only, Section, Zone, Forwarding, ZoneNames
<1>. QED
  BY <1>1, <1>2

\* Whoever reaches anything is lan or vpnlan, and reaches the WAN.
LEMMA OnlyToWan ==
    ASSUME NEW c, NEW n
    PROVE  Reachable(Firewall(c), n) \subseteq {"wan"} /\ Reachable(Firewall(c), "wan") = {}
<1>1. \A f \in OfType(Firewall(c), "forwarding") : f.o.dest = "wan" /\ f.o.src # "wan"
  <2>1. \A f \in OfType(Firewall(c), "forwarding") :
            <<f.o.src, f.o.dest>> \in {<<"lan", "wan">>, <<"vpnlan", "wan">>}
    <3>1. \A f \in OfType(Firewall(c), "forwarding") :
            <<f.o.src, f.o.dest>> \in {<<g.o.src, g.o.dest>> : g \in OfType(Firewall(c), "forwarding")}
      OBVIOUS
    <3>. QED
      BY <3>1, FirewallSections, Zenon
  <2>. QED
    BY <2>1
<1>. QED
  BY <1>1, FirewallSections DEF Reachable

LEMMA DeviceSections ==
    ASSUME NEW c
    PROVE  {d.o.name : d \in OfType(Network(c), "device")} =
               {c.lan.bridge} \cup (IF c.vpnlan = Nil THEN {} ELSE {c.vpnlan.bridge})
<1>1. CASE c.vpnlan = Nil
  BY <1>1 DEF Network, OfType, Only, Section
<1>2. CASE c.vpnlan # Nil
  BY <1>2 DEF Network, OfType, Only, Section
<1>. QED
  BY <1>1, <1>2

LEMMA InterfaceNames ==
    ASSUME NEW c
    PROVE  {i.name : i \in OfType(Network(c), "interface")} = {"loopback"} \cup ZoneNames(c)
<1>. DEFINE all == OfType(Network(c), "interface")
<1>1. \A i \in all : i.name \in {"loopback"} \cup ZoneNames(c)
  BY Interfaces DEF Section, VpnLanSections, ZoneNames
<1>2. \A n \in {"loopback"} \cup ZoneNames(c) : \E i \in all : i.name = n
  <2>1. /\ Section("interface", "loopback", [device |-> "lo"]) \in all
        /\ Section("interface", "lan", [device |-> c.lan.bridge, ip |-> c.lan.ip, mask |-> c.lan.len]) \in all
        /\ Section("interface", "wan", [device |-> c.wan]) \in all
        /\ c.vpnlan # Nil =>
             Section("interface", "vpnlan", [device |-> c.vpnlan.bridge, ip |-> c.vpnlan.ip,
                                             mask |-> MaskLen(c.vpnlan.len)]) \in all
    BY Interfaces DEF VpnLanSections
  <2>2. \A t, n, o : Section(t, n, o).name = n
    BY DEF Section
  <2>. HIDE DEF all
  <2>. QED
    BY <2>1, <2>2 DEF ZoneNames
<1>. HIDE DEF all
<1>3. {i.name : i \in all} = {"loopback"} \cup ZoneNames(c)
  BY <1>1, <1>2
<1>. QED
  BY <1>3 DEF all

LEMMA PoolNames ==
    ASSUME NEW c
    PROVE  {d.o.interface : d \in OfType(Dhcp(c), "dhcp")} = ZoneNames(c)
<1>. DEFINE all == OfType(Dhcp(c), "dhcp")
<1>1. \A d \in all : d.o.interface \in ZoneNames(c)
  BY PoolSections DEF Section, Pool, ZoneNames
<1>2. \A n \in ZoneNames(c) : \E d \in all : d.o.interface = n
  <2>1. /\ Pool("lan", c.pools.lan) \in all /\ Pool("lan", c.pools.lan).o.interface = "lan"
        /\ c.vpnlan # Nil => /\ Pool("vpnlan", c.pools.vpnlan) \in all
                             /\ Pool("vpnlan", c.pools.vpnlan).o.interface = "vpnlan"
    BY PoolSections DEF Pool, Section
  <2>2. \E d \in all : d.o.interface = "wan"
    <3>1. Section("dhcp", "wan", [interface |-> "wan"]) \in all
      BY PoolSections
    <3>2. Section("dhcp", "wan", [interface |-> "wan"]).o.interface = "wan"
      BY DEF Section
    <3>. HIDE DEF all
    <3>. QED
      BY <3>1, <3>2
  <2>. HIDE DEF all
  <2>. QED
    BY <2>1, <2>2 DEF ZoneNames
<1>. HIDE DEF all
<1>3. {d.o.interface : d \in all} = ZoneNames(c)
  BY <1>1, <1>2
<1>. QED
  BY <1>3 DEF all

LEMMA DevicesNamed ==
    ASSUME NEW c, NEW i \in OfType(Network(c), "interface")
    PROVE  i.o.device \in {d.o.name : d \in OfType(Network(c), "device")} \cup {c.wan, "lo"}
<1>1. CASE c.vpnlan = Nil
  <2>1. i.o.device \in {"lo", c.wan, c.lan.bridge}
    BY <1>1, Interfaces DEF Section, VpnLanSections
  <2>. QED
    BY <2>1, DeviceSections
<1>2. CASE c.vpnlan # Nil
  <2>1. i.o.device \in {"lo", c.wan, c.lan.bridge, c.vpnlan.bridge}
    BY <1>2, Interfaces DEF Section, VpnLanSections
  <2>2. {c.lan.bridge, c.vpnlan.bridge} = {d.o.name : d \in OfType(Network(c), "device")}
    BY <1>2, DeviceSections
  <2>. QED
    BY <2>1, <2>2
<1>. QED
  BY <1>1, <1>2

\* The sections of the four files agree, whatever the document.
THEOREM FilesAgreeAlways == Spec => []FilesAgree
<1>1. RenderInv => FilesAgree
  <2>. SUFFICES ASSUME RenderInv, Rendered PROVE FilesAgree
    BY DEF FilesAgree
  <2>. DEFINE ifaces == OfType(files.network, "interface")
              devices == {d.o.name : d \in OfType(files.network, "device")} \cup {cfg.wan, "lo"}
              names == {i.name : i \in ifaces}
  <2>1. /\ doc \in Document /\ doc.wan # Nil /\ cfg = Config(doc)
        /\ files.network = Network(cfg) /\ files.firewall = Firewall(cfg) /\ files.dhcp = Dhcp(cfg)
    BY DocsAssumption DEF RenderInv, Rendered, Valid
  <2>2. cfg.vpnlan = Nil <=> doc.vpnlan = Nil
    BY <2>1, ConfigVpnLan
  <2>3. names = {"loopback"} \cup ZoneNames(cfg)
    BY <2>1, InterfaceNames
  <2>4. \A i \in ifaces : i.o.device \in devices
    BY <2>1, DevicesNamed
  <2>5. {z.o.network : z \in OfType(files.firewall, "zone")} = names \ {"loopback"}
    BY <2>1, <2>3, FirewallSections DEF ZoneNames
  <2>6. {d.o.interface : d \in OfType(files.dhcp, "dhcp")} = names \ {"loopback"}
    BY <2>1, <2>3, PoolNames DEF ZoneNames
  <2>7. /\ \A n \in names : Reachable(files.firewall, n) \subseteq {"wan"}
        /\ Reachable(files.firewall, "wan") = {}
    BY <2>1, OnlyToWan
  <2>8. "vpnlan" \in names /\ Separate(doc) => Leases("lan") \cap Leases("vpnlan") = {}
    BY <2>2, <2>3, Apart DEF ZoneNames
  <2>. QED
    BY <2>4, <2>5, <2>6, <2>7, <2>8 DEF FilesAgree
<1>. QED
  BY <1>1, RenderInductive, PTL

-----------------------------------------------------------------------------
(* Wireless *)

RadioSection(r) == Section("wifi-device", r.name, [path |-> r.path, htmode |-> r.htmode])
SsidSection(ssids, i) ==
    Section("wifi-iface", IfaceName(ssids, i),
            [device |-> ssids[i].radio, network |-> ssids[i].network, ssid |-> ssids[i].ssid])

LEMMA WirelessOptions ==
    /\ \A r : /\ RadioSection(r).type = "wifi-device" /\ RadioSection(r).name = r.name
          /\ RadioSection(r).o.path = r.path
    /\ \A ssids, i : LET s == SsidSection(ssids, i) IN
        /\ s.type = "wifi-iface" /\ s.name = IfaceName(ssids, i)
        /\ s.o.device = ssids[i].radio /\ s.o.network = ssids[i].network /\ s.o.ssid = ssids[i].ssid
  BY DEF RadioSection, SsidSection, Section

LEMMA WirelessSections ==
    ASSUME NEW c, c.wireless # Nil,
           NEW n \in Nat, DOMAIN c.wireless.radios = 1..n,
           NEW m \in Nat, DOMAIN c.wireless.ssids = 1..m
    PROVE  /\ Len(WirelessFile(c)) = n + m /\ DOMAIN WirelessFile(c) = 1..n + m
           /\ \A i \in 1..n : WirelessFile(c)[i] = RadioSection(c.wireless.radios[i])
           /\ \A i \in 1..m : WirelessFile(c)[n + i] = SsidSection(c.wireless.ssids, i)
<1>. DEFINE radios == [i \in 1..n |-> RadioSection(c.wireless.radios[i])]
            ssids == [i \in 1..m |-> SsidSection(c.wireless.ssids, i)]
            any == {radios[i] : i \in 1..n} \cup {ssids[i] : i \in 1..m}
<1>1. WirelessFile(c) = radios \o ssids
  BY DEF WirelessFile, RadioSection, SsidSection
<1>2. radios \in Seq(any) /\ ssids \in Seq(any) /\ Len(radios) = n /\ Len(ssids) = m
  OBVIOUS
<1>3. /\ \A i \in 1..n : radios[i] = RadioSection(c.wireless.radios[i])
      /\ \A i \in 1..m : ssids[i] = SsidSection(c.wireless.ssids, i)
  OBVIOUS
<1>. HIDE DEF radios, ssids, any
<1>4. /\ radios \o ssids \in Seq(any) /\ Len(radios \o ssids) = n + m
      /\ \A i \in 1..n + m : (radios \o ssids)[i] = IF i <= n THEN radios[i] ELSE ssids[i - n]
  BY <1>2, ConcatProperties
<1>5. \A i \in 1..m : n + i \in 1..n + m /\ ~(n + i <= n) /\ (n + i) - n = i
  OBVIOUS
<1>. QED
  BY <1>1, <1>3, <1>4, <1>5

\* No two SSIDs have sections of one name.
LEMMA NamesDiffer ==
    ASSUME NEW ssids, NEW m \in Nat, NEW i \in 1..m, NEW j \in 1..m, i < j
    PROVE  IfaceName(ssids, i) # IfaceName(ssids, j)
<1>1. CASE ssids[i].radio = ssids[j].radio
  <2>1. IfaceName(ssids, j) = <<"wifinet", ssids[j].radio, j - 1>>
    BY <1>1 DEF IfaceName
  <2>2. IfaceName(ssids, i) \in {<<"wifinet", ssids[i].radio, i - 1>>, <<"default", ssids[i].radio>>}
    BY DEF IfaceName
  <2>. QED
    BY <2>1, <2>2
<1>2. CASE ssids[i].radio # ssids[j].radio
  BY <1>2 DEF IfaceName
<1>. QED
  BY <1>1, <1>2

\* Every SSID on a declared radio and an existing network comes up.
THEOREM SsidsOnAirAlways == Spec => []SsidsOnAir
<1>1. RenderInv => SsidsOnAir
  <2>. SUFFICES ASSUME RenderInv, Rendered, cfg.wireless # Nil,
                       NEW s \in Elements(doc.wireless.ssids),
                       \E r \in Elements(cfg.wireless.radios) : r.name = s.radio /\ r.path # Nil,
                       s.network = "vpnlan" => doc.vpnlan # Nil
                PROVE  s.ssid \in OnAir(files.wireless, files.network)
    BY DEF SsidsOnAir
  <2>. DEFINE w == doc.wireless
              f == files.wireless
              radios == cfg.wireless.radios
  <2>1. /\ doc \in Document /\ Valid(doc) /\ doc.wan # Nil /\ cfg = Config(doc)
        /\ files.network = Network(cfg) /\ f = WirelessFile(cfg)
    BY DocsAssumption DEF RenderInv, Rendered, Valid
  <2>2. w # Nil /\ cfg.wireless = Stocked(w, Stock(doc))
    BY <2>1, ConfigFields
  <2>3. w \in WirelessDoc
    BY <2>1, <2>2 DEF Document, Optional
  <2>4. PICK n \in Nat, m \in Nat : DOMAIN w.radios = 1..n /\ Len(w.radios) = n
                                    /\ DOMAIN w.ssids = 1..m /\ Len(w.ssids) = m
    BY <2>3 DEF WirelessDoc, RadioList
  <2>5. DOMAIN radios = 1..n /\ cfg.wireless.ssids = w.ssids
        /\ \A i \in 1..n : radios[i] = FromStock(w.radios[i], Stock(doc))
    <3>. DEFINE stocked == [i \in DOMAIN w.radios |-> FromStock(w.radios[i], Stock(doc))]
    <3>1. cfg.wireless = [w EXCEPT !.radios = stocked]
      BY <2>2 DEF Stocked
    <3>2. DOMAIN w = {"radios", "ssids"}
      BY <2>3 DEF WirelessDoc
    <3>3. DOMAIN stocked = 1..n /\ \A i \in 1..n : stocked[i] = FromStock(w.radios[i], Stock(doc))
      BY <2>4
    <3>. HIDE DEF w, stocked
    <3>4. radios = stocked /\ cfg.wireless.ssids = w.ssids
      BY <3>1, <3>2
    <3>. QED
      BY <3>3, <3>4
  <2>7. /\ Len(f) = n + m /\ DOMAIN f = 1..n + m
        /\ \A i \in 1..n : f[i] = RadioSection(radios[i])
        /\ \A i \in 1..m : f[n + i] = SsidSection(w.ssids, i)
    BY <2>1, <2>4, <2>5, WirelessSections
  <2>8. PICK k \in 1..m : s = w.ssids[k]
    BY <2>4 DEF Elements
  <2>9. n + k \in DOMAIN f /\ f[n + k].type = "wifi-iface"
    <3>1. f[n + k] = SsidSection(w.ssids, k)
      BY <2>7
    <3>2. n + k \in 1..n + m
      OBVIOUS
    <3>. QED
      BY <2>7, <3>1, <3>2, WirelessOptions
  <2>10. \A j \in n + k + 1..Len(f) : f[j].name # f[n + k].name
    <3>. SUFFICES ASSUME NEW j \in n + k + 1..Len(f) PROVE f[j].name # f[n + k].name
      OBVIOUS
    <3>1. j - n \in 1..m /\ k < j - n /\ n + (j - n) = j
      BY <2>7
    <3>2. f[j].name = IfaceName(w.ssids, j - n) /\ f[n + k].name = IfaceName(w.ssids, k)
      BY <2>7, <3>1, WirelessOptions
    <3>. QED
      BY <3>1, <3>2, NamesDiffer
  <2>11. \E r \in OfType(f, "wifi-device") : r.name = f[n + k].o.device /\ r.o.path # Nil
    <3>1. PICK h \in 1..n : s.radio = radios[h].name /\ radios[h].path # Nil
      <4>1. PICK r \in Elements(radios) : r.name = s.radio /\ r.path # Nil
        OBVIOUS
      <4>2. Len(radios) = n
        BY <2>5
      <4>. QED
        BY <4>1, <4>2 DEF Elements
    <3>2. /\ h \in DOMAIN f /\ f[h].type = "wifi-device" /\ f[h].name = s.radio
          /\ f[h].o.path # Nil
          /\ f[n + k].o.device = s.radio
      <4>1. h \in DOMAIN f
        BY <2>7
      <4>2. f[h].type = "wifi-device" /\ f[h].name = radios[h].name /\ f[h].o.path = radios[h].path
        <5>1. f[h] = RadioSection(radios[h])
          BY <2>7
        <5>. QED
          BY <5>1, WirelessOptions
      <4>3. f[n + k].o.device = s.radio
        BY <2>7, <2>8, WirelessOptions
      <4>. QED
        BY <3>1, <4>1, <4>2, <4>3
    <3>. QED
      BY <3>2 DEF OfType
  <2>12. \E i \in OfType(files.network, "interface") : i.name = f[n + k].o.network
    <3>1. s.network \in {"lan", "vpnlan"}
      BY <2>1, <2>2 DEF Valid, ValidWireless
    <3>2. s.network \in ZoneNames(cfg)
      BY <2>1, <3>1, ConfigVpnLan DEF ZoneNames
    <3>3. f[n + k].o.network = s.network
      BY <2>7, <2>8, WirelessOptions
    <3>4. s.network \in {i.name : i \in OfType(files.network, "interface")}
      BY <2>1, <3>2, InterfaceNames
    <3>. QED
      BY <3>3, <3>4
  <2>13. f[n + k].o.ssid = s.ssid
    BY <2>7, <2>8, WirelessOptions
  <2>. HIDE DEF f
  <2>14. s.ssid \in OnAir(f, files.network)
    BY <2>9, <2>10, <2>11, <2>12, <2>13 DEF OnAir
  <2>. QED
    BY <2>14 DEF f
<1>. QED
  BY <1>1, RenderInductive, PTL

-----------------------------------------------------------------------------
(* The rules *)

\* A place of the rules sends a connection to t; a place has one rule at most.
Says(place, x, t) == \E r \in place : Matches(r, x, x.ips) /\ r.tag = t
Single(place) == \A r, q \in place : r = q

\* What the rule of a set of entries sends, and to where: by address, by domain.
LEMMA IpSays ==
    ASSUME NEW E, NEW tag, NEW x, NEW t
    PROVE  /\ Says(IpRule(E, tag), x, t) <=> t = tag /\ \E e \in E : e.of \in x.ips
           /\ Single(IpRule(E, tag))
<1>. DEFINE r == [Anything EXCEPT !.ip = E, !.tag = tag]
<1>1. /\ r.inb = {} /\ r.source = {} /\ r.net = {} /\ r.port = {} /\ r.domain = {}
      /\ r.ip = E /\ r.tag = tag
  BY DEF Anything
<1>2. IpRule(E, tag) = IF E # {} THEN {r} ELSE {}
  BY DEF IpRule, When
<1>. HIDE DEF r
<1>. QED
  BY <1>1, <1>2 DEF Says, Single, Matches

LEMMA DomainSays ==
    ASSUME NEW E, NEW tag, NEW x, NEW t
    PROVE  /\ Says(DomainRule(E, tag), x, t) <=> t = tag /\ \E e \in E : e.of \in x.doms
           /\ Single(DomainRule(E, tag))
<1>. DEFINE r == [Anything EXCEPT !.domain = E, !.tag = tag]
<1>1. /\ r.inb = {} /\ r.source = {} /\ r.net = {} /\ r.port = {} /\ r.ip = {}
      /\ r.domain = E /\ r.tag = tag
  BY DEF Anything
<1>2. DomainRule(E, tag) = IF E # {} THEN {r} ELSE {}
  BY DEF DomainRule, When
<1>. HIDE DEF r
<1>. QED
  BY <1>1, <1>2 DEF Says, Single, Matches

\* The first four groups, the raw rules, and the last rule of all.
FixedAnswer(c, x, t) ==
    LET F == FixedRules(c) IN
    /\ Says(F[1], x, t) <=> t = "dns-out" /\ x.inb = "tproxy-in" /\ x.port = 53
    /\ Says(F[2], x, t) <=> /\ t = "vless-out" /\ c.vpnlan # Nil /\ c.routing.via
                            /\ x.src # Nil /\ InSource(x.src, VpnLanCidr(c))
    /\ Says(F[3], x, t) <=> t = "block" /\ c.routing.quic /\ x.net = "udp" /\ x.port = 443
    /\ Says(F[4], x, t) <=> t = "direct" /\ "private" \in x.ips

LEMMA FixedSays ==
    ASSUME NEW c, NEW x, NEW t
    PROVE  FixedAnswer(c, x, t)
<1>. DEFINE F == FixedRules(c)
            r1 == [Anything EXCEPT !.inb = {"tproxy-in"}, !.port = {53}, !.tag = "dns-out"]
            r2 == [Anything EXCEPT !.source = {VpnLanCidr(c)}, !.tag = "vless-out"]
            r3 == [Anything EXCEPT !.net = {"udp"}, !.port = {443}, !.tag = "block"]
<1>1. /\ F[1] = {r1}
      /\ F[2] = IF c.vpnlan # Nil /\ c.routing.via THEN {r2} ELSE {}
      /\ F[3] = IF c.routing.quic THEN {r3} ELSE {}
      /\ F[4] = IpRule({Entry("ip", "private")}, "direct")
  BY DEF FixedRules, When
<1>2. /\ r1.source = {} /\ r1.net = {} /\ r1.domain = {} /\ r1.ip = {}
      /\ r1.inb = {"tproxy-in"} /\ r1.port = {53} /\ r1.tag = "dns-out"
  BY DEF Anything
<1>3. /\ r2.inb = {} /\ r2.net = {} /\ r2.port = {} /\ r2.domain = {} /\ r2.ip = {}
      /\ r2.source = {VpnLanCidr(c)} /\ r2.tag = "vless-out"
  BY DEF Anything
<1>4. /\ r3.inb = {} /\ r3.source = {} /\ r3.domain = {} /\ r3.ip = {}
      /\ r3.net = {"udp"} /\ r3.port = {443} /\ r3.tag = "block"
  BY DEF Anything
<1>. HIDE DEF F, r1, r2, r3
<1>5. Says(F[1], x, t) <=> t = "dns-out" /\ x.inb = "tproxy-in" /\ x.port = 53
  BY <1>1, <1>2 DEF Says, Matches
<1>6. Says(F[2], x, t) <=> /\ t = "vless-out" /\ c.vpnlan # Nil /\ c.routing.via
                           /\ x.src # Nil /\ InSource(x.src, VpnLanCidr(c))
  BY <1>1, <1>3 DEF Says, Matches
<1>7. Says(F[3], x, t) <=> t = "block" /\ c.routing.quic /\ x.net = "udp" /\ x.port = 443
  BY <1>1, <1>4 DEF Says, Matches
<1>8. Says(F[4], x, t) <=> t = "direct" /\ "private" \in x.ips
  <2>. DEFINE private == Entry("ip", "private")
  <2>1. private.of = "private"
    BY DEF Entry
  <2>2. F[4] = IpRule({private}, "direct")
    BY <1>1
  <2>. HIDE DEF private
  <2>3. /\ Says(IpRule({private}, "direct"), x, t) <=> t = "direct" /\ \E e \in {private} : e.of \in x.ips
        /\ Single(IpRule({private}, "direct"))
    BY IpSays
  <2>. QED
    BY <2>1, <2>2, <2>3
<1>. QED
  BY <1>5, <1>6, <1>7, <1>8 DEF F, FixedAnswer

LEMMA RawSays ==
    ASSUME NEW raw \in RawDoc, NEW x, NEW t
    PROVE  /\ Says({RuleFromMap(raw)}, x, t) <=> Matches(RuleFromMap(raw), x, x.ips) /\ t = raw.tag
           /\ Single({RuleFromMap(raw)})
<1>1. RuleFromMap(raw).tag = raw.tag
  BY DEF RuleFromMap, Anything, RawDoc
<1>. QED
  BY <1>1 DEF Says, Single

Sends(place, x, t, u) == (Says(place, x, t) <=> t = u) /\ Single(place)

LEMMA LastSays ==
    ASSUME NEW profile, profile # "full-tunnel", NEW x, x.net \in {"tcp", "udp"}, NEW t
    PROVE  Sends(LastRule(profile)[1], x, t, "direct")
<1>. DEFINE r == [Anything EXCEPT !.net = {"tcp", "udp"}, !.tag = "direct"]
<1>1. LastRule(profile)[1] = {r}
  BY DEF LastRule
<1>2. /\ r.inb = {} /\ r.source = {} /\ r.port = {} /\ r.domain = {} /\ r.ip = {}
      /\ r.net = {"tcp", "udp"} /\ r.tag = "direct"
  BY DEF Anything
<1>. HIDE DEF r
<1>. QED
  BY <1>1, <1>2 DEF Sends, Says, Single, Matches

\* A sequence, by its places; and two of them in a row.
Places(s, n) == n \in Nat /\ s = [i \in 1..n |-> s[i]]

Row(u, p, q, s, t) ==
    /\ Places(u, p + q)
    /\ \A i \in 1..p : u[i] = s[i]
    /\ \A i \in 1..q : u[p + i] = t[i]

LEMMA PlacesSeq ==
    ASSUME NEW g, NEW n, Places(g, n), NEW any, \A i \in 1..n : g[i] \in any
    PROVE  g \in Seq(any) /\ Len(g) = n
<1>1. n \in Nat /\ g = [i \in 1..n |-> g[i]]
  BY DEF Places
<1>2. g \in [1..n -> any] /\ DOMAIN g = 1..n
  BY <1>1, Zenon
<1>3. g \in Seq(any)
  BY <1>1, <1>2
<1>. QED
  BY <1>1, <1>2, <1>3

LEMMA InARow ==
    ASSUME NEW s, NEW t, NEW p, NEW q, Places(s, p), Places(t, q)
    PROVE  Row(s \o t, p, q, s, t)
<1>. DEFINE any == {s[i] : i \in 1..p} \cup {t[i] : i \in 1..q}
<1>1. /\ p \in Nat /\ q \in Nat /\ s = [i \in 1..p |-> s[i]] /\ t = [i \in 1..q |-> t[i]]
  BY DEF Places
<1>2. (\A i \in 1..p : s[i] \in any) /\ (\A i \in 1..q : t[i] \in any)
  OBVIOUS
<1>. HIDE DEF any
<1>5. s \in Seq(any) /\ Len(s) = p /\ t \in Seq(any) /\ Len(t) = q
  BY <1>2, PlacesSeq
<1>6. /\ s \o t \in Seq(any) /\ Len(s \o t) = p + q
      /\ \A i \in 1..p + q : (s \o t)[i] = IF i <= p THEN s[i] ELSE t[i - p]
  BY <1>5, ConcatProperties
<1>7. s \o t = [i \in 1..p + q |-> (s \o t)[i]] /\ p + q \in Nat
  BY <1>1, <1>6
<1>8. /\ \A i \in 1..p : i \in 1..p + q /\ i <= p
      /\ \A i \in 1..q : p + i \in 1..p + q /\ ~(p + i <= p) /\ (p + i) - p = i
  BY <1>1
<1>. QED
  BY <1>6, <1>7, <1>8 DEF Places, Row

\* Where each group of a config's rules is, with n lists and m raw rules.
Arranged(R, c, f, n, m) ==
    LET r == c.routing IN
    /\ Places(R, 12 + n + m) /\ DOMAIN R = 1..12 + n + m
    /\ \A i \in 1..4 : R[i] = FixedRules(c)[i] /\ R[4 + i] = ForcedRules(r)[i]
    /\ R[9] = DomainRule(Domains(r.direct), "direct")
    /\ R[10] = IpRule(Ips(r.direct) \ Geoip(r.direct), "direct")
    /\ \A i \in 1..n : R[10 + i] = ListRule(r.lists[i], f)
    /\ R[11 + n] = IpRule(Geoip(r.direct), "direct")
    /\ \A i \in 1..m : R[11 + n + i] = {RuleFromMap(r.raw[i])}
    /\ R[12 + n + m] = LastRule(r.profile)[1]

LEMMA RulePlaces ==
    ASSUME NEW c, NEW f, NEW n \in Nat, NEW m \in Nat,
           Places(c.routing.lists, n), Places(c.routing.raw, m)
    PROVE  Arranged(Rules(c, f), c, f, n, m)
<1>. DEFINE r == c.routing
            F == FixedRules(c)
            V == ForcedRules(r)
            D == << DomainRule(Domains(r.direct), "direct"), IpRule(Ips(r.direct) \ Geoip(r.direct), "direct") >>
            L == ListRules(r.lists, f)
            G == << IpRule(Geoip(r.direct), "direct") >>
            W == RawRules(r.raw)
            Z == LastRule(r.profile)
            s1 == F \o V
            s2 == s1 \o D
            s3 == s2 \o L
            s4 == s3 \o G
            s5 == s4 \o W
            s6 == s5 \o Z
<1>1. Rules(c, f) = s6
  BY DEF Rules
<1>2. Places(F, 4)
  BY DEF FixedRules, Places
<1>3. Places(V, 4)
  BY DEF ForcedRules, Places
<1>4. Places(D, 2) /\ D[1] = DomainRule(Domains(r.direct), "direct")
      /\ D[2] = IpRule(Ips(r.direct) \ Geoip(r.direct), "direct")
  BY DEF Places
<1>5. Places(L, n) /\ \A i \in 1..n : L[i] = ListRule(r.lists[i], f)
  BY DEF Places, ListRules
<1>6. Places(G, 1) /\ G[1] = IpRule(Geoip(r.direct), "direct")
  BY DEF Places
<1>7. Places(W, m) /\ \A i \in 1..m : W[i] = {RuleFromMap(r.raw[i])}
  BY DEF Places, RawRules
<1>8. Places(Z, 1) /\ Z[1] = LastRule(r.profile)[1]
  BY DEF Places, LastRule
<1>. HIDE DEF F, V, D, L, G, W, Z
<1>9. /\ Places(s1, 8)
      /\ \A i \in 1..4 : s1[i] = F[i] /\ s1[4 + i] = V[i]
  <2>1. Row(s1, 4, 4, F, V)
    BY <1>2, <1>3, InARow
  <2>. HIDE DEF s1
  <2>. QED
    BY <2>1 DEF Row
<1>. HIDE DEF s1
<1>10. /\ Places(s2, 10)
       /\ \A i \in 1..8 : s2[i] = s1[i]
       /\ s2[9] = D[1] /\ s2[10] = D[2]
  <2>1. Row(s2, 8, 2, s1, D)
    BY <1>9, <1>4, InARow
  <2>. HIDE DEF s2
  <2>. QED
    BY <2>1 DEF Row
<1>. HIDE DEF s2
<1>11. /\ Places(s3, 10 + n)
       /\ \A i \in 1..10 : s3[i] = s2[i]
       /\ \A i \in 1..n : s3[10 + i] = L[i]
  <2>1. Row(s3, 10, n, s2, L)
    BY <1>10, <1>5, InARow
  <2>. HIDE DEF s3
  <2>. QED
    BY <2>1 DEF Row
<1>. HIDE DEF s3
<1>12. /\ Places(s4, 11 + n)
       /\ \A i \in 1..10 + n : s4[i] = s3[i]
       /\ s4[11 + n] = G[1]
  <2>1. Row(s4, 10 + n, 1, s3, G)
    BY <1>11, <1>6, InARow
  <2>. HIDE DEF s4
  <2>. QED
    BY <2>1 DEF Row
<1>. HIDE DEF s4
<1>13. /\ Places(s5, 11 + n + m)
       /\ \A i \in 1..11 + n : s5[i] = s4[i]
       /\ \A i \in 1..m : s5[11 + n + i] = W[i]
  <2>1. Row(s5, 11 + n, m, s4, W)
    BY <1>12, <1>7, InARow
  <2>. HIDE DEF s5
  <2>. QED
    BY <2>1 DEF Row
<1>. HIDE DEF s5
<1>14. /\ Places(s6, 12 + n + m)
       /\ \A i \in 1..11 + n + m : s6[i] = s5[i]
       /\ s6[12 + n + m] = Z[1]
  <2>1. Row(s6, 11 + n + m, 1, s5, Z)
    BY <1>13, <1>8, InARow
  <2>. HIDE DEF s6
  <2>. QED
    BY <2>1 DEF Row
<1>. HIDE DEF s6
<1>15. \A i \in 1..8 : s6[i] = s1[i]
  BY <1>10, <1>11, <1>12, <1>13, <1>14
<1>16. s6[9] = D[1] /\ s6[10] = D[2]
  BY <1>10, <1>11, <1>12, <1>13, <1>14
<1>17. \A i \in 1..n : s6[10 + i] = L[i]
  BY <1>11, <1>12, <1>13, <1>14
<1>18. s6[11 + n] = G[1]
  BY <1>12, <1>13, <1>14
<1>19. \A i \in 1..m : s6[11 + n + i] = W[i]
  BY <1>13, <1>14
<1>20. DOMAIN s6 = 1..12 + n + m
  BY <1>14 DEF Places
<1>21. s6[12 + n + m] = LastRule(r.profile)[1]
  BY <1>8, <1>14
<1>22. \A i \in 1..4 : s6[i] = F[i] /\ s6[4 + i] = V[i]
  BY <1>9, <1>15
<1>. HIDE DEF r
<1>23. /\ DOMAIN s6 = 1..12 + n + m
       /\ \A i \in 1..4 : s6[i] = FixedRules(c)[i] /\ s6[4 + i] = ForcedRules(r)[i]
       /\ s6[9] = DomainRule(Domains(r.direct), "direct")
       /\ s6[10] = IpRule(Ips(r.direct) \ Geoip(r.direct), "direct")
  BY <1>4, <1>16, <1>20, <1>22 DEF F, V
<1>24. /\ \A i \in 1..n : s6[10 + i] = ListRule(r.lists[i], f)
       /\ s6[11 + n] = IpRule(Geoip(r.direct), "direct")
       /\ \A i \in 1..m : s6[11 + n + i] = {RuleFromMap(r.raw[i])}
  BY <1>5, <1>6, <1>7, <1>17, <1>18, <1>19
<1>. QED
  BY <1>1, <1>14, <1>21, <1>23, <1>24 DEF Arranged, r

\* The addresses looked at are leased ones.
LEMMA LeasedSome ==
    ASSUME RenderInv, Rendered
    PROVE  /\ Some(Leases("lan")) \subseteq Leases("lan")
           /\ doc.vpnlan # Nil => Some(Leases("vpnlan")) \subseteq Leases("vpnlan")
<1>1. ASSUME NEW s, NEW ip, NEW len, Within(s, ip, len) PROVE Some(s) \subseteq s
  BY <1>1, SomeOfRange DEF Within
<1>. QED
  BY <1>1, Leased

\* The connections of clients and of the router itself, as the rules see them.
SeenConns == {AsSeen(y) : y \in FromClients \cup FromRouter}

\* What sniffing leaves of a connection.
LEMMA SeenParts ==
    ASSUME RenderInv, Rendered, NEW y \in FromClients \cup FromRouter
    PROVE  /\ AsSeen(y).inb = y.inb /\ AsSeen(y).src = y.src /\ AsSeen(y).net = y.net
           /\ AsSeen(y).port = y.port /\ AsSeen(y).doms = y.doms
           /\ AsSeen(y).ips = IF SeesAddress(cfg, y) THEN y.ips ELSE {}
           /\ y.net \in {"tcp", "udp"}
           /\ y.inb # "tproxy-in" => y.src = Nil /\ y \in FromRouter
           /\ y.inb = "tproxy-in" => y \in FromClients
           /\ y.src = Nil \/ \/ y.src \in Leases("lan")
                             \/ doc.vpnlan # Nil /\ y.src \in Leases("vpnlan")
           /\ y \in From("lan") => y.src \in Leases("lan")
           /\ \E z \in Conns : y.ips = z.ips /\ y.doms = z.doms
<1>1. ASSUME NEW z \in Conns
      PROVE  /\ DOMAIN z = {"inb", "src", "net", "port", "ips", "doms", "proto"}
             /\ z = [k \in {"inb", "src", "net", "port", "ips", "doms", "proto"} |-> z[k]]
             /\ z.src = Nil /\ z.net \in {"tcp", "udp"}
  BY ConnsAssumption
<1>2. ASSUME NEW z, NEW S,
             DOMAIN z = {"inb", "src", "net", "port", "ips", "doms", "proto"}, S = [z EXCEPT !.ips = IF SeesAddress(cfg, z) THEN @ ELSE {}]
      PROVE  /\ S.inb = z.inb /\ S.src = z.src /\ S.net = z.net /\ S.port = z.port /\ S.doms = z.doms
             /\ S.ips = IF SeesAddress(cfg, z) THEN z.ips ELSE {}
  BY <1>2
<1>3. CASE y \in FromRouter
  <2>1. y \in Conns /\ y.inb = "socks-in"
    BY <1>3 DEF FromRouter
  <2>2. y \notin From("lan")
    <3>1. ASSUME NEW z \in Conns, NEW a, z.inb = "tproxy-in" PROVE y # [z EXCEPT !.src = a]
      BY <1>1, <2>1, <3>1
    <3>. QED
      BY <3>1 DEF From
  <2>. QED
    BY <1>1, <1>2, <1>3, <2>1, <2>2 DEF AsSeen
<1>4. CASE y \in FromClients
  <2>1. PICK z \in Conns, a \in Leases("lan") \cup Leases("vpnlan") :
                /\ z.inb = "tproxy-in" /\ y = [z EXCEPT !.src = a]
                /\ \/ a \in Leases("lan")
                   \/ doc.vpnlan # Nil /\ a \in Leases("vpnlan")
    <3>1. CASE y \in From("lan")
      <4>1. PICK z \in Conns, a \in Some(Leases("lan")) : z.inb = "tproxy-in" /\ y = [z EXCEPT !.src = a]
        BY <3>1 DEF From
      <4>. QED
        BY <4>1, LeasedSome
    <3>2. CASE doc.vpnlan # Nil /\ y \in From("vpnlan")
      <4>1. PICK z \in Conns, a \in Some(Leases("vpnlan")) : z.inb = "tproxy-in" /\ y = [z EXCEPT !.src = a]
        BY <3>2 DEF From
      <4>. QED
        BY <3>2, <4>1, LeasedSome
    <3>. QED
      BY <1>4, <3>1, <3>2 DEF FromClients
  <2>2. /\ y.inb = "tproxy-in" /\ y.net = z.net /\ y.src = a
        /\ y.ips = z.ips /\ y.doms = z.doms
        /\ DOMAIN y = {"inb", "src", "net", "port", "ips", "doms", "proto"}
    BY <1>1, <2>1
  <2>3. y \in From("lan") => y.src \in Leases("lan")
    <3>1. ASSUME NEW v \in Conns, NEW b \in Some(Leases("lan")), y = [v EXCEPT !.src = b] PROVE y.src = b
      BY <1>1, <3>1
    <3>. QED
      BY <3>1, LeasedSome DEF From
  <2>. QED
    BY <1>1, <1>2, <1>4, <2>1, <2>2, <2>3 DEF AsSeen
<1>. QED
  BY <1>3, <1>4

\* What is known of a connection of a client or of the router itself.
LEMMA Seen ==
    ASSUME RenderInv, Rendered, NEW x \in SeenConns
    PROVE  /\ x.net \in {"tcp", "udp"}
           /\ x.inb # "tproxy-in" => x.src = Nil
           /\ x.src = Nil \/ \/ x.src \in Leases("lan")
                             \/ doc.vpnlan # Nil /\ x.src \in Leases("vpnlan")
           /\ \E z \in Conns : x.ips \subseteq z.ips /\ x.doms = z.doms
<1>1. PICK y \in FromClients \cup FromRouter : x = AsSeen(y)
  BY DEF SeenConns
<1>2. /\ AsSeen(y).inb = y.inb /\ AsSeen(y).src = y.src /\ AsSeen(y).net = y.net
      /\ AsSeen(y).doms = y.doms /\ AsSeen(y).ips \subseteq y.ips
      /\ y.net \in {"tcp", "udp"}
      /\ y.inb # "tproxy-in" => y.src = Nil
      /\ y.src = Nil \/ \/ y.src \in Leases("lan")
                        \/ doc.vpnlan # Nil /\ y.src \in Leases("vpnlan")
      /\ \E z \in Conns : y.ips = z.ips /\ y.doms = z.doms
  BY SeenParts
<1>. QED
  BY <1>1, <1>2

\* The document asks, in rank k and before its raw rules, for x to go to t.
AsksEarly(x, k, t) ==
    LET r == doc.routing
        geo == Geoip(r.direct)
    IN  \/ k = 1 /\ t = "dns-out" /\ x.port = 53 /\ x.inb = "tproxy-in"
        \/ k = 2 /\ t = "vless-out" /\ doc.vpnlan # Nil /\ x.src # Nil /\ x.src \notin Leases("lan")
        \/ k = 3 /\ t = "block" /\ r.quic /\ x.port = 443 /\ x.net = "udp"
        \/ k = 4 /\ t = "direct" /\ "private" \in x.ips
        \/ k = 5 /\ t = "block" /\ Names(r.block, x)
        \/ k = 6 /\ t = "vless-out" /\ Names(r.vpn, x)
        \/ k = 7 /\ t = "direct" /\ Names(r.direct \ geo, x)
        \/ \E i \in DOMAIN r.lists : /\ k = 10 + i /\ t = r.lists[i].tag
                                     /\ fetched[r.lists[i].name] \cap (x.ips \cup x.doms) # {}
        \/ k = AfterLists /\ t = "direct" /\ Names(geo, x)

\* In any rank: by its raw rules as they reach xray, and by those it has.
Asks(x, k, t) ==
    LET raw == doc.routing.raw IN
    \/ AsksEarly(x, k, t)
    \/ \E i \in DOMAIN raw : /\ k = AfterLists + i /\ t = raw[i].tag
                             /\ Matches(RuleFromMap(raw[i]), x, x.ips)
    \/ k = AfterLists + 1 + Len(raw) /\ t = "direct"

Means(x, k, t) ==
    LET raw == doc.routing.raw IN
    \/ AsksEarly(x, k, t)
    \/ \E i \in DOMAIN raw : /\ k = AfterLists + i /\ t = raw[i].tag
                             /\ Asked(raw[i], x)
    \/ k = AfterLists + 1 + Len(raw) /\ t = "direct"

LEMMA ClaimsAre ==
    ASSUME NEW x, NEW c
    PROVE  c \in Claims(x) <=> \E k, t : c = <<k, t>> /\ Means(x, k, t)
<1>. DEFINE r == doc.routing
            geo == Geoip(r.direct)
            Claim(cond, rank, tag) == IF cond THEN {<<rank, tag>>} ELSE {}
            lists == UNION {Claim(fetched[r.lists[i].name] \cap (x.ips \cup x.doms) # {}, 10 + i, r.lists[i].tag)
                            : i \in DOMAIN r.lists}
            raw == UNION {Claim(Asked(r.raw[i], x), AfterLists + i, r.raw[i].tag) : i \in DOMAIN r.raw}
<1>1. c \in lists <=> \E i \in DOMAIN r.lists : /\ c = <<10 + i, r.lists[i].tag>>
                                                /\ fetched[r.lists[i].name] \cap (x.ips \cup x.doms) # {}
  OBVIOUS
<1>2. c \in raw <=> \E i \in DOMAIN r.raw : /\ c = <<AfterLists + i, r.raw[i].tag>>
                                            /\ Asked(r.raw[i], x)
  OBVIOUS
<1>. DEFINE C1 == Claim(x.port = 53 /\ x.inb = "tproxy-in", 1, "dns-out")
            C2 == Claim(doc.vpnlan # Nil /\ x.src # Nil /\ x.src \notin Leases("lan"), 2, "vless-out")
            C3 == Claim(r.quic /\ x.port = 443 /\ x.net = "udp", 3, "block")
            C4 == Claim("private" \in x.ips, 4, "direct")
            C5 == Claim(Names(r.block, x), 5, "block")
            C6 == Claim(Names(r.vpn, x), 6, "vless-out")
            C7 == Claim(Names(r.direct \ geo, x), 7, "direct")
            C8 == Claim(Names(geo, x), AfterLists, "direct")
            C9 == {<<AfterLists + 1 + Len(r.raw), "direct">>}
<1>4. Claims(x) = C1 \cup C2 \cup C3 \cup C4 \cup C5 \cup C6 \cup C7 \cup lists \cup C8 \cup raw \cup C9
  BY Zenon DEF Claims
<1>. HIDE DEF lists, raw
<1>3. c \in Claims(x) <=>
        \/ c = <<1, "dns-out">> /\ x.port = 53 /\ x.inb = "tproxy-in"
        \/ c = <<2, "vless-out">> /\ doc.vpnlan # Nil /\ x.src # Nil /\ x.src \notin Leases("lan")
        \/ c = <<3, "block">> /\ r.quic /\ x.port = 443 /\ x.net = "udp"
        \/ c = <<4, "direct">> /\ "private" \in x.ips
        \/ c = <<5, "block">> /\ Names(r.block, x)
        \/ c = <<6, "vless-out">> /\ Names(r.vpn, x)
        \/ c = <<7, "direct">> /\ Names(r.direct \ geo, x)
        \/ c \in lists
        \/ c = <<AfterLists, "direct">> /\ Names(geo, x)
        \/ c \in raw
        \/ c = <<AfterLists + 1 + Len(r.raw), "direct">>
  BY <1>4
<1>. QED
  BY <1>1, <1>2, <1>3 DEF Means, AsksEarly

\* What the config in memory has of the document's routing.
LEMMA InForce ==
    ASSUME RenderInv, Rendered
    PROVE  LET r == doc.routing
               q == cfg.routing
           IN  /\ doc \in Docs /\ doc \in Document /\ cfg = Config(doc) /\ fetched \in Fetched
               /\ files.rules = RulesNow
               /\ q.block = r.block /\ q.vpn = r.vpn /\ q.direct = r.direct /\ q.quic = r.quic
               /\ q.lists = r.lists /\ q.raw = r.raw /\ q.profile = r.profile
               /\ doc.vpnlan # Nil => q.via
               /\ cfg.vpnlan = Nil <=> doc.vpnlan = Nil
               /\ r.profile # "full-tunnel"
               /\ Places(r.lists, Len(r.lists)) /\ Len(r.lists) \in Nat
               /\ Places(r.raw, Len(r.raw)) /\ Len(r.raw) \in Nat
               /\ \A i \in DOMAIN r.raw : r.raw[i] \in RawDoc
<1>. DEFINE r == doc.routing
<1>1. /\ doc \in Docs /\ doc \in Document /\ cfg = Config(doc) /\ fetched \in Fetched
      /\ doc.wan # Nil /\ r.profile # "full-tunnel" /\ files.rules = RulesNow
  BY DocsAssumption DEF RenderInv, Rendered, Valid
<1>2. cfg.routing = [r EXCEPT !.strategy = Given(@, "IPIfNonMatch"), !.via = @ \/ doc.vpnlan # Nil]
  BY <1>1, ConfigFields
<1>3. r \in RoutingDoc
  BY <1>1 DEF Document
<1>4. Places(r.lists, Len(r.lists)) /\ Len(r.lists) \in Nat
  <2>1. r.lists \in Seq([name: STRING, tag: STRING, kind: Optional(STRING)])
    BY <1>3 DEF RoutingDoc
  <2>. HIDE DEF r
  <2>. QED
    BY <2>1 DEF Places
<1>5. Places(r.raw, Len(r.raw)) /\ Len(r.raw) \in Nat /\ \A i \in DOMAIN r.raw : r.raw[i] \in RawDoc
  <2>1. r.raw \in Seq(RawDoc)
    BY <1>3 DEF RoutingDoc
  <2>. HIDE DEF r
  <2>. QED
    BY <2>1 DEF Places
<1>6. cfg.vpnlan = Nil <=> doc.vpnlan = Nil
  BY <1>1, ConfigVpnLan
<1>7. /\ cfg.routing.block = r.block /\ cfg.routing.vpn = r.vpn /\ cfg.routing.direct = r.direct
      /\ cfg.routing.quic = r.quic /\ cfg.routing.lists = r.lists /\ cfg.routing.raw = r.raw
      /\ cfg.routing.profile = r.profile /\ cfg.routing.via = (r.via \/ doc.vpnlan # Nil)
  <2>1. DOMAIN r = {"profile", "strategy", "quic", "via", "block", "vpn", "direct", "lists", "raw"}
    BY <1>3 DEF RoutingDoc
  <2>. HIDE DEF r
  <2>. QED
    BY <1>2, <2>1
<1>. QED
  BY <1>1, <1>4, <1>5, <1>6, <1>7

\* An entry that names a connection does so as an address or as a domain, as its form
\* says; a list, as its kind says.
LEMMA Sorted ==
    ASSUME RenderInv, Rendered, NEW x \in SeenConns,
           NEW E, E \subseteq doc.routing.block \cup doc.routing.vpn \cup doc.routing.direct
    PROVE  /\ Names(E, x) <=> \/ \E e \in Domains(E) : e.of \in x.doms
                              \/ \E e \in Ips(E) : e.of \in x.ips
           /\ E \subseteq doc.routing.direct =>
                /\ Names(E \ Geoip(E), x) <=> \/ \E e \in Domains(E) : e.of \in x.doms
                                              \/ \E e \in Ips(E) \ Geoip(E) : e.of \in x.ips
                /\ Names(Geoip(E), x) <=> \E e \in Geoip(E) : e.of \in x.ips
<1>1. \A e \in E : IF e.form \in {"ip", "geoip", "slash"} THEN e.of \notin x.doms ELSE e.of \notin x.ips
  <2>1. PICK y \in Conns : x.ips \subseteq y.ips /\ x.doms = y.doms
    BY Seen
  <2>2. \A e \in doc.routing.block \cup doc.routing.vpn \cup doc.routing.direct :
            IF Ips({e}) # {} THEN e.of \notin y.doms ELSE e.of \notin y.ips
    BY InForce, NamesAssumption, Zenon
  <2>3. \A e : Ips({e}) # {} <=> e.form \in {"ip", "geoip", "slash"}
    BY DEF Ips
  <2>. QED
    BY <2>1, <2>2, <2>3
<1>. QED
  BY <1>1 DEF Names, Domains, Ips, Geoip

LEMMA ListNames ==
    ASSUME RenderInv, Rendered, NEW x \in SeenConns, NEW i \in DOMAIN doc.routing.lists, NEW t
    PROVE  LET l == doc.routing.lists[i] IN
           /\ Says(ListRule(l, fetched), x, t)
                <=> t = l.tag /\ fetched[l.name] \cap (x.ips \cup x.doms) # {}
           /\ Single(ListRule(l, fetched))
<1>. DEFINE l == doc.routing.lists[i]
            E == {Entry("slash", n) : n \in fetched[l.name]}
<1>1. fetched[l.name] \cap (IF l.kind = "domain" THEN x.ips ELSE x.doms) = {}
  <2>1. PICK y \in Conns : x.ips \subseteq y.ips /\ x.doms = y.doms
    BY Seen
  <2>2. l \in Elements(doc.routing.lists)
    BY InForce DEF Elements, Places
  <2>3. fetched[l.name] \cap (IF l.kind = "domain" THEN y.ips ELSE y.doms) = {}
    BY InForce, <2>2, NamesAssumption, Zenon
  <2>. QED
    BY <2>1, <2>3
<1>2. ASSUME NEW S PROVE (\E e \in E : e.of \in S) <=> fetched[l.name] \cap S # {}
  <2>1. \A e : e \in E <=> \E n \in fetched[l.name] : e = Entry("slash", n)
    OBVIOUS
  <2>2. \A n : Entry("slash", n).of = n
    BY DEF Entry
  <2>. HIDE DEF E, l
  <2>. QED
    BY <2>1, <2>2
<1>. DEFINE tag == l.tag
<1>3. ListRule(l, fetched) = IF l.kind = "domain" THEN DomainRule(E, tag) ELSE IpRule(E, tag)
  BY DEF ListRule
<1>. HIDE DEF E, l, tag
<1>4. /\ Says(IpRule(E, tag), x, t) <=> t = tag /\ \E e \in E : e.of \in x.ips
      /\ Single(IpRule(E, tag))
  BY IpSays
<1>5. /\ Says(DomainRule(E, tag), x, t) <=> t = tag /\ \E e \in E : e.of \in x.doms
      /\ Single(DomainRule(E, tag))
  BY DomainSays
<1>6. CASE l.kind = "domain"
  <2>1. fetched[l.name] \cap (x.ips \cup x.doms) = fetched[l.name] \cap x.doms
    BY <1>1, <1>6
  <2>2. (\E e \in E : e.of \in x.doms) <=> fetched[l.name] \cap x.doms # {}
    BY <1>2
  <2>. QED
    BY <1>3, <1>5, <1>6, <2>1, <2>2 DEF l, tag
<1>7. CASE l.kind # "domain"
  <2>1. fetched[l.name] \cap (x.ips \cup x.doms) = fetched[l.name] \cap x.ips
    BY <1>1, <1>7
  <2>2. (\E e \in E : e.of \in x.ips) <=> fetched[l.name] \cap x.ips # {}
    BY <1>2
  <2>. QED
    BY <1>3, <1>4, <1>7, <2>1, <2>2 DEF l, tag
<1>. QED
  BY <1>6, <1>7

\* The two rules of a set of entries, by domain and by address.
EntriesSay(D, I, tag, x, t) ==
    (Says(DomainRule(D, tag), x, t) \/ Says(IpRule(I, tag), x, t))
       <=> (t = tag /\ ((\E e \in D : e.of \in x.doms) \/ (\E e \in I : e.of \in x.ips)))

LEMMA BothSay ==
    ASSUME NEW D, NEW I, NEW tag, NEW x, NEW t
    PROVE  EntriesSay(D, I, tag, x, t)
<1>1. Says(IpRule(I, tag), x, t) <=> t = tag /\ \E e \in I : e.of \in x.ips
  BY IpSays
<1>2. Says(DomainRule(D, tag), x, t) <=> t = tag /\ \E e \in D : e.of \in x.doms
  BY DomainSays
<1>. QED
  BY <1>1, <1>2 DEF EntriesSay

\* What each place sends, in the terms of the document.
Answers(R, x, t) ==
    LET r == doc.routing
        n == Len(r.lists)
        m == Len(r.raw)
    IN  /\ Says(R[1], x, t) <=> t = "dns-out" /\ x.port = 53 /\ x.inb = "tproxy-in"
        /\ Says(R[2], x, t) <=> /\ t = "vless-out" /\ doc.vpnlan # Nil
                                /\ x.src # Nil /\ x.src \notin Leases("lan")
        /\ Says(R[3], x, t) <=> t = "block" /\ r.quic /\ x.port = 443 /\ x.net = "udp"
        /\ Says(R[4], x, t) <=> t = "direct" /\ "private" \in x.ips
        /\ Says(R[5], x, t) \/ Says(R[6], x, t) <=> t = "block" /\ Names(r.block, x)
        /\ Says(R[7], x, t) \/ Says(R[8], x, t) <=> t = "vless-out" /\ Names(r.vpn, x)
        /\ Says(R[9], x, t) \/ Says(R[10], x, t) <=> t = "direct" /\ Names(r.direct \ Geoip(r.direct), x)
        /\ \A i \in 1..n : Says(R[10 + i], x, t) <=>
             t = r.lists[i].tag /\ fetched[r.lists[i].name] \cap (x.ips \cup x.doms) # {}
        /\ Says(R[11 + n], x, t) <=> t = "direct" /\ Names(Geoip(r.direct), x)
        /\ \A i \in 1..m : Says(R[11 + n + i], x, t) <=> /\ t = r.raw[i].tag
                                                         /\ Matches(RuleFromMap(r.raw[i]), x, x.ips)
        /\ Says(R[12 + n + m], x, t) <=> t = "direct"

LEMMA PlaceSays ==
    ASSUME RenderInv, Rendered, Separate(doc), NEW x \in SeenConns, NEW t
    PROVE  Answers(Rules(cfg, fetched), x, t)
<1>. DEFINE R == Rules(cfg, fetched)
            r == doc.routing
            n == Len(r.lists)
            m == Len(r.raw)
<1>1. /\ cfg.routing.block = r.block /\ cfg.routing.vpn = r.vpn /\ cfg.routing.direct = r.direct
      /\ cfg.routing.quic = r.quic /\ cfg.routing.lists = r.lists /\ cfg.routing.raw = r.raw
      /\ cfg.routing.profile = r.profile /\ r.profile # "full-tunnel"
      /\ doc.vpnlan # Nil => cfg.routing.via
      /\ cfg.vpnlan = Nil <=> doc.vpnlan = Nil
      /\ n \in Nat /\ m \in Nat /\ Places(r.lists, n) /\ Places(r.raw, m)
      /\ \A i \in DOMAIN r.raw : r.raw[i] \in RawDoc
  BY InForce
<1>2. /\ \A i \in 1..4 : R[i] = FixedRules(cfg)[i] /\ R[4 + i] = ForcedRules(cfg.routing)[i]
      /\ R[9] = DomainRule(Domains(r.direct), "direct")
      /\ R[10] = IpRule(Ips(r.direct) \ Geoip(r.direct), "direct")
      /\ \A i \in 1..n : R[10 + i] = ListRule(r.lists[i], fetched)
      /\ R[11 + n] = IpRule(Geoip(r.direct), "direct")
      /\ \A i \in 1..m : R[11 + n + i] = {RuleFromMap(r.raw[i])}
      /\ R[12 + n + m] = LastRule(r.profile)[1]
  <2>. DEFINE q == cfg.routing
  <2>1. Places(q.lists, n) /\ Places(q.raw, m) /\ n \in Nat /\ m \in Nat
    BY <1>1
  <2>. HIDE DEF n, m
  <2>2. /\ \A i \in 1..4 : R[i] = FixedRules(cfg)[i] /\ R[4 + i] = ForcedRules(q)[i]
        /\ R[9] = DomainRule(Domains(q.direct), "direct")
        /\ R[10] = IpRule(Ips(q.direct) \ Geoip(q.direct), "direct")
        /\ \A i \in 1..n : R[10 + i] = ListRule(q.lists[i], fetched)
        /\ R[11 + n] = IpRule(Geoip(q.direct), "direct")
        /\ \A i \in 1..m : R[11 + n + i] = {RuleFromMap(q.raw[i])}
        /\ R[12 + n + m] = LastRule(q.profile)[1]
    <3>1. Places(cfg.routing.lists, n) /\ Places(cfg.routing.raw, m) /\ n \in Nat /\ m \in Nat
      BY <2>1
    <3>2. Arranged(Rules(cfg, fetched), cfg, fetched, n, m)
      BY <3>1, RulePlaces
    <3>. QED
      BY <3>2 DEF Arranged
  <2>3. q.lists = r.lists /\ q.raw = r.raw /\ q.direct = r.direct /\ q.profile = r.profile
    BY <1>1
  <2>. HIDE DEF R, r
  <2>. QED
    BY <2>2, <2>3
<1>. HIDE DEF R
<1>3. /\ R[1] = FixedRules(cfg)[1] /\ R[2] = FixedRules(cfg)[2]
      /\ R[3] = FixedRules(cfg)[3] /\ R[4] = FixedRules(cfg)[4]
      /\ R[5] = DomainRule(Domains(r.block), "block") /\ R[6] = IpRule(Ips(r.block), "block")
      /\ R[7] = DomainRule(Domains(r.vpn), "vless-out") /\ R[8] = IpRule(Ips(r.vpn), "vless-out")
  <2>1. /\ R[1] = FixedRules(cfg)[1] /\ R[2] = FixedRules(cfg)[2]
        /\ R[3] = FixedRules(cfg)[3] /\ R[4] = FixedRules(cfg)[4]
    BY <1>2
  <2>2. /\ R[4 + 1] = ForcedRules(cfg.routing)[1] /\ R[4 + 2] = ForcedRules(cfg.routing)[2]
        /\ R[4 + 3] = ForcedRules(cfg.routing)[3] /\ R[4 + 4] = ForcedRules(cfg.routing)[4]
    BY <1>2
  <2>3. 4 + 1 = 5 /\ 4 + 2 = 6 /\ 4 + 3 = 7 /\ 4 + 4 = 8
    OBVIOUS
  <2>. QED
    BY <1>1, <2>1, <2>2, <2>3 DEF ForcedRules
<1>4. /\ x.net \in {"tcp", "udp"}
      /\ x.inb # "tproxy-in" => x.src = Nil
      /\ x.src = Nil \/ x.src \in Leases("lan") \/ (doc.vpnlan # Nil /\ x.src \in Leases("vpnlan"))
  BY Seen
<1>5. doc.vpnlan # Nil /\ x.src # Nil => (InSource(x.src, VpnLanCidr(cfg)) <=> x.src \notin Leases("lan"))
  BY <1>4, Apart
<1>6. /\ Says(R[1], x, t) <=> t = "dns-out" /\ x.port = 53 /\ x.inb = "tproxy-in"
      /\ Says(R[2], x, t) <=> /\ t = "vless-out" /\ doc.vpnlan # Nil
                              /\ x.src # Nil /\ x.src \notin Leases("lan")
      /\ Says(R[3], x, t) <=> t = "block" /\ r.quic /\ x.port = 443 /\ x.net = "udp"
      /\ Says(R[4], x, t) <=> t = "direct" /\ "private" \in x.ips
  <2>. DEFINE F == FixedRules(cfg)
  <2>1. /\ Says(F[1], x, t) <=> t = "dns-out" /\ x.inb = "tproxy-in" /\ x.port = 53
        /\ Says(F[2], x, t) <=> /\ t = "vless-out" /\ cfg.vpnlan # Nil /\ cfg.routing.via
                                /\ x.src # Nil /\ InSource(x.src, VpnLanCidr(cfg))
        /\ Says(F[3], x, t) <=> t = "block" /\ cfg.routing.quic /\ x.net = "udp" /\ x.port = 443
        /\ Says(F[4], x, t) <=> t = "direct" /\ "private" \in x.ips
    <3>1. FixedAnswer(cfg, x, t)
      BY FixedSays
    <3>. QED
      BY <3>1 DEF FixedAnswer
  <2>. HIDE DEF F, r
  <2>. QED
    BY <1>1, <1>3, <1>5, <2>1 DEF F
<1>7. Says(R[5], x, t) \/ Says(R[6], x, t) <=> t = "block" /\ Names(r.block, x)
  <2>. DEFINE E == r.block
  <2>1. Names(E, x) <=> (\E e \in Domains(E) : e.of \in x.doms) \/ (\E e \in Ips(E) : e.of \in x.ips)
    BY Sorted
  <2>2. EntriesSay(Domains(E), Ips(E), "block", x, t)
    BY BothSay
  <2>. QED
    BY <1>3, <2>1, <2>2 DEF EntriesSay
<1>8. Says(R[7], x, t) \/ Says(R[8], x, t) <=> t = "vless-out" /\ Names(r.vpn, x)
  <2>. DEFINE E == r.vpn
  <2>1. Names(E, x) <=> (\E e \in Domains(E) : e.of \in x.doms) \/ (\E e \in Ips(E) : e.of \in x.ips)
    BY Sorted
  <2>2. EntriesSay(Domains(E), Ips(E), "vless-out", x, t)
    BY BothSay
  <2>. QED
    BY <1>3, <2>1, <2>2 DEF EntriesSay
<1>9. Says(R[9], x, t) \/ Says(R[10], x, t) <=> t = "direct" /\ Names(r.direct \ Geoip(r.direct), x)
  <2>. DEFINE E == r.direct
              I == Ips(E) \ Geoip(E)
  <2>1. Names(E \ Geoip(E), x) <=> (\E e \in Domains(E) : e.of \in x.doms) \/ (\E e \in I : e.of \in x.ips)
    BY Sorted
  <2>2. EntriesSay(Domains(E), I, "direct", x, t)
    BY BothSay
  <2>. QED
    BY <1>2, <2>1, <2>2 DEF EntriesSay
<1>10. ASSUME NEW i \in 1..n
       PROVE  Says(R[10 + i], x, t) <=>
                t = r.lists[i].tag /\ fetched[r.lists[i].name] \cap (x.ips \cup x.doms) # {}
  <2>1. i \in DOMAIN r.lists
    BY <1>1 DEF Places
  <2>2. R[10 + i] = ListRule(r.lists[i], fetched)
    BY <1>2
  <2>3. Says(ListRule(r.lists[i], fetched), x, t)
          <=> t = r.lists[i].tag /\ fetched[r.lists[i].name] \cap (x.ips \cup x.doms) # {}
    BY <2>1, ListNames
  <2>. QED
    BY <2>2, <2>3
<1>11. Says(R[11 + n], x, t) <=> t = "direct" /\ Names(Geoip(r.direct), x)
  <2>. DEFINE G == Geoip(r.direct)
  <2>1. Names(G, x) <=> \E e \in G : e.of \in x.ips
    BY Sorted
  <2>2. Says(IpRule(G, "direct"), x, t) <=> t = "direct" /\ \E e \in G : e.of \in x.ips
    <3>. HIDE DEF G
    <3>. QED
      BY IpSays
  <2>3. R[11 + n] = IpRule(G, "direct")
    BY <1>2
  <2>. HIDE DEF G
  <2>4. Says(R[11 + n], x, t) <=> t = "direct" /\ Names(G, x)
    BY <2>1, <2>2, <2>3
  <2>. QED
    BY <2>4 DEF G
<1>12. ASSUME NEW i \in 1..m
       PROVE  Says(R[11 + n + i], x, t) <=> t = r.raw[i].tag /\ Matches(RuleFromMap(r.raw[i]), x, x.ips)
  <2>1. r.raw[i] \in RawDoc
    BY <1>1 DEF Places
  <2>2. R[11 + n + i] = {RuleFromMap(r.raw[i])}
    BY <1>2
  <2>3. Says({RuleFromMap(r.raw[i])}, x, t) <=> Matches(RuleFromMap(r.raw[i]), x, x.ips) /\ t = r.raw[i].tag
    BY <2>1, RawSays
  <2>. QED
    BY <2>2, <2>3
<1>13. Says(R[12 + n + m], x, t) <=> t = "direct"
  <2>1. Says(LastRule(r.profile)[1], x, t) <=> t = "direct"
    <3>. DEFINE profile == r.profile
    <3>1. profile # "full-tunnel" /\ x.net \in {"tcp", "udp"}
      BY <1>1, <1>4
    <3>. HIDE DEF profile
    <3>2. Sends(LastRule(profile)[1], x, t, "direct")
      BY <3>1, LastSays
    <3>. QED
      BY <3>2 DEF profile, Sends
  <2>. QED
    BY <1>2, <2>1
<1>. QED
  BY <1>6, <1>7, <1>8, <1>9, <1>10, <1>11, <1>12, <1>13 DEF Answers, R

\* The place of a rule, one group after the other.
PlaceCases(i, n, m) ==
    \/ i \in {1, 2, 3, 4, 5, 6, 7, 8, 9, 10, 11 + n, 12 + n + m}
    \/ \E j \in 1..n : i = 10 + j
    \/ \E j \in 1..m : i = 11 + n + j

LEMMA EveryPlace ==
    ASSUME NEW n \in Nat, NEW m \in Nat, NEW i \in 1..12 + n + m
    PROVE  PlaceCases(i, n, m)
<1>1. CASE i <= 10
  BY <1>1 DEF PlaceCases
<1>2. CASE i > 10 /\ i <= 10 + n
  <2>1. i - 10 \in 1..n /\ i = 10 + (i - 10)
    BY <1>2
  <2>. QED
    BY <2>1 DEF PlaceCases
<1>3. CASE i > 11 + n /\ i <= 11 + n + m
  <2>1. i - 11 - n \in 1..m /\ i = 11 + n + (i - 11 - n)
    BY <1>3
  <2>. QED
    BY <2>1 DEF PlaceCases
<1>4. CASE i = 11 + n \/ i = 12 + n + m
  BY <1>4 DEF PlaceCases
<1>. QED
  BY <1>1, <1>2, <1>3, <1>4

LEMMA PlacesSingle ==
    ASSUME RenderInv, Rendered
    PROVE  LET R == Rules(cfg, fetched) IN
           /\ DOMAIN R = 1..12 + Len(doc.routing.lists) + Len(doc.routing.raw)
           /\ \A i \in DOMAIN R : Single(R[i])
<1>. DEFINE R == Rules(cfg, fetched)
            n == Len(doc.routing.lists)
            m == Len(doc.routing.raw)
            q == cfg.routing
<1>1. n \in Nat /\ m \in Nat /\ Places(q.lists, n) /\ Places(q.raw, m) /\ q.profile # "full-tunnel"
  BY InForce
<1>2. Arranged(R, cfg, fetched, n, m)
  <2>1. Places(cfg.routing.lists, n) /\ Places(cfg.routing.raw, m)
    BY <1>1
  <2>. HIDE DEF n, m
  <2>. QED
    BY <1>1, <2>1, RulePlaces
<1>3. \A cond, r : Single(When(cond, r)) /\ Single({r})
  BY DEF Single, When
<1>4. /\ \A e, tag : Single(IpRule(e, tag)) /\ Single(DomainRule(e, tag))
      /\ \A l, f : Single(ListRule(l, f))
      /\ \A r : Single({r})
  <2>1. \A e, tag : Single(IpRule(e, tag)) /\ Single(DomainRule(e, tag))
    BY <1>3 DEF IpRule, DomainRule
  <2>. QED
    BY <1>3, <2>1 DEF ListRule
<1>. HIDE DEF R, n, m
<1>5. Single(R[1]) /\ Single(R[2]) /\ Single(R[3]) /\ Single(R[4])
  <2>. DEFINE F == FixedRules(cfg)
  <2>1. Single(F[1]) /\ Single(F[2]) /\ Single(F[3]) /\ Single(F[4])
    BY <1>3, <1>4 DEF FixedRules
  <2>2. R[1] = F[1] /\ R[2] = F[2] /\ R[3] = F[3] /\ R[4] = F[4]
    BY <1>2 DEF Arranged
  <2>. HIDE DEF F
  <2>. QED
    BY <2>1, <2>2
<1>6. Single(R[4 + 1]) /\ Single(R[4 + 2]) /\ Single(R[4 + 3]) /\ Single(R[4 + 4])
  BY <1>2, <1>4 DEF Arranged, ForcedRules
<1>7. Single(R[9]) /\ Single(R[10]) /\ Single(R[11 + n])
  BY <1>2, <1>4 DEF Arranged
<1>8. \A i \in 1..n : Single(R[10 + i])
  BY <1>2, <1>4 DEF Arranged
<1>9. \A i \in 1..m : Single(R[11 + n + i])
  BY <1>2, <1>4 DEF Arranged
<1>10. Single(R[12 + n + m])
  <2>1. R[12 + n + m] = LastRule(q.profile)[1]
    BY <1>2 DEF Arranged
  <2>2. Single(LastRule(q.profile)[1])
    BY <1>4 DEF LastRule
  <2>. QED
    BY <2>1, <2>2
<1>11. Single(R[5]) /\ Single(R[6]) /\ Single(R[7]) /\ Single(R[8])
  <2>1. 4 + 1 = 5 /\ 4 + 2 = 6 /\ 4 + 3 = 7 /\ 4 + 4 = 8
    OBVIOUS
  <2>. QED
    BY <1>6, <2>1
<1>12. ASSUME NEW i \in 1..12 + n + m PROVE Single(R[i])
  <2>1. PlaceCases(i, n, m)
    BY <1>1, EveryPlace
  <2>2. CASE i \in {1, 2, 3, 4, 5, 6, 7, 8, 9, 10, 11 + n, 12 + n + m}
    BY <2>2, <1>5, <1>7, <1>10, <1>11
  <2>. QED
    BY <2>1, <2>2, <1>8, <1>9 DEF PlaceCases
<1>. QED
  BY <1>2, <1>12 DEF R, n, m, Arranged

\* The rank of the claim that a place answers.
Rank(i) == IF i \in 5..6 THEN 5 ELSE IF i \in 7..8 THEN 6 ELSE IF i \in 9..10 THEN 7 ELSE i

\* The places send what the document asks for, in its order.
LEMMA RulesAsk ==
    ASSUME RenderInv, Rendered, Separate(doc), NEW x \in SeenConns, NEW t
    PROVE  LET R == Rules(cfg, fetched) IN
           /\ \A i \in DOMAIN R : Says(R[i], x, t) => Asks(x, Rank(i), t)
           /\ \A k : Asks(x, k, t) => \E i \in DOMAIN R : Rank(i) = k /\ Says(R[i], x, t)
<1>. DEFINE R == Rules(cfg, fetched)
            r == doc.routing
            n == Len(r.lists)
            m == Len(r.raw)
            A(k) == Asks(x, k, t)
            named(i) == t = r.lists[i].tag /\ fetched[r.lists[i].name] \cap (x.ips \cup x.doms) # {}
            matched(i) == t = r.raw[i].tag /\ Matches(RuleFromMap(r.raw[i]), x, x.ips)
            c1 == t = "dns-out" /\ x.port = 53 /\ x.inb = "tproxy-in"
            c2 == t = "vless-out" /\ doc.vpnlan # Nil /\ x.src # Nil /\ x.src \notin Leases("lan")
            c3 == t = "block" /\ r.quic /\ x.port = 443 /\ x.net = "udp"
            c4 == t = "direct" /\ "private" \in x.ips
            c5 == t = "block" /\ Names(r.block, x)
            c6 == t = "vless-out" /\ Names(r.vpn, x)
            c7 == t = "direct" /\ Names(r.direct \ Geoip(r.direct), x)
            c8 == t = "direct" /\ Names(Geoip(r.direct), x)
            c9 == t = "direct"
<1>1. /\ Says(R[1], x, t) <=> c1
      /\ Says(R[2], x, t) <=> c2
      /\ Says(R[3], x, t) <=> c3
      /\ Says(R[4], x, t) <=> c4
      /\ Says(R[5], x, t) \/ Says(R[6], x, t) <=> c5
      /\ Says(R[7], x, t) \/ Says(R[8], x, t) <=> c6
      /\ Says(R[9], x, t) \/ Says(R[10], x, t) <=> c7
      /\ \A i \in 1..n : Says(R[10 + i], x, t) <=> named(i)
      /\ Says(R[11 + n], x, t) <=> c8
      /\ \A i \in 1..m : Says(R[11 + n + i], x, t) <=> matched(i)
      /\ Says(R[12 + n + m], x, t) <=> c9
  <2>1. Answers(R, x, t)
    BY PlaceSays
  <2>. HIDE DEF R
  <2>. QED
    BY <2>1 DEF Answers
<1>2. /\ n \in Nat /\ m \in Nat
      /\ DOMAIN r.lists = 1..n /\ DOMAIN r.raw = 1..m
  BY InForce DEF Places
<1>3. \A k : A(k) <=>
        \/ (k = 1 /\ c1) \/ (k = 2 /\ c2) \/ (k = 3 /\ c3) \/ (k = 4 /\ c4)
        \/ (k = 5 /\ c5) \/ (k = 6 /\ c6) \/ (k = 7 /\ c7)
        \/ \E i \in DOMAIN r.lists : k = 10 + i /\ named(i)
        \/ k = 11 + n /\ c8
        \/ \E i \in DOMAIN r.raw : k = 11 + n + i /\ matched(i)
        \/ k = 11 + n + 1 + m /\ c9
  BY DEF Asks, AsksEarly, AfterLists
<1>4. DOMAIN R = 1..12 + n + m
  BY PlacesSingle
<1>. HIDE DEF R, n, m, r, A, named, matched, c1, c2, c3, c4, c5, c6, c7, c8, c9
<1>5. ASSUME NEW i \in 1..12 + n + m, Says(R[i], x, t) PROVE A(Rank(i))
  <2>1. PlaceCases(i, n, m)
    BY <1>2, EveryPlace
  <2>2. CASE i \in {1, 2, 3, 4}
    <3>1. Rank(i) = i
      BY <2>2 DEF Rank
    <3>. QED
      BY <1>1, <1>3, <1>5, <2>2, <3>1
  <2>3. CASE i \in {5, 6}
    <3>1. Rank(i) = 5
      BY <2>3 DEF Rank
    <3>. QED
      BY <1>1, <1>3, <1>5, <2>3, <3>1
  <2>4. CASE i \in {7, 8}
    <3>1. Rank(i) = 6
      BY <2>4 DEF Rank
    <3>. QED
      BY <1>1, <1>3, <1>5, <2>4, <3>1
  <2>5. CASE i \in {9, 10}
    <3>1. Rank(i) = 7
      BY <2>5 DEF Rank
    <3>. QED
      BY <1>1, <1>3, <1>5, <2>5, <3>1
  <2>6. CASE i = 11 + n \/ i = 12 + n + m
    <3>1. Rank(i) = i /\ 12 + n + m = 11 + n + 1 + m
      BY <1>2, <2>6 DEF Rank
    <3>. QED
      BY <1>1, <1>3, <1>5, <2>6, <3>1
  <2>7. ASSUME NEW j \in 1..n, i = 10 + j PROVE A(Rank(i))
    <3>1. Rank(i) = 10 + j
      BY <1>2, <2>7 DEF Rank
    <3>. QED
      BY <1>1, <1>2, <1>3, <1>5, <2>7, <3>1
  <2>8. ASSUME NEW j \in 1..m, i = 11 + n + j PROVE A(Rank(i))
    <3>1. Rank(i) = 11 + n + j
      BY <1>2, <2>8 DEF Rank
    <3>. QED
      BY <1>1, <1>2, <1>3, <1>5, <2>8, <3>1
  <2>. QED
    BY <2>1, <2>2, <2>3, <2>4, <2>5, <2>6, <2>7, <2>8 DEF PlaceCases
<1>6. ASSUME NEW k, A(k) PROVE \E i \in 1..12 + n + m : Rank(i) = k /\ Says(R[i], x, t)
  <2>1. /\ Rank(1) = 1 /\ Rank(2) = 2 /\ Rank(3) = 3 /\ Rank(4) = 4 /\ Rank(5) = 5 /\ Rank(6) = 5
        /\ Rank(7) = 6 /\ Rank(8) = 6 /\ Rank(9) = 7 /\ Rank(10) = 7
    BY DEF Rank
  <2>2. \A i \in 11..12 + n + m : Rank(i) = i
    BY <1>2 DEF Rank
  <2>3. /\ \A i \in 1..10 : i \in 1..12 + n + m
        /\ 11 + n \in 11..12 + n + m /\ 12 + n + m \in 11..12 + n + m
        /\ \A j \in 1..n : 10 + j \in 11..12 + n + m
        /\ \A j \in 1..m : 11 + n + j \in 11..12 + n + m
        /\ \A i \in 11..12 + n + m : i \in 1..12 + n + m
    BY <1>2
  <2>4. CASE (k = 1 /\ c1) \/ (k = 2 /\ c2) \/ (k = 3 /\ c3) \/ (k = 4 /\ c4)
    BY <1>1, <2>1, <2>3, <2>4
  <2>5. CASE (k = 5 /\ c5) \/ (k = 6 /\ c6) \/ (k = 7 /\ c7)
    BY <1>1, <2>1, <2>3, <2>5
  <2>6. CASE (k = 11 + n /\ c8) \/ (k = 11 + n + 1 + m /\ c9)
    <3>1. 11 + n + 1 + m = 12 + n + m
      BY <1>2
    <3>. QED
      BY <1>1, <2>2, <2>3, <2>6, <3>1
  <2>7. ASSUME NEW j \in 1..n, k = 10 + j, named(j)
        PROVE  \E i \in 1..12 + n + m : Rank(i) = k /\ Says(R[i], x, t)
    BY <1>1, <2>2, <2>3, <2>7
  <2>8. ASSUME NEW j \in 1..m, k = 11 + n + j, matched(j)
        PROVE  \E i \in 1..12 + n + m : Rank(i) = k /\ Says(R[i], x, t)
    BY <1>1, <2>2, <2>3, <2>8
  <2>. QED
    BY <1>2, <1>3, <1>6, <2>4, <2>5, <2>6, <2>7, <2>8
<1>. QED
  BY <1>4, <1>5, <1>6 DEF A, R

\* The first place that sends x anywhere is i, and it sends it to t.
SentFirst(R, x, i, t) ==
    /\ i \in DOMAIN R /\ Says(R[i], x, t)
    /\ \A j \in DOMAIN R : \A u : Says(R[j], x, u) => i <= j

\* Decision takes the first place that matches.
LEMMA FirstDecides ==
    ASSUME NEW c, NEW R, DOMAIN R \subseteq Nat, \A i \in DOMAIN R : Single(R[i]),
           NEW y, NEW x, x.inb = y.inb, x.src = y.src, x.net = y.net, x.port = y.port, x.doms = y.doms,
           x.ips = (IF SeesAddress(c, y) THEN y.ips ELSE {}),
           NEW i, NEW t, SentFirst(R, x, i, t)
    PROVE  Decision(c, R, y) = t
<1>. DEFINE hits == Hits(R, x, x.ips)
            n == CHOOSE j \in hits : \A k \in hits : j <= k
<1>1. \A j : j \in hits <=> j \in DOMAIN R /\ \E r \in R[j] : Matches(r, x, x.ips)
  BY DEF Hits
<1>2. \A j \in DOMAIN R : j \in hits <=> \E u : Says(R[j], x, u)
  BY <1>1 DEF Says
<1>3. i \in hits /\ hits \subseteq Nat /\ \A j \in hits : i <= j
  BY <1>1, <1>2 DEF SentFirst
<1>. HIDE DEF hits
<1>4. n = i
  <2>1. i \in Nat /\ \A j \in hits : j \in Nat /\ i <= j
    BY <1>3
  <2>2. \A j \in hits : (\A k \in hits : j <= k) => j = i
    BY <1>3, <2>1
  <2>. QED
    BY <1>3, <2>2
<1>5. PICK r \in R[i] : Matches(r, x, x.ips) /\ r.tag = t
  BY DEF SentFirst, Says
<1>6. (CHOOSE q \in R[i] : TRUE) = r
  BY <1>5 DEF SentFirst, Single
<1>. HIDE DEF n
<1>7. Decision(c, R, y) = (CHOOSE q \in R[n] : TRUE).tag
  <2>1. hits # {}
    BY <1>3
  <2>2. hits = Hits(R, y, IF SeesAddress(c, y) THEN y.ips ELSE {})
    <3>1. \A s : Matches(s, x, x.ips) <=> Matches(s, y, x.ips)
      BY DEF Matches
    <3>. QED
      BY <3>1 DEF hits, Hits
  <2>. QED
    BY <1>3, <2>1, <2>2 DEF Decision, n
<1>. QED
  BY <1>4, <1>5, <1>6, <1>7

LEMMA FirstSent ==
    ASSUME NEW R, DOMAIN R \subseteq Nat, NEW x, NEW i \in DOMAIN R, NEW t, Says(R[i], x, t)
    PROVE  \E j, u : SentFirst(R, x, j, u)
<1>. DEFINE all == {j \in DOMAIN R : \E u : Says(R[j], x, u)}
<1>1. all \in SUBSET Nat /\ all # {}
  OBVIOUS
<1>2. PICK j \in all : \A k \in all : j <= k
  <2>. HIDE DEF all
  <2>. QED
    BY <1>1, LeastIsThere
<1>3. PICK u : Says(R[j], x, u)
  BY <1>2
<1>. QED
  BY <1>2, <1>3 DEF SentFirst

LEMMA RankMonotone ==
    ASSUME NEW i \in Nat, NEW j \in Nat, i <= j
    PROVE  Rank(i) \in Nat /\ Rank(i) <= Rank(j)
  BY DEF Rank

\* The ranks up to that of the geoip entries are those of the groups before the raw
\* rules, whatever becomes of the latter.
LEMMA EarlyAsks ==
    ASSUME RenderInv, Rendered, NEW x, NEW k, NEW t
    PROVE  /\ AsksEarly(x, k, t) => Asks(x, k, t) /\ Means(x, k, t)
           /\ Asks(x, k, t) \/ Means(x, k, t) => k \in Nat
           /\ k <= AfterLists /\ (Asks(x, k, t) \/ Means(x, k, t)) => AsksEarly(x, k, t)
<1>. DEFINE a == AfterLists
            m == Len(doc.routing.raw)
<1>1. a \in Nat /\ m \in Nat /\ DOMAIN doc.routing.raw = 1..m /\ DOMAIN doc.routing.lists \subseteq Nat
  BY InForce DEF AfterLists, Places
<1>2. AsksEarly(x, k, t) => k \in Nat
  BY <1>1 DEF AsksEarly
<1>3. Asks(x, k, t) \/ Means(x, k, t) =>
        AsksEarly(x, k, t) \/ (\E i \in 1..m : k = a + i) \/ k = a + 1 + m
  BY <1>1 DEF Asks, Means
<1>. HIDE DEF a, m
<1>4. (\E i \in 1..m : k = a + i) \/ k = a + 1 + m => k \in Nat /\ ~(k <= a)
  BY <1>1
<1>5. AsksEarly(x, k, t) => Asks(x, k, t) /\ Means(x, k, t)
  BY DEF Asks, Means
<1>. QED
  BY <1>2, <1>3, <1>4, <1>5 DEF a

\* A raw rule of which ruleFromMap drops nothing means what the document has.
LEMMA RawMeans ==
    ASSUME NEW raw \in RawDoc, Expressible(raw), NEW x
    PROVE  Matches(RuleFromMap(raw), x, x.ips) <=> Asked(raw, x)
<1>. DEFINE r == RuleFromMap(raw)
<1>1. /\ r.inb = raw.inb /\ r.source = raw.source /\ r.net = raw.net /\ r.port = raw.port
      /\ r.ip = raw.ip /\ r.domain = raw.domain
  BY DEF RuleFromMap, Anything, Expressible
<1>. HIDE DEF r
<1>2. Matches(r, x, x.ips) <=> Matches(raw, x, x.ips)
  BY <1>1 DEF Matches
<1>. QED
  BY <1>2 DEF Asked, Expressible, r

\* The raw rules reach xray as they are, or a group before them claims x.
Certain(x) ==
    \/ \A raw \in Elements(doc.routing.raw) : Expressible(raw)
    \/ \E c \in Claims(x) : c[1] <= AfterLists

\* What asks first in the rules is what the document means first.
LEMMA FirstMeant ==
    ASSUME RenderInv, Rendered, NEW x, Certain(x), NEW k, NEW t, Asks(x, k, t),
           \A h, u : Asks(x, h, u) => k <= h /\ (h = k => u = t)
    PROVE  /\ Means(x, k, t)
           /\ \A h, u : Means(x, h, u) => h \in Nat /\ k <= h /\ (h = k => u = t)
<1>. DEFINE raw == doc.routing.raw
<1>1. CASE \A r \in Elements(raw) : Expressible(r)
  <2>1. \A i \in DOMAIN raw : raw[i] \in RawDoc /\ raw[i] \in Elements(raw)
    BY InForce DEF Elements, Places
  <2>2. \A i \in DOMAIN raw : Matches(RuleFromMap(raw[i]), x, x.ips) <=> Asked(raw[i], x)
    BY <1>1, <2>1, RawMeans
  <2>3. \A h, u : Means(x, h, u) <=> Asks(x, h, u)
    BY <2>2 DEF Means, Asks
  <2>4. \A h, u : Asks(x, h, u) => h \in Nat
    BY EarlyAsks
  <2>. QED
    BY <2>3, <2>4
<1>2. CASE \E c \in Claims(x) : c[1] <= AfterLists
  <2>1. PICK c \in Claims(x) : c[1] <= AfterLists
    BY <1>2
  <2>2. PICK h0, u0 : c = <<h0, u0>> /\ Means(x, h0, u0)
    BY ClaimsAre
  <2>3. Asks(x, h0, u0) /\ h0 <= AfterLists
    BY <2>1, <2>2, EarlyAsks
  <2>4. AfterLists \in Nat
    BY InForce DEF AfterLists
  <2>5. k \in Nat /\ h0 \in Nat
    BY <2>3, EarlyAsks
  <2>6. k <= AfterLists
    BY <2>3, <2>4, <2>5
  <2>7. Means(x, k, t)
    BY <2>6, EarlyAsks
  <2>8. ASSUME NEW h, NEW u, Means(x, h, u) PROVE h \in Nat /\ k <= h /\ (h = k => u = t)
    <3>1. h \in Nat
      BY <2>8, EarlyAsks
    <3>2. CASE h <= AfterLists
      <4>1. Asks(x, h, u)
        BY <2>8, <3>2, EarlyAsks
      <4>. QED
        BY <3>1, <4>1
    <3>3. CASE ~(h <= AfterLists)
      BY <2>4, <2>5, <2>6, <3>1, <3>3
    <3>. QED
      BY <3>2, <3>3
  <2>. QED
    BY <2>7, <2>8
<1>. QED
  BY <1>1, <1>2 DEF Certain

\* The rules decide what the document asks for: the claims' least rank is that of
\* the first place that matches.
LEMMA DecisionIntended ==
    ASSUME RenderInv, Rendered, Separate(doc), NEW y \in FromClients \cup FromRouter, Certain(AsSeen(y))
    PROVE  Decision(cfg, Rules(cfg, fetched), y) = Intended(AsSeen(y))
<1>. DEFINE R == Rules(cfg, fetched)
            n == Len(doc.routing.lists)
            m == Len(doc.routing.raw)
            N == 12 + n + m
            D == Decision(cfg, R, y)
            x == AsSeen(y)
<1>0. x \in SeenConns
  BY DEF SeenConns
<1>1. DOMAIN R = 1..N /\ (\A i \in DOMAIN R : Single(R[i])) /\ N \in Nat
  <2>1. n \in Nat /\ m \in Nat
    BY InForce
  <2>2. DOMAIN R = 1..12 + n + m /\ \A i \in DOMAIN R : Single(R[i])
    BY PlacesSingle
  <2>. HIDE DEF R, n, m
  <2>. QED
    BY <2>1, <2>2
<1>2. /\ \A i \in DOMAIN R : \A t : Says(R[i], x, t) => Asks(x, Rank(i), t)
      /\ \A k, t : Asks(x, k, t) => \E i \in DOMAIN R : Rank(i) = k /\ Says(R[i], x, t)
  BY <1>0, RulesAsk
<1>3. \E k, t : Asks(x, k, t)
  <2>1. Asks(x, AfterLists + 1 + Len(doc.routing.raw), "direct")
    BY DEF Asks
  <2>. QED
    BY <2>1
<1>4. /\ x.inb = y.inb /\ x.src = y.src /\ x.net = y.net /\ x.port = y.port /\ x.doms = y.doms
      /\ x.ips = IF SeesAddress(cfg, y) THEN y.ips ELSE {}
  BY SeenParts
<1>11. Certain(x)
  OBVIOUS
<1>. HIDE DEF R, N, x
<1>5. PICK i, t : SentFirst(R, x, i, t)
  BY <1>1, <1>2, <1>3, FirstSent
<1>6. D = t
  <2>. DEFINE c == cfg
  <2>1. x.ips = IF SeesAddress(c, y) THEN y.ips ELSE {}
    BY <1>4
  <2>. HIDE DEF c
  <2>2. Decision(c, R, y) = t
    BY <1>1, <1>4, <1>5, <2>1, FirstDecides
  <2>. QED
    BY <2>2 DEF c
<1>7. \A k, u : Asks(x, k, u) => Rank(i) <= k
  <2>1. \A j \in 1..N : i <= j => Rank(i) <= Rank(j)
    BY <1>1, <1>5, RankMonotone DEF SentFirst
  <2>. QED
    BY <1>1, <1>2, <1>5, <2>1 DEF SentFirst
<1>8. \A u : Asks(x, Rank(i), u) => u = t
  <2>1. SUFFICES ASSUME NEW u, Asks(x, Rank(i), u) PROVE u = t
    OBVIOUS
  <2>2. PICK j \in DOMAIN R : Rank(j) = Rank(i) /\ Says(R[j], x, u)
    BY <1>2, <2>1
  <2>3. CASE j = i
    BY <1>1, <1>5, <2>2, <2>3 DEF SentFirst, Single, Says
  <2>4. CASE j # i
    <3>1. i \in 1..N /\ j \in 1..N
      BY <1>1, <1>5 DEF SentFirst
    <3>2. (Rank(i) = 5) \/ (Rank(i) = 6) \/ (Rank(i) = 7)
      BY <1>1, <2>2, <2>4, <3>1 DEF Rank
    <3>3. Asks(x, Rank(i), t)
      BY <1>2, <1>5 DEF SentFirst
    <3>4. \A k, v : k \in {5, 6, 7} /\ Asks(x, k, v) =>
              v = (IF k = 5 THEN "block" ELSE IF k = 6 THEN "vless-out" ELSE "direct")
      <4>1. /\ AfterLists \in Nat /\ AfterLists > 10 /\ Len(doc.routing.raw) \in Nat
            /\ \A k \in DOMAIN doc.routing.lists : 10 + k \in Nat /\ 10 + k > 10
            /\ \A k \in DOMAIN doc.routing.raw : AfterLists + k \in Nat /\ AfterLists + k > 10
        BY InForce DEF AfterLists, Places
      <4>2. SUFFICES ASSUME NEW k \in {5, 6, 7}, NEW v, Asks(x, k, v)
                     PROVE  v = IF k = 5 THEN "block" ELSE IF k = 6 THEN "vless-out" ELSE "direct"
        OBVIOUS
      <4>3. (k = 5 /\ v = "block") \/ (k = 6 /\ v = "vless-out") \/ (k = 7 /\ v = "direct")
        <5>. DEFINE r == doc.routing
                    listed(h) == /\ v = r.lists[h].tag
                                 /\ fetched[r.lists[h].name] \cap (x.ips \cup x.doms) # {}
                    raw(h) == v = r.raw[h].tag /\ Matches(RuleFromMap(r.raw[h]), x, x.ips)
        <5>1. \/ k \in {1, 2, 3, 4}
              \/ (k = 5 /\ v = "block") \/ (k = 6 /\ v = "vless-out") \/ (k = 7 /\ v = "direct")
              \/ \E h \in DOMAIN r.lists : k = 10 + h /\ listed(h)
              \/ k = AfterLists
              \/ \E h \in DOMAIN r.raw : k = AfterLists + h /\ raw(h)
              \/ k = AfterLists + 1 + Len(r.raw)
          BY <4>2 DEF Asks, AsksEarly
        <5>. HIDE DEF listed, raw, r
        <5>2. k \notin {1, 2, 3, 4}
          OBVIOUS
        <5>3. ~(\E h \in DOMAIN r.lists : k = 10 + h /\ listed(h))
          BY <4>1 DEF r
        <5>4. ~(\E h \in DOMAIN r.raw : k = AfterLists + h /\ raw(h))
          BY <4>1 DEF r
        <5>5. k # AfterLists /\ k # AfterLists + 1 + Len(r.raw)
          <6>. DEFINE a == AfterLists
                      b == Len(doc.routing.raw)
          <6>1. a \in Nat /\ a > 10 /\ b \in Nat
            BY <4>1
          <6>. HIDE DEF a, b
          <6>2. k # a /\ k # a + 1 + b
            BY <6>1
          <6>. QED
            BY <6>2 DEF a, b, r
        <5>. QED
          BY <5>1, <5>2, <5>3, <5>4, <5>5
      <4>. QED
        BY <4>3
    <3>. QED
      BY <2>1, <3>2, <3>3, <3>4
  <2>. QED
    BY <2>3, <2>4
<1>9. /\ <<Rank(i), t>> \in Claims(x)
      /\ \A c \in Claims(x) : c[1] \in Nat /\ Rank(i) <= c[1] /\ (c[1] = Rank(i) => c = <<Rank(i), t>>)
  <2>1. Asks(x, Rank(i), t)
    BY <1>2, <1>5 DEF SentFirst
  <2>4. /\ Means(x, Rank(i), t)
        /\ \A k, u : Means(x, k, u) => k \in Nat /\ Rank(i) <= k /\ (k = Rank(i) => u = t)
    <3>. DEFINE p == Rank(i)
    <3>1. Asks(x, p, t) /\ \A k, u : Asks(x, k, u) => p <= k /\ (k = p => u = t)
      BY <1>7, <1>8, <2>1
    <3>. HIDE DEF p
    <3>2. /\ Means(x, p, t)
          /\ \A k, u : Means(x, k, u) => k \in Nat /\ p <= k /\ (k = p => u = t)
      BY <1>11, <3>1, FirstMeant
    <3>. QED
      BY <3>2 DEF p
  <2>2. <<Rank(i), t>> \in Claims(x)
    BY <2>4, ClaimsAre
  <2>3. ASSUME NEW c \in Claims(x) PROVE c[1] \in Nat /\ Rank(i) <= c[1] /\ (c[1] = Rank(i) => c = <<Rank(i), t>>)
    <3>1. PICK k, u : c = <<k, u>> /\ Means(x, k, u)
      BY ClaimsAre
    <3>. QED
      BY <2>4, <3>1
  <2>. QED
    BY <2>2, <2>3
<1>10. Intended(x) = t
  <2>. DEFINE C == Claims(x)
              least == CHOOSE c \in C : \A d \in C : c[1] <= d[1]
              own == <<Rank(i), t>>
  <2>1. Intended(x) = least[2]
    BY DEF Intended
  <2>2. Rank(i) \in Int
    BY <1>1, <1>5, RankMonotone DEF SentFirst
  <2>3. own[1] = Rank(i) /\ own[2] = t /\ own \in C
    BY <1>9
  <2>4. \A d \in C : d[1] \in Nat /\ Rank(i) <= d[1] /\ (d[1] = Rank(i) => d = own)
    BY <1>9
  <2>. HIDE DEF own, C
  <2>5. \A c \in C : (\A d \in C : c[1] <= d[1]) => c = own
    BY <2>2, <2>3, <2>4
  <2>6. least = own
    BY <2>3, <2>4, <2>5
  <2>. QED
    BY <2>1, <2>3, <2>6
<1>. QED
  BY <1>6, <1>10 DEF R, x

\* The order of buildRules is the one the document asks for, for every document that
\* keeps the subnets of lan and vpnlan apart, and every connection of a client or of
\* the router itself, as sniffing leaves it; what the groups before the raw rules claim
\* goes their way whatever the raw rules are, and the rest does when ruleFromMap drops
\* nothing of them.
THEOREM PolicyOrderAlways == Spec => []PolicyOrder
<1>1. RenderInv => PolicyOrder
  <2>1. SUFFICES ASSUME RenderInv, Rendered, ~updated, Separate(doc),
                        NEW x \in FromClients \cup FromRouter, Certain(AsSeen(x))
                 PROVE  Decision(cfg, files.rules, x) = Intended(AsSeen(x))
    BY DEF PolicyOrder, Certain
  <2>2. files.rules = Rules(cfg, fetched)
    BY <2>1, InForce DEF RulesNow
  <2>. QED
    BY <2>1, <2>2, DecisionIntended
<1>. QED
  BY <1>1, RenderInductive, PTL

\* The part of a sequence of places from m to n.
LEMMA PartPlaces ==
    ASSUME NEW s, NEW N, Places(s, N), NEW m \in 1..N, NEW n \in 0..N, m <= n + 1
    PROVE  /\ Places(SubSeq(s, m, n), n - m + 1)
           /\ \A i \in 1..n - m + 1 : SubSeq(s, m, n)[i] = s[m + i - 1]
<1>. DEFINE any == {s[i] : i \in 1..N}
            part == SubSeq(s, m, n)
<1>1. N \in Nat
  BY DEF Places
<1>2. \A i \in m..n : s[i] \in any
  BY <1>1
<1>. HIDE DEF any
<1>3. /\ part \in Seq(any) /\ Len(part) = IF m <= n THEN n - m + 1 ELSE 0
      /\ \A i \in 1..n - m + 1 : part[i] = s[m + i - 1]
  BY <1>1, <1>2, SubSeqProperties
<1>4. n - m + 1 \in Nat /\ Len(part) = n - m + 1
  BY <1>1, <1>3
<1>. HIDE DEF part
<1>5. part = [i \in 1..n - m + 1 |-> part[i]]
  BY <1>3, <1>4
<1>. QED
  BY <1>3, <1>4, <1>5 DEF Places, part

\* W is R with a rule for l at place n, the first that had geoip:ru.
Inserted(W, R, N, l, n) ==
    /\ n \in 1..N
    /\ \E r \in R[n] : HasRu(r.ip)
    /\ DOMAIN W = 1..N + 1
    /\ \A i \in 1..n - 1 : W[i] = R[i]
    /\ W[n] = IpRule({Entry("slash", l)}, "vless-out")
    /\ \A i \in n..N : W[i + 1] = R[i]

\* What update-antifilter.sh makes of a config's rules.
LEMMA AntifilterInserts ==
    ASSUME NEW R, NEW N, Places(R, N), NEW l
    PROVE  \/ WithAntifilter(R, l) = R
           \/ \E n : Inserted(WithAntifilter(R, l), R, N, l, n)
<1>. DEFINE ru == {i \in DOMAIN R : \E r \in R[i] : HasRu(r.ip)}
            first == CHOOSE i \in ru : \A j \in ru : i <= j
            rule == IpRule({Entry("slash", l)}, "vless-out")
            W == WithAntifilter(R, l)
<1>1. N \in Nat /\ DOMAIN R = 1..N /\ Len(R) = N
  <2>1. N \in Nat /\ R = [i \in 1..N |-> R[i]]
    BY DEF Places
  <2>2. DOMAIN R = 1..N
    BY <2>1, Zenon
  <2>3. \A i \in 1..N : R[i] \in {R[j] : j \in 1..N}
    OBVIOUS
  <2>. QED
    BY <2>1, <2>2, <2>3, PlacesSeq
<1>2. CASE ru = {}
  BY <1>2 DEF WithAntifilter
<1>3. CASE ru # {}
  <2>1. ru \in SUBSET Nat
    BY <1>1
  <2>2. first \in ru
    <3>1. \E i \in ru : \A j \in ru : i <= j
      <4>. HIDE DEF ru
      <4>. QED
        BY <1>3, <2>1, LeastIsThere
    <3>. HIDE DEF ru
    <3>. QED
      BY <3>1
  <2>3. first \in 1..N /\ \E r \in R[first] : HasRu(r.ip)
    BY <1>1, <2>2
  <2>. DEFINE front == SubSeq(R, 1, first - 1)
              back == SubSeq(R, first, Len(R))
  <2>4. W = front \o <<rule>> \o back
    BY <1>3 DEF WithAntifilter
  <2>. HIDE DEF first, rule, W, ru
  <2>5. /\ Places(front, first - 1)
        /\ \A i \in 1..first - 1 : front[i] = R[i]
    <3>1. 1 \in 1..N /\ first - 1 \in 0..N /\ 1 <= (first - 1) + 1 /\ (first - 1) - 1 + 1 = first - 1
      BY <1>1, <2>3
    <3>2. /\ Places(front, (first - 1) - 1 + 1)
          /\ \A i \in 1..(first - 1) - 1 + 1 : front[i] = R[1 + i - 1]
      BY <3>1, PartPlaces
    <3>3. \A i \in 1..first - 1 : 1 + i - 1 = i
      OBVIOUS
    <3>. HIDE DEF front
    <3>. QED
      BY <3>1, <3>2, <3>3
  <2>6. /\ Places(back, N - first + 1)
        /\ \A i \in 1..N - first + 1 : back[i] = R[first + i - 1]
    <3>1. N \in 0..N /\ first <= N + 1
      BY <1>1, <2>3
    <3>. QED
      BY <1>1, <2>3, <3>1, PartPlaces
  <2>7. Places(<<rule>>, 1) /\ <<rule>>[1] = rule
    BY DEF Places
  <2>. HIDE DEF front, back
  <2>8. Row(front \o <<rule>>, first - 1, 1, front, <<rule>>)
    BY <2>5, <2>7, InARow
  <2>. DEFINE most == front \o <<rule>>
  <2>9. /\ Places(most, first)
        /\ \A i \in 1..first - 1 : most[i] = front[i]
        /\ most[first] = rule
    <3>. HIDE DEF most
    <3>1. /\ Places(most, first - 1 + 1)
          /\ \A i \in 1..first - 1 : most[i] = front[i]
          /\ \A i \in 1..1 : most[first - 1 + i] = <<rule>>[i]
      BY <2>8 DEF Row, most
    <3>2. first - 1 + 1 = first
      BY <2>3
    <3>. QED
      BY <2>7, <3>1, <3>2
  <2>10. Row(most \o back, first, N - first + 1, most, back)
    <3>. HIDE DEF most
    <3>. QED
      BY <2>6, <2>9, InARow
  <2>. HIDE DEF most
  <2>11. /\ Places(W, first + (N - first + 1))
         /\ \A i \in 1..first : W[i] = most[i]
         /\ \A i \in 1..N - first + 1 : W[first + i] = back[i]
    BY <2>4, <2>10 DEF Row, most
  <2>12. DOMAIN W = 1..N + 1
    <3>1. first + (N - first + 1) = N + 1
      BY <1>1, <2>3
    <3>. QED
      BY <2>11, <3>1 DEF Places
  <2>13. \A i \in 1..first - 1 : W[i] = R[i]
    BY <1>1, <2>3, <2>5, <2>9, <2>11
  <2>14. W[first] = rule
    BY <1>1, <2>3, <2>9, <2>11
  <2>15. ASSUME NEW i \in first..N PROVE W[i + 1] = R[i]
    <3>. DEFINE k == i - first + 1
    <3>1. k \in 1..N - first + 1 /\ first + k = i + 1 /\ first + k - 1 = i
      BY <1>1, <2>3
    <3>. HIDE DEF k
    <3>2. W[first + k] = back[k] /\ back[k] = R[first + k - 1]
      BY <2>6, <2>11, <3>1
    <3>. QED
      BY <3>1, <3>2
  <2>16. Inserted(W, R, N, l, first)
    BY <2>3, <2>12, <2>13, <2>14, <2>15 DEF Inserted, rule
  <2>. QED
    BY <2>16 DEF W
<1>. QED
  BY <1>2, <1>3

LEMMA RuleIps ==
    ASSUME NEW E, NEW tag
    PROVE  /\ \A r \in IpRule(E, tag) : r.ip = E
           /\ \A r \in DomainRule(E, tag) : r.ip = {}
  BY DEF IpRule, DomainRule, When, Anything

\* The first rule with geoip:ru comes after the fixed ones; and after the lists, when
\* the document neither blocks it nor forces it through the tunnel.
LEMMA RuPlace ==
    ASSUME RenderInv, Rendered, NEW p \in DOMAIN Rules(cfg, fetched),
           NEW q \in Rules(cfg, fetched)[p], HasRu(q.ip)
    PROVE  /\ p >= 5
           /\ ~HasRu(doc.routing.block \cup doc.routing.vpn) => p >= AfterLists
<1>. DEFINE R == Rules(cfg, fetched)
            r == doc.routing
            n == Len(r.lists)
            m == Len(r.raw)
            kept == ~HasRu(r.block \cup r.vpn)
            private == Entry("ip", "private")
            F == FixedRules(cfg)
            d == cfg.routing
<1>1. /\ n \in Nat /\ m \in Nat /\ Places(d.lists, n) /\ Places(d.raw, m)
      /\ d.block = r.block /\ d.vpn = r.vpn /\ d.direct = r.direct /\ d.lists = r.lists
  BY InForce
<1>2. Arranged(R, cfg, fetched, n, m)
  <2>1. Places(cfg.routing.lists, n) /\ Places(cfg.routing.raw, m)
    BY <1>1
  <2>. HIDE DEF n, m
  <2>. QED
    BY <1>1, <2>1, RulePlaces
<1>3. /\ ~HasRu({}) /\ ~HasRu({private})
      /\ \A S : ~HasRu({Entry("slash", a) : a \in S})
      /\ \A S, T : HasRu(S) /\ S \subseteq T => HasRu(T)
      /\ \A S : ~HasRu(Ips(S) \ Geoip(S))
  BY DEF HasRu, Entry, Geoip, Ips
<1>4. ASSUME NEW i \in 1..4, NEW w \in R[i] PROVE ~HasRu(w.ip)
  <2>1. /\ \A z \in F[1] : z.ip = {}
        /\ \A z \in F[2] : z.ip = {}
        /\ \A z \in F[3] : z.ip = {}
        /\ F[4] = IpRule({private}, "direct")
    BY DEF FixedRules, When, Anything
  <2>2. \A z \in F[4] : z.ip = {private}
    BY <2>1, RuleIps
  <2>3. R[i] = F[i]
    BY <1>2 DEF Arranged
  <2>. HIDE DEF F, R, private
  <2>4. w.ip = {} \/ w.ip = {private}
    <3>1. CASE i = 1
      BY <1>4, <2>1, <2>3, <3>1
    <3>2. CASE i = 2
      BY <1>4, <2>1, <2>3, <3>2
    <3>3. CASE i = 3
      BY <1>4, <2>1, <2>3, <3>3
    <3>4. CASE i = 4
      BY <1>4, <2>2, <2>3, <3>4
    <3>. QED
      BY <3>1, <3>2, <3>3, <3>4
  <2>. QED
    BY <1>3, <2>4
<1>5. ASSUME NEW i \in 5..10 + n, NEW w \in R[i], kept PROVE ~HasRu(w.ip)
  <2>1. CASE i \in 5..8
    <3>. DEFINE V == ForcedRules(d)
    <3>1. i - 4 \in 1..4 /\ i = 4 + (i - 4)
      BY <2>1
    <3>2. R[i] = V[i - 4]
      BY <1>2, <3>1 DEF Arranged
    <3>3. /\ V[1] = DomainRule(Domains(r.block), "block") /\ V[2] = IpRule(Ips(r.block), "block")
          /\ V[3] = DomainRule(Domains(r.vpn), "vless-out") /\ V[4] = IpRule(Ips(r.vpn), "vless-out")
      BY <1>1 DEF ForcedRules
    <3>. HIDE DEF V, R, r
    <3>4. \A k \in 1..4 : \A z \in V[k] : z.ip \in {{}, Ips(r.block), Ips(r.vpn)}
      BY <3>3, RuleIps
    <3>5. w.ip \in {{}, Ips(r.block), Ips(r.vpn)}
      BY <1>5, <3>1, <3>2, <3>4
    <3>6. Ips(r.block) \subseteq r.block \cup r.vpn /\ Ips(r.vpn) \subseteq r.block \cup r.vpn
      BY DEF Ips
    <3>. QED
      BY <1>3, <1>5, <3>5, <3>6 DEF kept
  <2>2. CASE i = 9
    <3>1. R[i] = DomainRule(Domains(r.direct), "direct")
      BY <1>1, <1>2, <2>2 DEF Arranged
    <3>. HIDE DEF R, r
    <3>2. w.ip = {}
      BY <1>5, <3>1, RuleIps
    <3>. QED
      BY <1>3, <3>2
  <2>3. CASE i = 10
    <3>1. R[i] = IpRule(Ips(r.direct) \ Geoip(r.direct), "direct")
      BY <1>1, <1>2, <2>3 DEF Arranged
    <3>. HIDE DEF R, r
    <3>2. w.ip = Ips(r.direct) \ Geoip(r.direct)
      BY <1>5, <3>1, RuleIps
    <3>. QED
      BY <1>3, <3>2
  <2>4. CASE i > 10
    <3>1. i - 10 \in 1..n /\ i = 10 + (i - 10)
      BY <1>1, <2>4
    <3>. DEFINE l == r.lists[i - 10]
                E == {Entry("slash", a) : a \in fetched[l.name]}
                tag == l.tag
    <3>2. R[i] = ListRule(l, fetched)
      BY <1>1, <1>2, <3>1 DEF Arranged
    <3>3. ListRule(l, fetched) = IF l.kind = "domain" THEN DomainRule(E, tag) ELSE IpRule(E, tag)
      BY DEF ListRule
    <3>4. ~HasRu(E)
      BY <1>3
    <3>. HIDE DEF R, l, E, tag
    <3>5. w.ip \in {{}, E}
      BY <1>5, <3>2, <3>3, RuleIps
    <3>. QED
      BY <1>3, <3>4, <3>5
  <2>. QED
    BY <1>1, <2>1, <2>2, <2>3, <2>4
<1>6. p \in Nat /\ p >= 1
  BY <1>1, <1>2 DEF Arranged
<1>7. AfterLists = 11 + n
  BY DEF AfterLists
<1>. HIDE DEF R, n, r, kept
<1>8. p >= 5
  BY <1>4, <1>6 DEF R
<1>9. kept => p >= 11 + n
  BY <1>1, <1>5, <1>6, <1>8 DEF R
<1>. QED
  BY <1>7, <1>8, <1>9 DEF r, kept

\* The rules before and after the update of the list: where it is put in, and that a
\* place still has one rule at most.
LEMMA Updated ==
    ASSUME RenderInv, Rendered
    PROVE  LET R == Rules(cfg, fetched)
               W == WithAntifilter(R, Update)
               N == 12 + Len(doc.routing.lists) + Len(doc.routing.raw)
           IN  /\ N \in Nat /\ DOMAIN R = 1..N
               /\ DOMAIN W \subseteq Nat /\ \A i \in DOMAIN W : Single(W[i])
               /\ W = R \/ \E n : /\ Inserted(W, R, N, Update, n)
                                  /\ n >= 5
                                  /\ ~HasRu(doc.routing.block \cup doc.routing.vpn)
                                     => n >= AfterLists
<1>. DEFINE R == Rules(cfg, fetched)
            W == WithAntifilter(R, Update)
            n == Len(doc.routing.lists)
            m == Len(doc.routing.raw)
            N == 12 + n + m
            kept == ~HasRu(doc.routing.block \cup doc.routing.vpn)
<1>1. n \in Nat /\ m \in Nat /\ Places(cfg.routing.lists, n) /\ Places(cfg.routing.raw, m)
  BY InForce
<1>2. DOMAIN R = 1..N /\ \A i \in DOMAIN R : Single(R[i])
  BY PlacesSingle
<1>. HIDE DEF n, m
<1>3. N \in Nat
  BY <1>1
<1>. HIDE DEF N
<1>4. Places(R, N)
  <2>1. Arranged(R, cfg, fetched, n, m)
    BY <1>1, RulePlaces
  <2>. QED
    BY <2>1 DEF Arranged, N
<1>5. W = R \/ \E k : Inserted(W, R, N, Update, k)
  <2>. HIDE DEF R
  <2>. QED
    BY <1>4, AntifilterInserts
<1>6. ASSUME NEW k, Inserted(W, R, N, Update, k) PROVE k >= 5 /\ (kept => k >= AfterLists)
  <2>1. PICK q \in R[k] : HasRu(q.ip)
    BY <1>6 DEF Inserted
  <2>2. k \in DOMAIN R
    BY <1>2, <1>6 DEF Inserted
  <2>. QED
    BY <2>1, <2>2, RuPlace
<1>7. ASSUME NEW k, Inserted(W, R, N, Update, k)
      PROVE  DOMAIN W \subseteq Nat /\ \A i \in DOMAIN W : Single(W[i])
  <2>. HIDE DEF W, R
  <2>1. k \in 1..N /\ DOMAIN W = 1..N + 1
    BY <1>7 DEF Inserted
  <2>2. ASSUME NEW i \in 1..N + 1 PROVE Single(W[i])
    <3>1. CASE i < k
      <4>1. i \in 1..k - 1 /\ i \in 1..N
        BY <1>3, <2>1, <3>1
      <4>. QED
        BY <1>2, <1>7, <4>1 DEF Inserted
    <3>2. CASE i = k
      BY <1>7, <3>2 DEF Inserted, IpRule, When, Single
    <3>3. CASE i > k
      <4>. DEFINE j == i - 1
      <4>1. j \in k..N /\ j \in 1..N /\ i = j + 1
        BY <1>3, <2>1, <3>3
      <4>. HIDE DEF j
      <4>. QED
        BY <1>2, <1>7, <4>1 DEF Inserted
    <3>. QED
      BY <1>3, <2>1, <3>1, <3>2, <3>3
  <2>. QED
    BY <1>3, <2>1, <2>2
<1>8. DOMAIN W \subseteq Nat /\ \A i \in DOMAIN W : Single(W[i])
  BY <1>2, <1>3, <1>5, <1>7
<1>. QED
  BY <1>2, <1>3, <1>5, <1>6, <1>8 DEF N, n, m

\* A connection to a private address that the rules see, not from vpnlan: the first four
\* places send it somewhere, and not to the tunnel.
LEMMA PrivateFirst ==
    ASSUME NEW y, NEW x, x.inb = y.inb, x.src = y.src, x.net = y.net, x.port = y.port, x.doms = y.doms,
           x.ips = (IF SeesAddress(cfg, y) THEN y.ips ELSE {}), "private" \in x.ips,
           cfg.vpnlan # Nil /\ x.src # Nil => ~InSource(x.src, VpnLanCidr(cfg)),
           NEW S, 4 \in DOMAIN S, DOMAIN S \subseteq Nat \ {0}, \A i \in DOMAIN S : Single(S[i]),
           \A i \in 1..4 : S[i] = FixedRules(cfg)[i]
    PROVE  Decision(cfg, S, y) # "vless-out"
<1>. DEFINE F == FixedRules(cfg)
            c == cfg
<1>1. \A t : /\ Says(F[1], x, t) => t = "dns-out"
             /\ ~Says(F[2], x, t)
             /\ Says(F[3], x, t) => t = "block"
             /\ Says(F[4], x, t) <=> t = "direct"
  <2>1. ASSUME NEW t
        PROVE  /\ Says(F[1], x, t) => t = "dns-out"
               /\ ~Says(F[2], x, t)
               /\ Says(F[3], x, t) => t = "block"
               /\ Says(F[4], x, t) <=> t = "direct"
    <3>1. /\ Says(F[1], x, t) <=> t = "dns-out" /\ x.inb = "tproxy-in" /\ x.port = 53
          /\ Says(F[2], x, t) <=> /\ t = "vless-out" /\ cfg.vpnlan # Nil /\ cfg.routing.via
                                  /\ x.src # Nil /\ InSource(x.src, VpnLanCidr(cfg))
          /\ Says(F[3], x, t) <=> t = "block" /\ cfg.routing.quic /\ x.net = "udp" /\ x.port = 443
          /\ Says(F[4], x, t) <=> t = "direct" /\ "private" \in x.ips
      <4>1. FixedAnswer(cfg, x, t)
        BY FixedSays
      <4>. QED
        BY <4>1 DEF FixedAnswer
    <3>. HIDE DEF F
    <3>. QED
      BY <3>1
  <2>. QED
    BY <2>1
<1>. HIDE DEF F
<1>2. S[1] = F[1] /\ S[2] = F[2] /\ S[3] = F[3] /\ S[4] = F[4]
  BY DEF F
<1>3. PICK i, t : SentFirst(S, x, i, t)
  BY <1>1, <1>2, FirstSent
<1>4. i \in 1..4
  <2>1. Says(S[4], x, "direct")
    BY <1>1, <1>2
  <2>2. i \in Nat \ {0} /\ i <= 4
    BY <1>3, <2>1 DEF SentFirst
  <2>. QED
    BY <2>2
<1>5. t # "vless-out"
  <2>1. Says(S[i], x, t)
    BY <1>3 DEF SentFirst
  <2>. QED
    BY <1>1, <1>2, <1>4, <2>1
<1>6. Decision(c, S, y) = t
  <2>1. x.ips = IF SeesAddress(c, y) THEN y.ips ELSE {}
    OBVIOUS
  <2>. HIDE DEF c
  <2>. QED
    BY <1>3, <2>1, FirstDecides
<1>. QED
  BY <1>5, <1>6

\* The chain of nft leaves alone what a client sends to a private address.
LEMMA NotHanded ==
    ASSUME NEW y, y.inb = "tproxy-in", "private" \in y.ips
    PROVE  ~Handed(y)
<1>. DEFINE first == [Anywhere EXCEPT !.ips = {"private"}, !.verdict = "return"]
            dns == [Anywhere EXCEPT !.ports = {53}]
<1>1. first.ips = {"private"} /\ first.ports = {} /\ first.verdict = "return"
  BY DEF Anywhere
<1>2. Prerouting = <<first, dns, Anywhere>>
  BY DEF Prerouting
<1>. HIDE DEF first, dns
<1>3. /\ DOMAIN Prerouting = 1..3
      /\ Prerouting[1].ips = {"private"} /\ Prerouting[1].ports = {} /\ Prerouting[1].verdict = "return"
  BY <1>1, <1>2
<1>4. Caught(Prerouting[1], y)
  BY <1>3 DEF Caught
<1>5. \A i \in 1..3 : i # 1 => 1 \in 1..i - 1
  OBVIOUS
<1>. QED
  BY <1>3, <1>4, <1>5 DEF Handed

\* The rules on the router, rendered or updated, begin with the four fixed places.
LEMMA FixedFirst ==
    ASSUME RenderInv, Rendered, NEW S, S = files.rules
    PROVE  /\ 4 \in DOMAIN S /\ DOMAIN S \subseteq Nat \ {0} /\ \A i \in DOMAIN S : Single(S[i])
           /\ \A i \in 1..4 : S[i] = FixedRules(cfg)[i]
<1>. DEFINE R == Rules(cfg, fetched)
            W == WithAntifilter(R, Update)
            n == Len(doc.routing.lists)
            m == Len(doc.routing.raw)
            N == 12 + n + m
            Good(T) == /\ 4 \in DOMAIN T /\ DOMAIN T \subseteq Nat \ {0} /\ \A i \in DOMAIN T : Single(T[i])
                       /\ \A i \in 1..4 : T[i] = FixedRules(cfg)[i]
<1>1. /\ N \in Nat /\ DOMAIN R = 1..N
      /\ DOMAIN W \subseteq Nat /\ \A i \in DOMAIN W : Single(W[i])
      /\ W = R \/ \E k : Inserted(W, R, N, Update, k) /\ k >= 5
  BY Updated
<1>2. n \in Nat /\ m \in Nat /\ Places(cfg.routing.lists, n) /\ Places(cfg.routing.raw, m)
  BY InForce
<1>. HIDE DEF n, m
<1>3. \A i \in 1..4 : i \in DOMAIN R /\ R[i] = FixedRules(cfg)[i]
  <2>1. Arranged(R, cfg, fetched, n, m)
    BY <1>2, RulePlaces
  <2>2. \A i \in 1..4 : R[i] = FixedRules(cfg)[i]
    BY <2>1 DEF Arranged
  <2>3. \A i \in 1..4 : i \in 1..N
    BY <1>2
  <2>. QED
    BY <1>1, <2>2, <2>3
<1>4. \A i \in DOMAIN R : Single(R[i])
  BY PlacesSingle
<1>5. Good(R)
  <2>. HIDE DEF R, N
  <2>. QED
    BY <1>1, <1>3, <1>4
<1>6. Good(W)
  <2>1. CASE W = R
    BY <1>5, <2>1
  <2>2. ASSUME NEW k, Inserted(W, R, N, Update, k), k >= 5 PROVE Good(W)
    <3>. HIDE DEF W, R, N
    <3>1. k \in 1..N /\ DOMAIN W = 1..N + 1 /\ \A i \in 1..k - 1 : W[i] = R[i]
      BY <2>2 DEF Inserted
    <3>2. 4 \in DOMAIN W /\ DOMAIN W \subseteq Nat \ {0} /\ \A i \in 1..4 : i \in 1..k - 1
      BY <1>1, <2>2, <3>1
    <3>3. \A i \in 1..4 : W[i] = FixedRules(cfg)[i]
      BY <1>3, <3>1, <3>2
    <3>. QED
      BY <1>1, <3>2, <3>3
  <2>. QED
    BY <1>1, <2>1, <2>2
<1>7. S = IF updated THEN W ELSE R
  BY InForce DEF RulesNow
<1>. HIDE DEF R, W
<1>. QED
  BY <1>5, <1>6, <1>7

\* What goes to a private address that the rules see never leaves through the tunnel,
\* whatever document, lists and update: the chain of nft leaves alone what clients send
\* there, and the fixed rules come before all that a document lists or the script adds.
THEOREM PrivateStaysLocalAlways == Spec => []PrivateStaysLocal
<1>1. RenderInv => PrivateStaysLocal
  <2>1. SUFFICES ASSUME RenderInv, Rendered, NEW y \in FromClients \cup FromRouter,
                        "private" \in AsSeen(y).ips
                 PROVE  /\ Fate(cfg, files.rules, y) # "vless-out"
                        /\ y.inb = "tproxy-in" => Fate(cfg, files.rules, y) = "forwarded"
                        /\ y \in From("lan") /\ Separate(doc) => Decision(cfg, files.rules, y) # "vless-out"
    BY DEF PrivateStaysLocal
  <2>. DEFINE x == AsSeen(y)
              S == files.rules
  <2>2. /\ x.inb = y.inb /\ x.src = y.src /\ x.net = y.net /\ x.port = y.port /\ x.doms = y.doms
        /\ x.ips = IF SeesAddress(cfg, y) THEN y.ips ELSE {}
        /\ y.inb # "tproxy-in" => y.src = Nil
        /\ y \in From("lan") => y.src \in Leases("lan")
    BY <2>1, SeenParts
  <2>3. "private" \in x.ips
    BY <2>1
  <2>4. /\ 4 \in DOMAIN S /\ DOMAIN S \subseteq Nat \ {0} /\ \A i \in DOMAIN S : Single(S[i])
        /\ \A i \in 1..4 : S[i] = FixedRules(cfg)[i]
    BY <2>1, FixedFirst
  <2>5. ASSUME cfg.vpnlan # Nil /\ x.src # Nil => ~InSource(x.src, VpnLanCidr(cfg))
        PROVE  Decision(cfg, S, y) # "vless-out"
    <3>. HIDE DEF x, S
    <3>. QED
      BY <2>2, <2>3, <2>4, <2>5, PrivateFirst
  <2>6. y.inb = "tproxy-in" => Fate(cfg, S, y) = "forwarded"
    <3>1. "private" \in y.ips
      BY <2>2, <2>3
    <3>. QED
      BY <3>1, NotHanded DEF Fate
  <2>7. y.inb # "tproxy-in" => Decision(cfg, S, y) # "vless-out"
    BY <2>2, <2>5
  <2>8. y \in From("lan") /\ Separate(doc) => Decision(cfg, S, y) # "vless-out"
    <3>1. SUFFICES ASSUME y \in From("lan"), Separate(doc) PROVE Decision(cfg, S, y) # "vless-out"
      OBVIOUS
    <3>2. cfg.vpnlan # Nil => ~InSource(x.src, VpnLanCidr(cfg))
      <4>1. cfg.vpnlan = Nil <=> doc.vpnlan = Nil
        BY <2>1, InForce
      <4>2. doc.vpnlan # Nil => \A a \in Leases("lan") : ~InSource(a, VpnLanCidr(cfg))
        BY <2>1, <3>1, Apart
      <4>. QED
        BY <2>2, <3>1, <4>1, <4>2
    <3>. QED
      BY <2>5, <3>2
  <2>. QED
    BY <2>6, <2>7, <2>8 DEF Fate
<1>. QED
  BY <1>1, RenderInductive, PTL

\* What the rule put in at place n does to a connection that t was the way of.
LEMMA Diverted ==
    ASSUME NEW R, NEW W, NEW N \in Nat, NEW l, NEW n, DOMAIN R = 1..N, Inserted(W, R, N, l, n),
           NEW x, NEW i, NEW t, SentFirst(R, x, i, t)
    PROVE  \/ \E j : SentFirst(W, x, j, t)
           \/ /\ l \in x.ips /\ n <= i
              /\ SentFirst(W, x, n, "vless-out")
<1>. DEFINE rule == IpRule({Entry("slash", l)}, "vless-out")
<1>1. /\ n \in 1..N /\ DOMAIN W = 1..N + 1 /\ W[n] = rule
      /\ \A j \in 1..n - 1 : W[j] = R[j]
      /\ \A j \in n..N : W[j + 1] = R[j]
  BY DEF Inserted
<1>2. /\ i \in 1..N /\ Says(R[i], x, t)
      /\ \A j \in 1..N : \A u : Says(R[j], x, u) => i <= j
  BY DEF SentFirst
<1>3. \A u : Says(rule, x, u) <=> u = "vless-out" /\ l \in x.ips
  <2>. DEFINE e == Entry("slash", l)
  <2>1. e.of = l /\ rule = IpRule({e}, "vless-out")
    BY DEF Entry
  <2>. HIDE DEF e, rule
  <2>2. ASSUME NEW u PROVE Says(IpRule({e}, "vless-out"), x, u) <=> u = "vless-out" /\ \E f \in {e} : f.of \in x.ips
    BY IpSays
  <2>. QED
    BY <2>1, <2>2
<1>. HIDE DEF rule
<1>4. ASSUME NEW j \in 1..N + 1, NEW u, Says(W[j], x, u)
      PROVE  \/ j < n /\ i <= j
             \/ j = n /\ l \in x.ips
             \/ j > n /\ i + 1 <= j
  <2>1. CASE j < n
    <3>1. j \in 1..n - 1 /\ j \in 1..N
      BY <1>1, <2>1
    <3>. QED
      BY <1>1, <1>2, <1>4, <2>1, <3>1
  <2>2. CASE j = n
    BY <1>1, <1>3, <1>4, <2>2
  <2>3. CASE j > n
    <3>. DEFINE k == j - 1
    <3>1. k \in n..N /\ k \in 1..N /\ j = k + 1
      BY <1>1, <2>3
    <3>. HIDE DEF k
    <3>2. i <= k
      BY <1>1, <1>2, <1>4, <3>1
    <3>. QED
      BY <1>2, <2>3, <3>1, <3>2
  <2>. QED
    BY <1>1, <2>1, <2>2, <2>3
<1>5. CASE i < n
  <2>1. W[i] = R[i] /\ i \in 1..N + 1
    BY <1>1, <1>2, <1>5
  <2>2. \A j \in 1..N + 1 : \A u : Says(W[j], x, u) => i <= j
    BY <1>1, <1>2, <1>4, <1>5
  <2>3. SentFirst(W, x, i, t)
    BY <1>1, <1>2, <2>1, <2>2 DEF SentFirst
  <2>. QED
    BY <2>3
<1>6. CASE n <= i /\ l \notin x.ips
  <2>1. W[i + 1] = R[i] /\ i + 1 \in 1..N + 1
    BY <1>1, <1>2, <1>6
  <2>2. \A j \in 1..N + 1 : \A u : Says(W[j], x, u) => i + 1 <= j
    BY <1>1, <1>2, <1>4, <1>6
  <2>3. SentFirst(W, x, i + 1, t)
    BY <1>1, <1>2, <2>1, <2>2 DEF SentFirst
  <2>. QED
    BY <2>3
<1>7. CASE n <= i /\ l \in x.ips
  <2>1. Says(W[n], x, "vless-out") /\ n \in 1..N + 1
    BY <1>1, <1>3, <1>7
  <2>2. \A j \in 1..N + 1 : \A u : Says(W[j], x, u) => n <= j
    BY <1>1, <1>2, <1>4, <1>7
  <2>3. SentFirst(W, x, n, "vless-out")
    BY <1>1, <2>1, <2>2 DEF SentFirst
  <2>. QED
    BY <1>7, <2>3
<1>. QED
  BY <1>1, <1>2, <1>5, <1>6, <1>7

\* An update of the list changes the way of a connection only to the tunnel, only if the
\* list names it, and only if nothing before the geoip entries claims it.
LEMMA OnlyDiverts ==
    ASSUME RenderInv, Rendered, Separate(doc), NEW y \in FromClients \cup FromRouter,
           ~HasRu(doc.routing.block \cup doc.routing.vpn),
           Decision(cfg, WithAntifilter(Rules(cfg, fetched), Update), y) # Decision(cfg, Rules(cfg, fetched), y)
    PROVE  /\ Update \in AsSeen(y).ips
           /\ \A c \in Claims(AsSeen(y)) : c[1] >= AfterLists
           /\ Decision(cfg, WithAntifilter(Rules(cfg, fetched), Update), y) = "vless-out"
<1>. DEFINE R == Rules(cfg, fetched)
            W == WithAntifilter(R, Update)
            n == Len(doc.routing.lists)
            m == Len(doc.routing.raw)
            N == 12 + n + m
            c == cfg
            x == AsSeen(y)
<1>0. x \in SeenConns
  BY DEF SeenConns
<1>1. /\ N \in Nat /\ DOMAIN R = 1..N
      /\ DOMAIN W \subseteq Nat /\ \A i \in DOMAIN W : Single(W[i])
      /\ W = R \/ \E k : Inserted(W, R, N, Update, k) /\ k >= AfterLists
  BY Updated
<1>2. \A i \in DOMAIN R : Single(R[i])
  BY PlacesSingle
<1>3. /\ \A i \in DOMAIN R : \A t : Says(R[i], x, t) => Asks(x, Rank(i), t)
      /\ \A k, t : Asks(x, k, t) => \E i \in DOMAIN R : Rank(i) = k /\ Says(R[i], x, t)
  BY <1>0, RulesAsk
<1>4. /\ x.inb = y.inb /\ x.src = y.src /\ x.net = y.net /\ x.port = y.port /\ x.doms = y.doms
      /\ x.ips = IF SeesAddress(c, y) THEN y.ips ELSE {}
  BY SeenParts
<1>5. AfterLists = 11 + n /\ n \in Nat
  BY InForce DEF AfterLists
<1>6. Decision(c, W, y) # Decision(c, R, y)
  OBVIOUS
<1>. HIDE DEF R, W, N, c, n, x
<1>7. PICK p : Inserted(W, R, N, Update, p) /\ p >= AfterLists
  BY <1>1, <1>6
<1>8. PICK i, t : SentFirst(R, x, i, t)
  <2>1. \E k, u : Asks(x, k, u)
    <3>1. Asks(x, AfterLists + 1 + Len(doc.routing.raw), "direct")
      BY DEF Asks
    <3>. QED
      BY <3>1
  <2>. QED
    BY <1>1, <1>3, <2>1, FirstSent
<1>9. Decision(c, R, y) = t
  BY <1>1, <1>2, <1>4, <1>8, FirstDecides
<1>10. \A j, u : SentFirst(W, x, j, u) => Decision(c, W, y) = u
  BY <1>1, <1>4, FirstDecides
<1>11. /\ Update \in x.ips /\ p <= i
       /\ SentFirst(W, x, p, "vless-out")
  <2>1. \/ \E j : SentFirst(W, x, j, t)
        \/ Update \in x.ips /\ p <= i /\ SentFirst(W, x, p, "vless-out")
    BY <1>1, <1>7, <1>8, Diverted
  <2>. QED
    BY <1>6, <1>9, <1>10, <2>1
<1>12. ASSUME NEW d \in Claims(x) PROVE d[1] >= AfterLists
  <2>1. PICK k, u : d = <<k, u>> /\ Means(x, k, u)
    BY ClaimsAre
  <2>6. SUFFICES ASSUME ~(k >= AfterLists) PROVE FALSE
    BY <2>1
  <2>7. k \in Nat /\ k <= AfterLists
    BY <1>5, <2>1, <2>6, EarlyAsks
  <2>8. Asks(x, k, u)
    BY <2>1, <2>7, EarlyAsks
  <2>2. PICK j \in DOMAIN R : Rank(j) = k /\ Says(R[j], x, u)
    BY <1>3, <2>8
  <2>3. j \in 1..N /\ p \in 1..N /\ i \in 1..N /\ i <= j
    BY <1>1, <1>7, <1>8, <2>2 DEF SentFirst, Inserted
  <2>4. j >= 11 + n
    BY <1>1, <1>5, <1>7, <1>11, <2>3
  <2>5. Rank(j) = j
    BY <1>1, <1>5, <2>3, <2>4 DEF Rank
  <2>. QED
    BY <1>5, <2>2, <2>4, <2>5, <2>6
<1>. QED
  BY <1>10, <1>11, <1>12 DEF R, W, c, x

\* Among the changes that update-antifilter.sh may make to the way of a connection, the
\* only one it does make is to send through the tunnel what its list names and nothing
\* before the geoip entries claims.
THEOREM UpdateOnlyDivertsAlways == Spec => UpdateOnlyDiverts
<1>. DEFINE A == /\ ~updated /\ updated' /\ Separate(doc)
                 /\ ~HasRu(doc.routing.block \cup doc.routing.vpn)
                 => \A x \in FromClients \cup FromRouter :
                      Decision(cfg, files'.rules, x) # Decision(cfg, files.rules, x)
                      => /\ Update \in AsSeen(x).ips
                         /\ \A c \in Claims(AsSeen(x)) : c[1] >= AfterLists
                         /\ Decision(cfg, files'.rules, x) = "vless-out"
<1>1. RenderInv /\ [Next]_vars => [A]_vars
  <2>1. SUFFICES ASSUME RenderInv, [Next]_vars, ~updated, updated', Separate(doc),
                        ~HasRu(doc.routing.block \cup doc.routing.vpn),
                        NEW x \in FromClients \cup FromRouter,
                        Decision(cfg, files'.rules, x) # Decision(cfg, files.rules, x)
                 PROVE  /\ Update \in AsSeen(x).ips
                        /\ \A c \in Claims(AsSeen(x)) : c[1] >= AfterLists
                        /\ Decision(cfg, files'.rules, x) = "vless-out"
    OBVIOUS
  <2>2. Antifilter
    BY <2>1 DEF Next, vars, Load, RenderFiles, RenderFails
  <2>3. Rendered
    BY <2>2 DEF Antifilter, Rendered
  <2>4. files.rules = Rules(cfg, fetched)
    BY <2>1, <2>3, InForce DEF RulesNow
  <2>5. files'.rules = WithAntifilter(Rules(cfg, fetched), Update)
    BY <2>1, <2>2, <2>3, <2>4 DEF Antifilter, RenderInv, Rendered
  <2>. QED
    BY <2>1, <2>3, <2>4, <2>5, OnlyDiverts
<1>. QED
  BY <1>1, RenderInductive, PTL DEF Spec, UpdateOnlyDiverts

=============================================================================
