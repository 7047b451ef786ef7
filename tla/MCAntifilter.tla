---------------------------- MODULE MCAntifilter ----------------------------
(***************************************************************************)
(* Small instances of Antifilter: two lists, and three configs: one with a *)
(* list of its own and geoip:ru, as the examples have it, one with         *)
(* geoip:ru in two rules, one without.                                     *)
(***************************************************************************)
EXTENDS Antifilter, TLC

MCOtherIp == {"private", "any"}
Field(ip) == [ip |-> ip, mark |-> FALSE]
MCRendered ==
    [v \in Version |->
        CASE v = "example" -> <<Field("private"), Field("l1"), Field("ru"), Field("any")>>
          [] v = "twice"   -> <<Field("private"), Field("ru"), Field("ru"), Field("any")>>
          [] v = "without" -> <<Field("private"), Field("any")>>]
=============================================================================
