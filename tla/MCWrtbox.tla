------------------------------ MODULE MCWrtbox ------------------------------
(***************************************************************************)
(* Small instances of Wrtbox: two managed paths, the second of which only  *)
(* v2 renders.                                                             *)
(***************************************************************************)
EXTENDS Wrtbox, TLC

CONSTANTS v1, v2

MCPath == {"xray", "wireless"}
MCManaged == <<"xray", "wireless">>
OneVersion == {v2}
TwoVersions == {v1, v2}
MCRendered == [v \in Version |-> IF v = v1 THEN <<"xray">> ELSE <<"wireless", "xray">>]

NoneRejected == {}
V1Rejected == {<<"xray", v1>>}

\* dnsmasq is restarted by the post_apply string `dnsmasq` of v2, and by `log; dnsmasq`
\* of v1.
MCConfigOf == ("network" :> "xray") @@ ("wifi" :> "wireless") @@ ("dnsmasq" :> "xray")
MCServices == DOMAIN MCConfigOf
NoServices == {}
NoConfigOf == <<>>
DnsmasqAfter ==
    [v \in Version |->
        IF v = v1 THEN <<[op |-> "&&", cmd |-> "log"], [op |-> ";", cmd |-> "dnsmasq"]>>
                  ELSE <<[op |-> "&&", cmd |-> "dnsmasq"]>>]
NoPostApply == [v \in Version |-> <<>>]
=============================================================================
