------------------------------ MODULE MCApply -------------------------------
(***************************************************************************)
(* Small instances of Apply: three managed paths, of which wireless is     *)
(* rendered only when the config declares it and may not exist on a new    *)
(* router, two configs that pass the validations and two that do not.      *)
(***************************************************************************)
EXTENDS Apply, TLC

CONSTANTS v1, v2, v3, v4

MCPath == {"network", "wireless", "xray"}
MCManaged == <<"network", "wireless", "xray">>

OneVersion == {v1}
TwoVersions == {v1, v2}
FourVersions == {v1, v2, v3, v4}
\* v1 does not declare wireless, the others do.
MCRendered == [v \in Version |-> IF v = v1 THEN <<"network", "xray">>
                                          ELSE <<"network", "wireless", "xray">>]

MCUciPath == {"network", "wireless"}
MCXrayPath == "xray"

NoneRejected == {}
\* `uci show` refuses v3's network, `xray -test` v4's config.
TwoRejected == {<<"network", v3>>, <<"xray", v4>>}

\* `network`, `firewall` and `wifi` read files of etc/config.
MCConfigOf == ("network" :> "network") @@ ("firewall" :> "network") @@ ("wifi" :> "wireless")
MCServices == DOMAIN MCConfigOf
NoServices == {}
NoConfigOf == <<>>
NoPostApply == [v \in Version |-> <<>>]
=============================================================================
