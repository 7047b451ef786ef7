--------------------------- MODULE MCWorkstation ---------------------------
(***************************************************************************)
(* Small instances of Workstation: one process and two routers, of which   *)
(* r1 is in hosts.yaml and in ~/.ssh/config.                               *)
(***************************************************************************)
EXTENDS Workstation, TLC

CONSTANTS p1, p2, nil

MCAtoi == ("22" :> 22) @@ ("2222" :> 2222)
T(user, parts) == [user |-> user, parts |-> parts]
R1 == T(nil, <<"r1">>)

H1 == T(nil, <<"h1">>)
H2 == T(nil, <<"h2">>)
EveH2 == T("eve", <<"h2", "2222">>)

Plain == R1 :> Entry(H1, nil, 0, nil, nil)
Full == R1 :> Entry(T("tom", <<"h1", "2222">>), "root", 22, "k1", "kh")
Part == R1 :> Entry(T("tom", <<"h1", "22">>), nil, 0, "k1", "kh")
Alias == <<"h1">> :> [user |-> "ann", host |-> <<"h2">>, port |-> 2222, key |-> "k2"]
Login == <<"h1">> :> [user |-> "ann", host |-> nil, port |-> 0, key |-> nil]

Ask(router, host, key, accept, yaml, ssh) ==
    [yaml |-> yaml, ssh |-> ssh,
     flags |-> [host |-> host, key |-> key, router |-> router, accept |-> accept]]

Requests ==
    {Ask(R1, host, nil, accept, Full, Alias) : host \in {nil, H2}, accept \in BOOLEAN}
    \cup {Ask(nil, nil, nil, FALSE, Plain, nil), Ask(H1, nil, "k3", TRUE, <<>>, Login),
          Ask(nil, EveH2, nil, TRUE, <<>>, Alias), Ask(R1, H1, "k3", FALSE, Plain, Login),
          Ask(R1, nil, nil, FALSE, Part, Alias), Ask(R1, H2, nil, FALSE, Part, Login), Ask(R1, nil, nil, FALSE, <<>>, nil)}

MCAddress == (<<<<"h1">>, 22>> :> "s1") @@ (<<<<"h1">>, 2222>> :> "s1")
             @@ (<<<<"h2">>, 22>> :> "s2") @@ (<<<<"h2">>, 2222>> :> "s2")
MCServer == {"s1", "s2"}
SamePort == [s \in MCServer |-> s]
MCPreferred == <<"ecdsa", "ed25519">>
OnePath == [p \in Process |-> "etc/config/network"]

OneRequest == {Ask(R1, nil, nil, TRUE, Full, nil)}

X == [says |-> "x", blanks |-> ""]
XBlank == [says |-> "x", blanks |-> " "]
Empty == [says |-> "", blanks |-> ""]
Texts == {<<Empty>>, <<X, Empty>>, <<XBlank, X>>, <<X, X>>}
=============================================================================
