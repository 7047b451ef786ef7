---------------------------- MODULE MCOperators ----------------------------
(***************************************************************************)
(* Small instances of Operators: v1 is refused by `xray -test`, v2 passes. *)
(***************************************************************************)
EXTENDS Operators, TLC

CONSTANTS v1, v2

MCManaged == <<"xray">>
MCRendered == [v \in Version |-> <<"xray">>]
V1Rejected == {<<"xray", v1>>}
TwoManaged == <<"network", "xray">>
TwoRendered == [v \in Version |-> <<"network", "xray">>]
NoneRejected == {}
NoConfigOf == <<>>
NoPostApply == [v \in Version |-> <<>>]
=============================================================================
