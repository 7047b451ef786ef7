---------------------------- MODULE MCXrayRules -----------------------------
(* XrayRules has finitely many states: the instance is the module itself. *)
EXTENDS XrayRules
=============================================================================
