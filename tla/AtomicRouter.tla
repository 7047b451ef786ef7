---------------------------- MODULE AtomicRouter ----------------------------
(***************************************************************************)
(* What an operator may rely on: seen between runs, an apply is one step.  *)
(* It installs all files of a config and none other, or changes nothing,   *)
(* or is undone up to files it created.  When the restore fails or the     *)
(* workstation dies the files may be mixed, which the outcome does not     *)
(* hide from who reads `restored`.                                         *)
(***************************************************************************)
EXTENDS Router

VARIABLES
    tree,       \* the managed files, as of the last completed run
    busy,       \* a run is under way
    outcome,    \* how the last run ended
    restored    \* it restored the snapshot to the end

avars == <<tree, busy, outcome, restored>>

AInit ==
    /\ tree \in Tree
    /\ ~busy
    /\ outcome = "none" /\ ~restored

Begin ==
    /\ ~busy /\ busy'
    /\ outcome' = "none" /\ ~restored'
    /\ UNCHANGED tree

Commit(v) ==
    /\ busy /\ ~busy'
    /\ tree' = Installed(tree, v)
    /\ outcome' = "ok" /\ ~restored'

Abort ==
    /\ busy /\ ~busy'
    /\ outcome' = "failed" /\ ~restored'
    /\ UNCHANGED tree

RollBack(v) ==
    /\ busy /\ ~busy'
    /\ tree' \in Tree /\ Undone(tree', tree, v)
    /\ outcome' \in {"rolledback", "died"} /\ restored'

\* The undo stopped half-way, or was never begun.
Wreck(v) ==
    /\ busy /\ ~busy'
    /\ tree' \in Tree /\ Mixed(tree', tree, v)
    /\ outcome' \in {"rolledback", "died"} /\ ~restored'

ANext == Begin \/ Abort \/ \E v \in Version : Commit(v) \/ RollBack(v) \/ Wreck(v)

ASpec == AInit /\ [][ANext]_avars
=============================================================================
