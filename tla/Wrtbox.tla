------------------------------- MODULE Wrtbox -------------------------------
(***************************************************************************)
(* wrtbox apply and wrtbox rollback against one router.  With Exclusive    *)
(* one command runs at a time, as with one careful operator; nothing on    *)
(* the router enforces it, and without Exclusive they interleave.          *)
(***************************************************************************)
EXTENDS Apply

CONSTANTS
    Exclusive,  \* the operator waits for one command before the next
    MaxRolls    \* bound on the number of rollbacks between two applies

ASSUME WrtboxAssumption == Exclusive \in BOOLEAN /\ MaxRolls \in Nat

VARIABLES
    rpc, rk, rconn, target, latest, rresult, before,
    rolls       \* the number of rollbacks since the last apply started

Rb == INSTANCE Rollback

rollbackVars == <<rpc, rk, rconn, target, latest, rresult, before>>
applyVars == <<staging, pc, k, ts, want, conn, doomed, outcome, runs, pre, restored>>
wvars == <<vars, rollbackVars, rolls>>

WTypeOK == TypeOK /\ Rb!RTypeOK /\ rolls \in Nat

WInit == Init /\ Rb!RInit /\ rolls = 0

StartApply(v, t) ==
    /\ Exclusive => rpc = "idle"
    /\ Start(v, t)
    /\ rolls' = 0 /\ UNCHANGED rollbackVars

ContinueApply == (Client \/ Die) /\ UNCHANGED <<rollbackVars, rolls>>

StartRollback ==
    /\ Exclusive => pc = "idle"
    /\ rolls < MaxRolls
    /\ Rb!RStart
    /\ rolls' = rolls + 1 /\ UNCHANGED applyVars

ContinueRollback == (Rb!RClient \/ Rb!RDie) /\ UNCHANGED <<applyVars, rolls>>

WNext ==
    \/ \E v \in Version, t \in Time : StartApply(v, t)
    \/ ContinueApply
    \/ StartRollback
    \/ ContinueRollback

WSpec == WInit /\ [][WNext]_wvars

WFairSpec == WSpec /\ WF_wvars(ContinueApply /\ Client) /\ WF_wvars(ContinueRollback /\ Rb!RClient)

-----------------------------------------------------------------------------
(* Properties *)

RollbackDone == rpc = "idle" /\ rresult = "ok"

\* When no apply interferes, a rollback that succeeds leaves exactly the files of
\* the snapshot it restores, and every other managed file as it was.
RollbackExact ==
    RollbackDone /\ Exclusive /\ rolls > 0 =>
        \A p \in Path : live[p] = IF backup[target][p] # Absent THEN backup[target][p]
                                                                ELSE before[p]

\* A default rollback after an apply that installed or rolled back a config, or
\* died and left the live files changed, brings every file back that existed
\* before that apply (rollback.go: snaps[0]; SECURITY.md on a workstation that
\* dies).  The clock moves forward, and no other rollback came between.
DefaultUndoesApply ==
    /\ RollbackDone /\ latest /\ rolls = 1
    /\ Exclusive /\ MonotoneClock
    /\ outcome \in {"ok", "rolledback"} \/ (outcome = "died" /\ before # pre)
    => \A p \in Path : pre[p] # Absent => live[p] = pre[p]

\* When a rollback reports success, network, firewall and wifi have read the
\* restored files: its reload has the xray commands in parentheses.
RollbackReloads ==
    RollbackDone /\ Exclusive /\ rolls > 0 => UpToDate({"network", "firewall", "wifi"})

\* Until a rollback comes, an apply that reported success has left the services its
\* post_apply strings vouch for with the files now live, and wifi too unless they
\* hold an || or a ;, which would mask its failure.
SuccessReloads == rolls = 0 => TailReloaded

\* A rollback ends, however its calls fail.
RollbackEnds == (rpc # "idle") ~> (rpc = "idle")

-----------------------------------------------------------------------------
(* Why they hold, one command at a time *)

\* The two commands exclude each other, and what holds of an apply holds until a
\* rollback comes.
AloneInv ==
    Exclusive =>
        /\ rolls > 0 => pc = "idle"
        /\ rpc # "idle" => rolls > 0
        /\ rolls = 0 => IInv
        /\ IKept /\ PruneInv

\* The first n managed paths are as in the snapshot, if it has them, and the others
\* as they were.
GivenBack(n) ==
    \A p \in Path : live[p] = IF p \in First(Managed, n) /\ backup[target][p] # Absent
                              THEN backup[target][p] ELSE before[p]

RollbackInv ==
    /\ rpc = "restore" => rk <= Len(Managed)
    /\ Exclusive =>
        /\ rpc = "restore" => GivenBack(rk - 1)
        /\ rpc = "reload" \/ (RollbackDone /\ rolls > 0) => GivenBack(Len(Managed))

Saved == ts \in snaps /\ backup[ts] = pre

Chosen == rpc \in {"restore", "reload"} \/ RollbackDone

\* An apply that leaves the live files changed leaves its own snapshot, as the
\* latest one, which the first rollback after it takes by default.
UndoInv ==
    Exclusive /\ MonotoneClock =>
        /\ outcome \in {"ok", "rolledback"} => Saved
        /\ outcome = "died" =>
            \/ Saved
            \/ rolls = 0 /\ live = pre
            \/ rolls = 1 /\ rpc = "list" /\ live = pre
            \/ rolls = 1 /\ Chosen /\ before = pre
            \/ rolls = 1 /\ rpc = "idle" /\ ~RollbackDone
            \/ rolls > 1
        /\ rolls = 1 /\ Chosen /\ latest /\ Saved => target = ts

-----------------------------------------------------------------------------
(* What the documentation says and the code does not do *)

\* rollback --help: "replaces the managed files ... with the contents of a
\* snapshot".  The latest entry may be a snapshot that was never completed, with a
\* file cut short, and a rollback by default installs it.
RollbackGivesWholeFiles ==
    RollbackDone /\ latest /\ (\A p \in Path : before[p] # Torn) => \A p \in Path : live[p] # Torn
=============================================================================
