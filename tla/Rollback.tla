------------------------------ MODULE Rollback ------------------------------
(***************************************************************************)
(* wrtbox rollback: list the snapshots, take the latest or the one named   *)
(* by --to, copy its files back and reload the services.  It takes no      *)
(* snapshot of its own and no lock.                                        *)
(***************************************************************************)
EXTENDS Router, Services

VARIABLES
    (* the router *)
    live, backup, snaps, loaded,
    (* the command *)
    rpc, rk,    \* its stage, and the index of restore's loop
    rconn,      \* its ssh connection
    target,     \* the snapshot it restores
    latest,     \* target was chosen by default
    rresult,    \* how the last one ended
    (* history *)
    before      \* the managed files when it began to restore

rfilesVars == <<live, backup, snaps, loaded>>
rchoiceVars == <<target, latest, before>>
rvars == <<live, backup, snaps, loaded, rpc, rk, rconn, target, latest, rresult, before>>

RTypeOK ==
    /\ rpc \in {"idle", "list", "restore", "reload"}
    /\ rk \in Nat \ {0}
    /\ rconn \in Conn
    /\ target \in Time
    /\ latest \in BOOLEAN
    /\ rresult \in {"none", "ok", "listed", "failed", "died"}
    /\ before \in Tree

RInit ==
    /\ rpc = "idle" /\ rk = 1 /\ rconn = "up"
    /\ target = (CHOOSE t \in Time : TRUE) /\ latest = FALSE
    /\ rresult = "none" /\ before = EmptyTree

\* Mutant: the loop is left with its index at zero.
REndZero(result) == rpc' = "idle" /\ rk' = 0 /\ rresult' = result

REnd(result) == rpc' = "idle" /\ rk' = 1 /\ rresult' = result

\* The connection is dialled.
RStart ==
    /\ rpc = "idle"
    /\ rpc' = "list" /\ rk' = 1 /\ rconn' = "up" /\ rresult' = "none"
    /\ UNCHANGED <<rfilesVars, rchoiceVars>>

\* ListBackups fails, or there is no snapshot.
RNothing(r) ==
    /\ rpc = "list" /\ (r.err \/ snaps = {})
    /\ rconn' = r.conn
    /\ REnd("failed")
    /\ UNCHANGED <<rfilesVars, rchoiceVars>>

\* --list
RShow(r) ==
    /\ rpc = "list" /\ ~r.err /\ snaps # {}
    /\ rconn' = r.conn
    /\ REnd("listed")
    /\ UNCHANGED <<rfilesVars, rchoiceVars>>

\* The command goes on to restore t.
Choose(t) ==
    /\ target' = t /\ before' = live
    /\ rpc' = "restore" /\ rk' = 1 /\ UNCHANGED rresult

\* Mutant: the list is sorted oldest-first.
Oldest(set) == CHOOSE t \in set : \A u \in set : u >= t

\* snaps[0] of the list sorted newest-first.
Newest(set) == CHOOSE t \in set : \A u \in set : u <= t

RLatest(r) ==
    /\ rpc = "list" /\ ~r.err /\ snaps # {}
    /\ rconn' = r.conn
    /\ latest' = TRUE /\ Choose(Newest(snaps))
    /\ UNCHANGED rfilesVars

\* --to t
RTo(t, r) ==
    /\ rpc = "list" /\ ~r.err /\ snaps # {}
    /\ rconn' = r.conn
    /\ IF t \in snaps THEN latest' = FALSE /\ Choose(t)
                      ELSE REnd("failed") /\ UNCHANGED rchoiceVars
    /\ UNCHANGED rfilesVars

\* Mutants: restore leaves out the last path; it retries the copy that failed.
RAdvanceShort(r) ==
    IF r.err THEN REnd("failed")
    ELSE /\ IF rk < Len(Managed) - 1 THEN rk' = rk + 1 /\ UNCHANGED rpc
                                     ELSE rk' = 1 /\ rpc' = "reload"
         /\ UNCHANGED rresult
RAdvanceRetry(r) ==
    /\ IF r.err THEN UNCHANGED <<rk, rpc>>
       ELSE IF rk < Len(Managed) THEN rk' = rk + 1 /\ UNCHANGED rpc
                                 ELSE rk' = 1 /\ rpc' = "reload"
    /\ UNCHANGED rresult

\* After one path: an error ends the command, else the next path follows.
RAdvance(r) ==
    IF r.err THEN REnd("failed")
    ELSE /\ IF rk < Len(Managed) THEN rk' = rk + 1 /\ UNCHANGED rpc
                                 ELSE rk' = 1 /\ rpc' = "reload"
         /\ UNCHANGED rresult

\* apply.Restore, one managed path.
RRestoreOne(r) ==
    LET p == Managed[rk] IN
    /\ rpc = "restore"
    /\ rconn' = r.conn
    /\ live' = [live EXCEPT ![p] = Copied(r.eff, backup[target][p], @)]
    /\ RAdvance(r)
    /\ UNCHANGED <<backup, snaps, loaded, rchoiceVars>>

RReload(r) ==
    /\ rpc = "reload"
    /\ rconn' = r.conn
    /\ loaded' \in ReloadOutcomes(loaded, live, RollbackReload, r)
    /\ REnd(IF r.err THEN "failed" ELSE "ok")
    /\ UNCHANGED <<live, backup, snaps, rchoiceVars>>

\* The workstation, or wrtbox on it, dies.
RDie ==
    /\ rpc # "idle"
    /\ REnd("died")
    /\ UNCHANGED <<rfilesVars, rconn, rchoiceVars>>

RClient ==
    \E r \in Replies(rconn) :
        \/ RNothing(r) \/ RShow(r) \/ RLatest(r) \/ (\E t \in Time : RTo(t, r))
        \/ RRestoreOne(r) \/ RReload(r)

RNext == RStart \/ RClient \/ RDie
=============================================================================
