------------------------------- MODULE Apply --------------------------------
(***************************************************************************)
(* apply.Run: push a rendered config to the router in seven stages, undo   *)
(* it when a stage after the snapshot fails, prune old snapshots when it   *)
(* succeeds.  One action is one remote call, the only points at which the  *)
(* connection can drop, the command can fail half-way, or the workstation  *)
(* can die.  Runs follow one another; a run picks its config and gets its  *)
(* timestamp from the workstation's clock.                                 *)
(***************************************************************************)
EXTENDS Router, Services

CONSTANTS
    Keep,           \* Options.BackupKeep
    FreshPaths,     \* the managed paths that may not exist on a new router
    VpnLan,         \* the versions that configure vpnlan with an address
    Packages,       \* the versions with required_packages
    PostApply,      \* PostApply[v]: the user's extra reload strings, joined with &&
    MonotoneClock,  \* each run gets a later timestamp than the one before
    MaxRuns         \* bound on the number of runs

ASSUME KeepAssumption == Keep \in Nat \ {0}

ASSUME RunAssumption ==
    /\ FreshPaths \subseteq Path
    /\ VpnLan \subseteq Version
    /\ Packages \subseteq Version
    /\ PostApply \in [Version -> Seq([op : {"&&", "||", ";"}, cmd : STRING])]
    /\ \A v \in Version : PostApply[v] # <<>> => PostApply[v][1].op = "&&"
    /\ MonotoneClock \in BOOLEAN
    /\ MaxRuns \in Nat

\* A service is a name; these are commands of the reload step.
ASSUME ServicesAssumption ==
    /\ ConfigOf \in [Services -> Path]
    /\ Services \cap {"xray restart", "xray start", "xray group", "true"} = {}

VARIABLES
    (* the router *)
    live,       \* the managed files
    staging,    \* /root/wrtbox-staging/<ts>
    backup,     \* /root/wrtbox-backups/<ts>
    snaps,      \* the entries of /root/wrtbox-backups
    loaded,     \* the content each service has loaded
    (* the run *)
    pc, k,      \* the stage, and the index of its loop
    ts, want,   \* res.Timestamp and the config being applied
    conn,       \* the ssh connection
    doomed,     \* ts[keep:] in pruneBackups, what is left of it
    outcome,    \* how the last run ended
    runs,       \* the number of runs started
    (* history *)
    pre,        \* the managed files when the run started
    restored    \* restore() returned nil

filesVars == <<live, staging, backup, snaps>>
runVars == <<ts, want, runs, pre>>
vars == <<live, staging, backup, snaps, loaded, pc, k, ts, want, conn,
          doomed, outcome, runs, pre, restored>>

Stages == {"idle", "probe", "packages", "upload", "uci", "xraytest", "mkbackup",
           "snapshot", "swap", "reload", "pidof", "ping", "list", "prune",
           "clean", "restore", "rereload"}
Outcomes == {"none", "ok", "failed", "rolledback", "died"}

TypeOK ==
    /\ live \in Tree
    /\ staging \in [Time -> Tree]
    /\ backup \in [Time -> Tree]
    /\ snaps \subseteq Time
    /\ loaded \in [Services -> Slot]
    /\ pc \in Stages
    /\ k \in Nat \ {0}
    /\ ts \in Time
    /\ want \in Version
    /\ conn \in Conn
    /\ doomed \subseteq Time
    /\ outcome \in Outcomes
    /\ runs \in Nat
    /\ pre \in Tree
    /\ restored \in BOOLEAN

Init ==
    /\ live \in {Overlay([p \in Path |-> Stock], ps, Absent) : ps \in SUBSET FreshPaths}
    /\ staging = [t \in Time |-> EmptyTree]
    /\ backup = [t \in Time |-> EmptyTree]
    /\ snaps = {}
    /\ loaded = [s \in Services |-> live[ConfigOf[s]]]
    /\ pc = "idle" /\ k = 1
    /\ ts \in Time /\ want \in Version
    /\ conn = "up" /\ doomed = {}
    /\ outcome = "none" /\ runs = 0
    /\ pre = live /\ restored = FALSE

-----------------------------------------------------------------------------
\* Mutant: loops count from zero.
GotoZero(stage) == pc' = stage /\ k' = 0

Goto(stage) == pc' = stage /\ k' = 1

\* `return res, err` or `return res, nil`.
Finish(result) == Goto("idle") /\ outcome' = result

\* An error returns it; nothing was touched so far.
OrFail(r, step) == IF r.err THEN Finish("failed") ELSE step /\ UNCHANGED outcome

\* Mutant: a failure after the snapshot is returned without undoing the swap.
OrReturn(r, step) == IF r.err THEN Finish("failed") ELSE step /\ UNCHANGED outcome

\* Mutant: what fails is tried again.
OrUndoRetries(r, step) == (IF r.err THEN UNCHANGED <<pc, k>> ELSE step) /\ UNCHANGED outcome

\* An error restores the snapshot.
OrUndo(r, step) == (IF r.err THEN Goto("restore") ELSE step) /\ UNCHANGED outcome

\* Mutant: loops leave out their last element.
AdvanceShort(s, next) ==
    IF k < Len(s) - 1 THEN k' = k + 1 /\ pc' = pc ELSE Goto(next)

\* The rest of a loop over s after its k-th element, `next` being what follows.
Advance(s, next) ==
    IF k < Len(s) THEN k' = k + 1 /\ pc' = pc ELSE Goto(next)

\* A run starts: the config is rendered, the connection is dialled.
Start(v, t) ==
    /\ pc = "idle" /\ runs < MaxRuns
    /\ MonotoneClock /\ runs > 0 => t > ts
    /\ Goto("probe")
    /\ ts' = t /\ want' = v /\ runs' = runs + 1
    /\ conn' = "up" /\ doomed' = {} /\ outcome' = "none"
    /\ pre' = live /\ restored' = FALSE
    /\ UNCHANGED <<filesVars, loaded>>

\* test -d /etc/xray || mkdir -p /etc/xray
Probe(r) ==
    /\ pc = "probe"
    /\ conn' = r.conn
    /\ OrFail(r, Goto(IF want \in Packages THEN "packages" ELSE "upload"))
    /\ UNCHANGED <<filesVars, loaded, runVars, doomed, restored>>

\* opkg install: a failure is only logged.
EnsurePackages(r) ==
    /\ pc = "packages"
    /\ conn' = r.conn
    /\ Goto("upload")
    /\ UNCHANGED <<filesVars, loaded, runVars, doomed, outcome, restored>>

UploadOne(r) ==
    LET p == Rendered[want][k] IN
    /\ pc = "upload"
    /\ conn' = r.conn
    /\ staging' = [staging EXCEPT ![ts][p] = Uploaded(r.eff, want, @)]
    /\ OrFail(r, Advance(Rendered[want], "uci"))
    /\ UNCHANGED <<live, backup, snaps, loaded, runVars, doomed, restored>>

Passes(p, c) == <<p, c>> \notin Rejected

\* Mutant: the exit status of `uci show` is not looked at.
UciMasked(tree) == TRUE

\* `uci -c <staging>/etc/config show` parses every file it finds there.
UciAccepts(tree) == \A p \in UciPath : Passes(p, tree[p])

\* Mutant: the script prints the error of `xray -test` and exits 0.
XrayTestMasked(tree) == TRUE

\* One of the three spellings of `xray -test` accepts etc/xray/config.json.
XrayAccepts(tree) == tree[XrayPath] # Absent /\ Passes(XrayPath, tree[XrayPath])

ValidateUci(r) ==
    /\ pc = "uci"
    /\ ~r.err => UciAccepts(staging[ts])
    /\ conn' = r.conn
    /\ OrFail(r, Goto("xraytest"))
    /\ UNCHANGED <<filesVars, loaded, runVars, doomed, restored>>

ValidateXray(r) ==
    /\ pc = "xraytest"
    /\ ~r.err => XrayAccepts(staging[ts])
    /\ conn' = r.conn
    /\ OrFail(r, Goto("mkbackup"))
    /\ UNCHANGED <<filesVars, loaded, runVars, doomed, restored>>

\* snapshot(): mkdir -p of the backup directory.
MkBackup(r) ==
    /\ pc = "mkbackup"
    /\ conn' = r.conn
    /\ snaps' = IF r.eff = "none" THEN snaps ELSE snaps \cup {ts}
    /\ OrFail(r, Goto("snapshot"))
    /\ UNCHANGED <<live, staging, backup, loaded, runVars, doomed, restored>>

\* Mutant: a file that cannot be copied is left out of the snapshot.
SnapshotLenient(r) ==
    LET p == Managed[k] IN
    /\ pc = "snapshot"
    /\ conn' = r.conn
    /\ backup' = [backup EXCEPT ![ts][p] = Copied(r.eff, live[p], @)]
    /\ snaps' = IF r.eff = "none" THEN snaps ELSE snaps \cup {ts}
    /\ Advance(Managed, "swap")
    /\ UNCHANGED <<live, staging, loaded, runVars, doomed, outcome, restored>>

\* snapshot(): copy one managed path, if it exists, in the declared order.
SnapshotOne(r) ==
    LET p == Managed[k] IN
    /\ pc = "snapshot"
    /\ conn' = r.conn
    /\ backup' = [backup EXCEPT ![ts][p] = Copied(r.eff, live[p], @)]
    /\ snaps' = IF r.eff = "none" THEN snaps ELSE snaps \cup {ts}
    /\ OrFail(r, Advance(Managed, "swap"))
    /\ UNCHANGED <<live, staging, loaded, runVars, doomed, restored>>

\* swap(): copy one rendered file from staging over the live path.
SwapOne(r) ==
    LET p == Rendered[want][k] IN
    /\ pc = "swap"
    /\ staging[ts][p] = Absent => r.err
    /\ conn' = r.conn
    /\ live' = [live EXCEPT ![p] = Copied(r.eff, staging[ts][p], @)]
    /\ OrUndo(r, Advance(Rendered[want], "reload"))
    /\ UNCHANGED <<staging, backup, snaps, loaded, runVars, doomed, restored>>

ReloadReply(list, r) ==
    /\ conn' = r.conn
    /\ loaded' \in ReloadOutcomes(loaded, live, list, r)

\* Mutant: the user's commands come first.
MaskedReload == PostApply[want] \o ReloadCmds

\* The strings are joined as they are: an || or ; inside one of them acts on the
\* whole list before it.
FullReload == ReloadCmds \o PostApply[want]

Reload(r) ==
    /\ pc = "reload"
    /\ ReloadReply(FullReload, r)
    /\ OrUndo(r, Goto("pidof"))
    /\ UNCHANGED <<filesVars, runVars, doomed, restored>>

\* postCheck(): pidof xray, then a ping through vpnlan if there is one.
PidofCheck(r) ==
    /\ pc = "pidof"
    /\ conn' = r.conn
    /\ OrUndo(r, Goto(IF want \in VpnLan THEN "ping" ELSE "list"))
    /\ UNCHANGED <<filesVars, loaded, runVars, doomed, restored>>

PingCheck(r) ==
    /\ pc = "ping"
    /\ conn' = r.conn
    /\ OrUndo(r, Goto("list"))
    /\ UNCHANGED <<filesVars, loaded, runVars, doomed, restored>>

\* Mutants: ts[keep-1:], and a list sorted oldest first.
BeyondInclusive(set, keep) == {t \in set : Cardinality({u \in set : u >= t}) >= keep}
BeyondOldest(set, keep) == {t \in set : Cardinality({u \in set : u < t}) >= keep}

\* The snapshots at least keep newer ones follow: ts[keep:], newest first.
Beyond(set, keep) == {t \in set : Cardinality({u \in set : u > t}) >= keep}

\* pruneBackups(): list the backups.  The error is only logged.
ListOld(r) ==
    /\ pc = "list"
    /\ conn' = r.conn
    /\ doomed' = IF r.err THEN {} ELSE Beyond(snaps, Keep)
    /\ Goto(IF doomed' = {} THEN "clean" ELSE "prune")
    /\ UNCHANGED <<filesVars, loaded, runVars, outcome, restored>>

\* pruneBackups(): rm -rf of one of them; the first failure ends the pruning.
StillDoomed(t, r) == IF r.err THEN {} ELSE doomed \ {t}

PruneOne(t, r) ==
    /\ pc = "prune"
    /\ t \in doomed /\ \A u \in doomed : u <= t
    /\ conn' = r.conn
    /\ \E tree \in Removed(r.eff, backup[t]) : backup' = [backup EXCEPT ![t] = tree]
    /\ snaps' = IF r.eff = "all" THEN snaps \ {t} ELSE snaps
    /\ doomed' = StillDoomed(t, r)
    /\ Goto(IF doomed' = {} THEN "clean" ELSE "prune")
    /\ UNCHANGED <<live, staging, loaded, runVars, outcome, restored>>

\* rm -rf of the staging directory; the error is ignored.
Clean(r) ==
    /\ pc = "clean"
    /\ conn' = r.conn
    /\ \E tree \in Removed(r.eff, staging[ts]) : staging' = [staging EXCEPT ![ts] = tree]
    /\ Finish("ok")
    /\ UNCHANGED <<live, backup, snaps, loaded, runVars, doomed, restored>>

\* Mutant: restore() goes on after a failure and returns nil.
RestoreLenient(r) ==
    LET p == Managed[k] IN
    /\ pc = "restore"
    /\ conn' = r.conn
    /\ live' = [live EXCEPT ![p] = Copied(r.eff, backup[ts][p], @)]
    /\ Advance(Managed, "rereload")
    /\ restored' = (k = Len(Managed))
    /\ UNCHANGED <<staging, backup, snaps, loaded, runVars, doomed, outcome>>

\* restore(): copy one managed path back, if the snapshot has it.  The first
\* failure ends the restore, and its callers in Run ignore the error.
RestoreOne(r) ==
    LET p == Managed[k] IN
    /\ pc = "restore"
    /\ conn' = r.conn
    /\ live' = [live EXCEPT ![p] = Copied(r.eff, backup[ts][p], @)]
    /\ IF r.err THEN Goto("rereload") ELSE Advance(Managed, "rereload")
    /\ restored' = (~r.err /\ k = Len(Managed))
    /\ UNCHANGED <<staging, backup, snaps, loaded, runVars, doomed, outcome>>

\* The reload after a restore; its error is ignored too.
Rereload(r) ==
    /\ pc = "rereload"
    /\ ReloadReply(ReloadCmds, r)
    /\ Finish("rolledback")
    /\ UNCHANGED <<filesVars, runVars, doomed, restored>>

\* The workstation, or wrtbox on it, dies mid-run.
Die ==
    /\ pc # "idle"
    /\ Finish("died")
    /\ UNCHANGED <<filesVars, loaded, runVars, conn, doomed, restored>>

-----------------------------------------------------------------------------
\* The run's next remote call.
Client ==
    \E r \in Replies(conn) :
        \/ Probe(r) \/ EnsurePackages(r) \/ UploadOne(r)
        \/ ValidateUci(r) \/ ValidateXray(r)
        \/ MkBackup(r) \/ SnapshotOne(r) \/ SwapOne(r)
        \/ Reload(r) \/ PidofCheck(r) \/ PingCheck(r)
        \/ ListOld(r) \/ (\E t \in doomed : PruneOne(t, r)) \/ Clean(r)
        \/ RestoreOne(r) \/ Rereload(r)

Next ==
    \/ \E v \in Version, t \in Time : Start(v, t)
    \/ Client
    \/ Die

Spec == Init /\ [][Next]_vars

\* Every remote call returns: see the README for what that takes for granted.
FairSpec == Spec /\ WF_vars(Client)

-----------------------------------------------------------------------------
(* Properties *)

\* From the first write to a live file until the post-check has passed, and
\* after a restore that failed or a workstation that died, everything the run
\* overwrote is in the run's own snapshot (apply.go steps 4 to 7; SECURITY.md
\* sends the operator there when the workstation dies).
Recoverable ==
    \/ live = pre
    \/ ts \in snaps /\ backup[ts] = pre
    \/ /\ live = Installed(pre, want)
       /\ pc \in {"list", "prune", "clean"} \/ outcome \in {"ok", "died"}

\* What Run returns tells what is on the router: an error before the swap means
\* no managed file was touched, success means exactly the rendered files were
\* replaced, and a rollback whose restore went through means every file that
\* existed before is back.
OutcomeTruthful ==
    /\ outcome = "failed" => live = pre
    /\ outcome = "ok" => live = Installed(pre, want)
    /\ outcome = "rolledback" /\ restored => Undone(live, pre, want)

\* No uci file and no xray config goes live that `uci show` or `xray -test`
\* refuses (validateStaging before swap).
OnlyVetted ==
    \A p \in UciPath \cup {XrayPath} : live[p] \in Version => Passes(p, live[p])

\* These services have read the files now live.
UpToDate(services) == \A s \in Services \cap services : loaded[s] = live[ConfigOf[s]]

TailServices ==
    Vouched(PostApply[want])
    \cup IF \A i \in 1..Len(PostApply[want]) : PostApply[want][i].op = "&&" THEN {"wifi"} ELSE {}

\* When a run reports success, the services of the user's commands after the last
\* || or ; of theirs have read the files now live, and with none, wifi has too.
TailReloaded == outcome = "ok" => UpToDate(TailServices)

\* With a clock that moves forward, pruning never takes the snapshot of the run
\* that prunes: a successful apply can still be undone.
OwnSnapshotKept ==
    MonotoneClock /\ outcome = "ok" => ts \in snaps /\ backup[ts] = pre

Shrinks(t) ==
    t \notin snaps' \/ \E p \in Path : backup[t][p] # Absent /\ backup'[t][p] = Absent

\* A snapshot loses a file or goes away only while Keep newer ones remain
\* (pruneBackups with ts[keep:]).
PruneKeepsNewest ==
    [][\A t \in snaps : Shrinks(t) => Cardinality({u \in snaps' : u > t}) >= Keep]_vars

\* A run that begins to overwrite live files does not stop in the middle: it
\* succeeds, rolls back, or the workstation dies.
Resolves == (pc = "swap") ~> (pc = "idle" /\ outcome \in {"ok", "rolledback", "died"})

-----------------------------------------------------------------------------
(* The inductive invariant, by what its parts are about *)

BeforeSwap == {"probe", "packages", "upload", "uci", "xraytest", "mkbackup", "snapshot"}
Swapped == {"reload", "pidof", "ping", "list", "prune", "clean"}
Guarded == {"swap", "reload", "pidof", "ping", "restore", "rereload"}

\* A managed file that exists is never removed, so that a snapshot directory
\* used twice in a second holds no file that is gone since.
IKept == \A t \in Time, p \in Path : backup[t][p] # Absent => live[p] # Absent

ILoop ==
    /\ pc \in {"upload", "swap"} => k <= Len(Rendered[want])
    /\ pc \in {"snapshot", "restore"} => k <= Len(Managed)

IStaged ==
    /\ pc = "upload" => \A p \in First(Rendered[want], k - 1) : staging[ts][p] = want
    /\ pc \in {"uci", "xraytest", "mkbackup", "snapshot", "swap"} =>
            \A p \in FilesOf(want) : staging[ts][p] = want

ILive ==
    /\ pc \in BeforeSwap => live = pre
    /\ pc = "swap" => live = Overlay(pre, First(Rendered[want], k - 1), want)
    /\ pc \in Swapped => live = Installed(pre, want)
    /\ pc \in {"restore", "rereload"} => Mixed(live, pre, want)
    /\ pc = "restore" => \A p \in First(Managed, k - 1) : pre[p] # Absent => live[p] = pre[p]
    /\ pc = "rereload" /\ restored => Undone(live, pre, want)

ISnapshot ==
    /\ pc = "snapshot" => \A p \in First(Managed, k - 1) : backup[ts][p] = pre[p]
    /\ pc \in Guarded \cup {"snapshot"} => ts \in snaps
    /\ pc \in Guarded => backup[ts] = pre

IOutcome ==
    /\ pc # "idle" => outcome = "none"
    /\ restored => pc \in {"rereload", "idle"}

IInv == IKept /\ ILoop /\ IStaged /\ ILive /\ ISnapshot /\ IOutcome
        /\ Recoverable /\ OutcomeTruthful

\* What is staged has passed the validations done so far; snapshots are copies of
\* what was live.  Why OnlyVetted holds.
VetInv ==
    /\ OnlyVetted
    /\ \A t \in Time, p \in UciPath \cup {XrayPath} :
            backup[t][p] \in Version => Passes(p, backup[t][p])
    /\ pc \in {"xraytest", "mkbackup", "snapshot", "swap"} => UciAccepts(staging[ts])
    /\ pc \in {"mkbackup", "snapshot", "swap"} => XrayAccepts(staging[ts])

\* A snapshot is doomed only if enough newer ones exist, and with a clock that
\* moves forward none is newer than the run's own.  Why PruneKeepsNewest and
\* OwnSnapshotKept hold.
PruneInv ==
    /\ IsFiniteSet(snaps)
    /\ doomed \subseteq snaps
    /\ \A t \in doomed : Cardinality({u \in snaps : u > t}) >= Keep
    /\ doomed # {} => pc \in {"prune", "idle"}
    /\ pc # "idle" => runs > 0
    /\ runs = 0 => snaps = {} /\ outcome = "none"
    /\ MonotoneClock =>
            /\ \A t \in snaps : t <= ts
            /\ pc \in {"list", "prune", "clean"} => ts \in snaps /\ ts \notin doomed /\ backup[ts] = pre
            /\ OwnSnapshotKept

\* From the reload that succeeded on, the services of its tail are up to date.
TailInv == pc \in Swapped \ {"reload"} \/ outcome = "ok" => UpToDate(TailServices)

-----------------------------------------------------------------------------
\* While a run is under way the operator still counts on what was there before.
RouterView == IF pc = "idle" THEN live ELSE pre

Atomic == INSTANCE AtomicRouter WITH
    tree <- RouterView,
    busy <- pc # "idle",
    restored <- pc = "idle" /\ restored

\* Seen between runs, apply.Run is one step of AtomicRouter: what its callers
\* and the README take it for.
ImplementsAtomic == Atomic!ASpec

-----------------------------------------------------------------------------
(* What the documentation says and the code does not do *)

\* apply --help: "On any failure past the snapshot step it automatically rolls
\* back".  Run ignores what restore() returns and reports a rollback.
RollbackRestores ==
    outcome = "rolledback" => \A p \in Path : pre[p] # Absent => live[p] = pre[p]

\* README: "the router is rolled back to the pre-apply snapshot".  A restore
\* that went through leaves the files the apply created.
RollbackLeavesCleanState == outcome = "rolledback" /\ restored => live = pre

\* apply.go on the reload stage: "any failure triggers rollback".  Unless the
\* stage rolls back, network and firewall have read the new files.
ReloadFailureSeen ==
    pc \in {"pidof", "ping", "list"} => UpToDate({"network", "firewall"})
=============================================================================
