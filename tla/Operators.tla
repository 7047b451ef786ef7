----------------------------- MODULE Operators -----------------------------
(***************************************************************************)
(* Two operators apply to the same router at once.  Nothing locks it: what *)
(* they have in common are the live files and the directories under        *)
(* /root/wrtbox-staging and /root/wrtbox-backups, named by a timestamp in  *)
(* seconds.  The second operator's run is Apply again, with a program      *)
(* counter, a connection and a history of its own.                         *)
(***************************************************************************)
EXTENDS Apply

CONSTANT Distinct   \* the operators never start in the same second

ASSUME OperatorsAssumption == Distinct \in BOOLEAN

VARIABLES pcB, kB, tsB, wantB, connB, doomedB, outcomeB, runsB, preB, restoredB

other == INSTANCE Apply WITH
    pc <- pcB, k <- kB, ts <- tsB, want <- wantB, conn <- connB, doomed <- doomedB,
    outcome <- outcomeB, runs <- runsB, pre <- preB, restored <- restoredB

ownA == <<pc, k, ts, want, conn, doomed, outcome, runs, pre, restored>>
ownB == <<pcB, kB, tsB, wantB, connB, doomedB, outcomeB, runsB, preB, restoredB>>
ovars == <<vars, ownB>>

OInit == Init /\ other!Init

Apart(t, u, started) == Distinct /\ started > 0 => t # u

StartA(v, t) == Apart(t, tsB, runsB) /\ Start(v, t) /\ UNCHANGED ownB
StartB(v, t) == Apart(t, ts, runs) /\ other!Start(v, t) /\ UNCHANGED ownA

ONext ==
    \/ \E v \in Version, t \in Time : StartA(v, t) \/ StartB(v, t)
    \/ (Client \/ Die) /\ UNCHANGED ownB
    \/ (other!Client \/ other!Die) /\ UNCHANGED ownA

OSpec == OInit /\ [][ONext]_ovars

-----------------------------------------------------------------------------
(* Properties *)

\* Whatever the other operator does meanwhile, no file goes live that the run it
\* comes from did not have accepted (validateStaging before swap), unless both
\* started in the same second.
VettedApart == Distinct => OnlyVetted

\* Pruning takes from a snapshot, the other run's included while it may still restore
\* it, only when Keep newer ones are there and stay (pruneBackups), however old the
\* lists are that the two prune from.
RunKeepsSnapshot ==
    [][\A t \in snaps : Shrinks(t) => Cardinality({u \in snaps' : u > t}) >= Keep]_ovars

-----------------------------------------------------------------------------
(* Why they hold *)

\* Each run validates what only it stages, and their seconds differ.
ApartInv ==
    /\ TypeOK /\ other!TypeOK /\ ILoop /\ other!ILoop
    /\ pc # "idle" => runs > 0
    /\ pcB # "idle" => runsB > 0
    /\ Distinct => VetInv /\ other!VetInv /\ (runs > 0 /\ runsB > 0 => ts # tsB)

\* What either run is about to prune has Keep newer snapshots: removing one of them
\* takes none of the snapshots newer than it, nor the last Keep of an older one.
DoomedInv ==
    /\ IsFiniteSet(snaps)
    /\ \A t \in doomed \cup doomedB : Cardinality({u \in snaps : u > t}) >= Keep

-----------------------------------------------------------------------------
(* What several operators cannot count on *)

\* Both runs are past their swap, and the router has neither the one config nor the
\* other.
NotMixed ==
    pc \in Swapped /\ pcB \in Swapped /\ want # wantB => \E v \in Version : live = Installed(pre, v)

\* --backup-keep 1: the other run prunes the snapshot before it is restored.
SnapshotOutlivesRun == [][~(pc \in Guarded /\ Shrinks(ts))]_ovars
=============================================================================
