-------------------------- MODULE OperatorsProofs ---------------------------
(***************************************************************************)
(* What two operators can count on, for every set of paths, configs and    *)
(* timestamps and every number of runs: nothing unvetted goes live if they *)
(* start in different seconds, and what either prunes has newer snapshots. *)
(***************************************************************************)
EXTENDS Operators, ApplyProofs

\* What is proved of a run of Apply holds of the second operator's runs.
theirs == INSTANCE ApplyProofs WITH
    pc <- pcB, k <- kB, ts <- tsB, want <- wantB, conn <- connB, doomed <- doomedB,
    outcome <- outcomeB, runs <- runsB, pre <- preB, restored <- restoredB

-----------------------------------------------------------------------------
(* The second operator's run is Apply again *)

\* Its steps,
LEMMA TheirStep ==
    ASSUME other!Client \/ other!Die \/ \E v \in Version, t \in Time : other!Start(v, t)
    PROVE  theirs!Next
<1>1. ASSUME NEW r PROVE other!Probe(r) => theirs!Probe(r)
  BY DEF other!Probe, theirs!Probe, other!OrFail, theirs!OrFail, other!Finish, theirs!Finish, other!Goto,
     theirs!Goto, other!filesVars, theirs!filesVars, other!runVars, theirs!runVars
<1>2. ASSUME NEW r PROVE other!EnsurePackages(r) => theirs!EnsurePackages(r)
  BY DEF other!EnsurePackages, theirs!EnsurePackages, other!Goto, theirs!Goto, other!filesVars,
     theirs!filesVars, other!runVars, theirs!runVars
<1>3. ASSUME NEW r PROVE other!UploadOne(r) => theirs!UploadOne(r)
  BY DEF other!UploadOne, theirs!UploadOne, other!OrFail, theirs!OrFail, other!Finish, theirs!Finish,
     other!Goto, theirs!Goto, other!Advance, theirs!Advance, other!Uploaded, theirs!Uploaded,
     other!runVars, theirs!runVars
<1>4. ASSUME NEW r PROVE other!ValidateUci(r) => theirs!ValidateUci(r)
  BY DEF other!ValidateUci, theirs!ValidateUci, other!UciAccepts, theirs!UciAccepts, other!Passes,
     theirs!Passes, other!OrFail, theirs!OrFail, other!Finish, theirs!Finish, other!Goto, theirs!Goto,
     other!filesVars, theirs!filesVars, other!runVars, theirs!runVars
<1>5. ASSUME NEW r PROVE other!ValidateXray(r) => theirs!ValidateXray(r)
  BY DEF other!ValidateXray, theirs!ValidateXray, other!XrayAccepts, theirs!XrayAccepts, other!Passes,
     theirs!Passes, other!OrFail, theirs!OrFail, other!Finish, theirs!Finish, other!Goto, theirs!Goto,
     other!filesVars, theirs!filesVars, other!runVars, theirs!runVars
<1>6. ASSUME NEW r PROVE other!MkBackup(r) => theirs!MkBackup(r)
  BY DEF other!MkBackup, theirs!MkBackup, other!OrFail, theirs!OrFail, other!Finish, theirs!Finish,
     other!Goto, theirs!Goto, other!runVars, theirs!runVars
<1>7. ASSUME NEW r PROVE other!SnapshotOne(r) => theirs!SnapshotOne(r)
  BY DEF other!SnapshotOne, theirs!SnapshotOne, other!OrFail, theirs!OrFail, other!Finish, theirs!Finish,
     other!Goto, theirs!Goto, other!Advance, theirs!Advance, other!Copied, theirs!Copied, other!runVars,
     theirs!runVars
<1>8. ASSUME NEW r PROVE other!SwapOne(r) => theirs!SwapOne(r)
  BY DEF other!SwapOne, theirs!SwapOne, other!OrUndo, theirs!OrUndo, other!Goto, theirs!Goto, other!Advance,
     theirs!Advance, other!Copied, theirs!Copied, other!runVars, theirs!runVars
<1>9. ASSUME NEW r PROVE other!Reload(r) => theirs!Reload(r)
  BY DEF other!Reload, theirs!Reload, other!FullReload, theirs!FullReload,
     other!ReloadCmds, theirs!ReloadCmds, other!ReloadReply, theirs!ReloadReply, other!ReloadOutcomes,
     theirs!ReloadOutcomes, other!LoadedAfter, theirs!LoadedAfter, other!Executions, theirs!Executions,
     other!Exits, theirs!Exits, other!Runs, theirs!Runs, other!Infallible, theirs!Infallible,
     other!Status, theirs!Status, other!Ran, theirs!Ran, other!Target, theirs!Target, other!Reloaded,
     theirs!Reloaded, other!OrUndo, theirs!OrUndo, other!Goto, theirs!Goto, other!filesVars,
     theirs!filesVars, other!runVars, theirs!runVars
<1>10. ASSUME NEW r PROVE other!PidofCheck(r) => theirs!PidofCheck(r)
  BY DEF other!PidofCheck, theirs!PidofCheck, other!OrUndo, theirs!OrUndo, other!Goto, theirs!Goto,
     other!filesVars, theirs!filesVars, other!runVars, theirs!runVars
<1>11. ASSUME NEW r PROVE other!PingCheck(r) => theirs!PingCheck(r)
  BY DEF other!PingCheck, theirs!PingCheck, other!OrUndo, theirs!OrUndo, other!Goto, theirs!Goto,
     other!filesVars, theirs!filesVars, other!runVars, theirs!runVars
<1>12. \A set, keep : other!Beyond(set, keep) = theirs!Beyond(set, keep)
  BY DEF other!Beyond, theirs!Beyond, other!Cardinality, theirs!Cardinality
<1>13. ASSUME NEW r PROVE other!ListOld(r) => theirs!ListOld(r)
  BY <1>12 DEF other!ListOld, theirs!ListOld, other!Goto, theirs!Goto, other!filesVars, theirs!filesVars,
     other!runVars, theirs!runVars
<1>14. ASSUME NEW r, NEW t PROVE other!PruneOne(t, r) => theirs!PruneOne(t, r)
  BY DEF other!PruneOne, theirs!PruneOne, other!StillDoomed, theirs!StillDoomed, other!Removed,
     theirs!Removed, other!Overlay, theirs!Overlay, other!EmptyTree, theirs!EmptyTree, other!Goto,
     theirs!Goto, other!runVars, theirs!runVars
<1>15. ASSUME NEW r PROVE other!Clean(r) => theirs!Clean(r)
  BY DEF other!Clean, theirs!Clean, other!Removed, theirs!Removed, other!Overlay, theirs!Overlay,
     other!EmptyTree, theirs!EmptyTree, other!Finish, theirs!Finish, other!Goto, theirs!Goto,
     other!runVars, theirs!runVars
<1>16. ASSUME NEW r PROVE other!RestoreOne(r) => theirs!RestoreOne(r)
  BY DEF other!RestoreOne, theirs!RestoreOne, other!Goto, theirs!Goto, other!Advance, theirs!Advance,
     other!Copied, theirs!Copied, other!runVars, theirs!runVars
<1>17. ASSUME NEW r PROVE other!Rereload(r) => theirs!Rereload(r)
  BY DEF other!Rereload, theirs!Rereload, other!ReloadCmds, theirs!ReloadCmds, other!ReloadReply,
     theirs!ReloadReply, other!ReloadOutcomes, theirs!ReloadOutcomes, other!LoadedAfter,
     theirs!LoadedAfter, other!Executions, theirs!Executions, other!Exits, theirs!Exits, other!Runs,
     theirs!Runs, other!Infallible, theirs!Infallible, other!Status, theirs!Status, other!Ran,
     theirs!Ran, other!Target, theirs!Target, other!Reloaded, theirs!Reloaded, other!Finish,
     theirs!Finish, other!Goto, theirs!Goto, other!filesVars, theirs!filesVars, other!runVars,
     theirs!runVars
<1>18. ASSUME NEW v, NEW t PROVE other!Start(v, t) => theirs!Start(v, t)
  BY DEF other!Start, theirs!Start, other!Goto, theirs!Goto, other!filesVars, theirs!filesVars
<1>19. other!Die => theirs!Die
  BY DEF other!Die, theirs!Die, other!Finish, theirs!Finish, other!Goto, theirs!Goto, other!filesVars,
     theirs!filesVars, other!runVars, theirs!runVars
<1>20. other!Client => theirs!Client
  BY <1>1, <1>2, <1>3, <1>4, <1>5, <1>6, <1>7, <1>8, <1>9, <1>10, <1>11, <1>13, <1>14, <1>15, <1>16, <1>17
     DEF other!Client, theirs!Client, other!Replies, theirs!Replies, other!Reply, theirs!Reply,
     other!Effect, theirs!Effect, other!Conn, theirs!Conn
<1>. QED
  BY <1>18, <1>19, <1>20 DEF theirs!Next

\* and its invariants.
LEMMA TheirTypes == (other!TypeOK <=> theirs!TypeOK) /\ (other!TypeOK' <=> theirs!TypeOK')
BY DEF other!TypeOK, theirs!TypeOK, other!Tree, theirs!Tree, other!Slot, theirs!Slot, other!Content,
   theirs!Content, other!Stages, theirs!Stages, other!Conn, theirs!Conn, other!Outcomes,
   theirs!Outcomes

LEMMA TheirLoops == (other!ILoop <=> theirs!ILoop) /\ (other!ILoop' <=> theirs!ILoop')
BY DEF other!ILoop, theirs!ILoop

LEMMA TheirVetting == (other!VetInv <=> theirs!VetInv) /\ (other!VetInv' <=> theirs!VetInv')
BY DEF other!VetInv, theirs!VetInv, other!OnlyVetted, theirs!OnlyVetted, other!Passes, theirs!Passes,
   other!UciAccepts, theirs!UciAccepts, other!XrayAccepts, theirs!XrayAccepts

\* What Apply assumes of its constants holds for both; what follows is the lemmas on
\* one run, for theirs.
LEMMA TheirStepType == theirs!TypeOK /\ theirs!ILoop /\ [theirs!Next]_theirs!vars => theirs!TypeOK' /\ theirs!ILoop'
BY theirs!StepType, PathsAssumption, ContentAssumption, TimeAssumption, KeepAssumption, RunAssumption,
   ServicesAssumption DEF First, theirs!First, FilesOf, theirs!FilesOf

LEMMA TheirStepVet ==
    ASSUME theirs!TypeOK, theirs!ILoop, theirs!VetInv, [theirs!Next]_theirs!vars
    PROVE  theirs!VetInv'
BY theirs!StepVet, PathsAssumption, ContentAssumption, TimeAssumption, KeepAssumption, RunAssumption,
   ServicesAssumption DEF First, theirs!First, FilesOf, theirs!FilesOf

LEMMA TheirStaging ==
    ASSUME theirs!TypeOK, [theirs!Next]_theirs!vars, NEW t \in Time, t # tsB'
    PROVE  staging'[t] = staging[t]
BY theirs!OwnStaging, PathsAssumption, ContentAssumption, TimeAssumption, KeepAssumption, RunAssumption,
   ServicesAssumption DEF First, theirs!First, FilesOf, theirs!FilesOf

LEMMA TheirStartCounts ==
    ASSUME [theirs!Next]_theirs!vars
    PROVE  \/ \E v \in Version, t \in Time : theirs!Start(v, t)
           \/ /\ UNCHANGED <<tsB, runsB>> /\ (pcB' # "idle" => pcB # "idle")
              /\ pcB = "idle" => UNCHANGED theirs!vars
BY theirs!StartCounts, PathsAssumption, ContentAssumption, TimeAssumption, KeepAssumption, RunAssumption,
   ServicesAssumption DEF First, theirs!First, FilesOf, theirs!FilesOf

LEMMA TheirOnlyPruneShrinks ==
    ASSUME other!TypeOK, other!ILoop, [theirs!Next]_theirs!vars, NEW t \in snaps, Shrinks(t)
    PROVE  \E r \in theirs!Replies(connB), m \in doomedB : theirs!PruneOne(m, r)
<1>1. theirs!Shrinks(t)
  BY DEF Shrinks, theirs!Shrinks
<1>. QED
  BY <1>1, TheirTypes, TheirLoops, theirs!OnlyPruneShrinks, PathsAssumption, ContentAssumption, TimeAssumption, KeepAssumption, RunAssumption,
   ServicesAssumption DEF First, theirs!First, FilesOf, theirs!FilesOf

LEMMA TheirStepDooms ==
    ASSUME other!TypeOK, [theirs!Next]_theirs!vars, IsFiniteSet(snaps)
    PROVE  /\ IsFiniteSet(snaps')
           /\ \A t \in doomedB' : t \in doomedB \/ Cardinality({u \in snaps : u > t}) >= Keep
           /\ snaps \subseteq snaps' \/ \E m \in doomedB : snaps' = snaps \ {m}
<1>1. \A set : theirs!Cardinality(set) = Cardinality(set) /\ theirs!IsFiniteSet(set) = IsFiniteSet(set)
  BY DEF Cardinality, theirs!Cardinality, IsFiniteSet, theirs!IsFiniteSet
<1>. QED
  BY <1>1, TheirTypes, theirs!StepDooms, PathsAssumption, ContentAssumption, TimeAssumption, KeepAssumption, RunAssumption,
   ServicesAssumption DEF First, theirs!First, FilesOf, theirs!FilesOf

-----------------------------------------------------------------------------
(* The two operators *)

\* A step of one operator leaves the other's run where it is.
LEMMA RunsApart ==
    /\ TypeOK' /\ other!TypeOK /\ UNCHANGED ownB => other!TypeOK'
    /\ other!TypeOK' /\ TypeOK /\ UNCHANGED ownA => TypeOK'
    /\ other!ILoop /\ UNCHANGED ownB => other!ILoop'
    /\ ILoop /\ UNCHANGED ownA => ILoop'
<1>1. TypeOK' /\ other!TypeOK /\ UNCHANGED ownB => other!TypeOK'
  BY DEF ownB, TypeOK, other!TypeOK, Tree, other!Tree, Slot, other!Slot, Content, other!Content, Stages,
     other!Stages, Conn, other!Conn, Outcomes, other!Outcomes
<1>2. other!TypeOK' /\ TypeOK /\ UNCHANGED ownA => TypeOK'
  BY DEF ownA, TypeOK, other!TypeOK, Tree, other!Tree, Slot, other!Slot, Content, other!Content, Stages,
     other!Stages, Conn, other!Conn, Outcomes, other!Outcomes
<1>3. other!ILoop /\ UNCHANGED ownB => other!ILoop'
  BY DEF ownB, other!ILoop
<1>4. ILoop /\ UNCHANGED ownA => ILoop'
  BY DEF ownA, ILoop
<1>. QED
  BY <1>1, <1>2, <1>3, <1>4

\* What is live and saved is vetted for both, and what one has staged stays as it
\* was when only the other's staging directory changes.
LEMMA VettingApart ==
    /\ VetInv' /\ other!VetInv /\ UNCHANGED ownB /\ (pcB # "idle" => staging'[tsB] = staging[tsB])
       => other!VetInv'
    /\ other!VetInv' /\ VetInv /\ UNCHANGED ownA /\ (pc # "idle" => staging'[ts] = staging[ts])
       => VetInv'
<1>1. /\ VetInv' /\ other!VetInv /\ UNCHANGED ownB /\ (pcB # "idle" => staging'[tsB] = staging[tsB])
      => other!VetInv'
  BY DEF ownB, VetInv, other!VetInv, OnlyVetted, other!OnlyVetted, Passes, other!Passes, UciAccepts,
     other!UciAccepts, XrayAccepts, other!XrayAccepts
<1>2. /\ other!VetInv' /\ VetInv /\ UNCHANGED ownA /\ (pc # "idle" => staging'[ts] = staging[ts])
      => VetInv'
  BY DEF ownA, VetInv, other!VetInv, OnlyVetted, other!OnlyVetted, Passes, other!Passes, UciAccepts,
     other!UciAccepts, XrayAccepts, other!XrayAccepts
<1>. QED
  BY <1>1, <1>2

\* A step of the first operator,
LEMMA FirstApart ==
    ASSUME ApartInv, [Next]_vars, UNCHANGED ownB,
           \A v \in Version, t \in Time : Start(v, t) => Apart(t, tsB, runsB)
    PROVE  ApartInv'
<1>. USE DEF ApartInv
<1>1. TypeOK' /\ ILoop' /\ other!TypeOK' /\ other!ILoop'
  BY StepType, RunsApart
<1>2. ASSUME NEW v \in Version, NEW t \in Time, Start(v, t)
      PROVE  runs' > 0 /\ (Distinct /\ runsB > 0 => ts' # tsB)
  BY <1>2 DEF Start, Apart, TypeOK
<1>3. /\ (pc' # "idle" => runs' > 0) /\ (pcB' # "idle" => runsB' > 0)
      /\ Distinct /\ runs' > 0 /\ runsB' > 0 => ts' # tsB'
  BY <1>2, StartCounts DEF ownB
<1>4. ASSUME Distinct PROVE VetInv' /\ other!VetInv'
  <2>1. VetInv'
    BY <1>4, StepVet
  <2>2. ASSUME pcB # "idle" PROVE staging'[tsB] = staging[tsB]
    <3>1. CASE runs' > 0
      <4>1. tsB # ts' /\ tsB \in Time
        BY <1>3, <1>4, <2>2, <3>1 DEF ownB, other!TypeOK
      <4>. QED
        BY <4>1, OwnStaging
    <3>2. CASE ~(runs' > 0)
      <4>1. UNCHANGED vars
        BY <1>2, <3>2, StartCounts
      <4>. QED
        BY <4>1 DEF vars
    <3>. QED
      BY <3>1, <3>2
  <2>. QED
    BY <1>4, <2>1, <2>2, VettingApart
<1>. QED
  BY <1>1, <1>3, <1>4

\* and one of the second.
LEMMA SecondApart ==
    ASSUME ApartInv, [theirs!Next]_theirs!vars, UNCHANGED ownA,
           \A v \in Version, t \in Time : theirs!Start(v, t) => Apart(t, ts, runs)
    PROVE  ApartInv'
<1>. USE DEF ApartInv
<1>1. TypeOK' /\ ILoop' /\ other!TypeOK' /\ other!ILoop'
  BY TheirStepType, TheirTypes, TheirLoops, RunsApart
<1>2. ASSUME NEW v \in Version, NEW t \in Time, theirs!Start(v, t)
      PROVE  runsB' > 0 /\ (Distinct /\ runs > 0 => tsB' # ts)
  BY <1>2 DEF theirs!Start, Apart, other!TypeOK
<1>3. /\ (pc' # "idle" => runs' > 0) /\ (pcB' # "idle" => runsB' > 0)
      /\ Distinct /\ runs' > 0 /\ runsB' > 0 => ts' # tsB'
  BY <1>2, TheirStartCounts DEF ownA
<1>4. ASSUME Distinct PROVE VetInv' /\ other!VetInv'
  <2>1. other!VetInv'
    BY <1>4, TheirStepVet, TheirTypes, TheirLoops, TheirVetting
  <2>2. ASSUME pc # "idle" PROVE staging'[ts] = staging[ts]
    <3>1. CASE runsB' > 0
      <4>1. ts # tsB' /\ ts \in Time
        BY <1>3, <1>4, <2>2, <3>1 DEF ownA, TypeOK
      <4>. QED
        BY <4>1, TheirStaging, TheirTypes
    <3>2. CASE ~(runsB' > 0)
      <4>1. UNCHANGED theirs!vars
        BY <1>2, <3>2, TheirStartCounts
      <4>. QED
        BY <4>1 DEF theirs!vars
    <3>. QED
      BY <3>1, <3>2
  <2>. QED
    BY <1>4, <2>1, <2>2, VettingApart
<1>. QED
  BY <1>1, <1>3, <1>4

\* What a step of the pair is.
LEMMA EitherSteps ==
    ASSUME [ONext]_ovars
    PROVE  \/ /\ [Next]_vars /\ UNCHANGED ownB
              /\ \A v \in Version, t \in Time : Start(v, t) => Apart(t, tsB, runsB)
           \/ /\ [theirs!Next]_theirs!vars /\ UNCHANGED ownA
              /\ \A v \in Version, t \in Time : theirs!Start(v, t) => Apart(t, ts, runs)
<1>1. ASSUME NEW v \in Version, NEW t \in Time, StartA(v, t)
      PROVE  /\ Next /\ UNCHANGED ownB
             /\ \A w \in Version, u \in Time : Start(w, u) => Apart(u, tsB, runsB)
  BY <1>1 DEF StartA, Next, Start
<1>2. ASSUME NEW v \in Version, NEW t \in Time, StartB(v, t)
      PROVE  /\ theirs!Next /\ UNCHANGED ownA
             /\ \A w \in Version, u \in Time : theirs!Start(w, u) => Apart(u, ts, runs)
  <2>1. theirs!Next
    BY <1>2, TheirStep DEF StartB
  <2>2. tsB' = t
    BY <1>2 DEF StartB, other!Start
  <2>. QED
    BY <1>2, <2>1, <2>2 DEF StartB, theirs!Start
<1>3. CASE (Client \/ Die) /\ UNCHANGED ownB
  <2>1. pc # "idle"
    BY <1>3 DEF Die, Client, Probe, EnsurePackages, UploadOne, ValidateUci, ValidateXray, MkBackup, SnapshotOne,
       SwapOne, Reload, PidofCheck, PingCheck, ListOld, PruneOne, Clean, RestoreOne, Rereload
  <2>. QED
    BY <1>3, <2>1 DEF Next, Start
<1>4. CASE (other!Client \/ other!Die) /\ UNCHANGED ownA
  <2>1. pcB # "idle"
    BY <1>4 DEF other!Die, other!Client, other!Probe, other!EnsurePackages, other!UploadOne, other!ValidateUci,
       other!ValidateXray, other!MkBackup, other!SnapshotOne, other!SwapOne, other!Reload, other!PidofCheck,
       other!PingCheck, other!ListOld, other!PruneOne, other!Clean, other!RestoreOne, other!Rereload
  <2>. QED
    BY <1>4, <2>1, TheirStep DEF theirs!Start
<1>5. CASE UNCHANGED ovars
  BY <1>5 DEF ovars, vars, ownB, Start, Goto
<1>. QED
  BY <1>1, <1>2, <1>3, <1>4, <1>5 DEF ONext

LEMMA ApartStarts == OInit => ApartInv
<1>. SUFFICES ASSUME OInit PROVE ApartInv
  OBVIOUS
<1>1. TypeOK /\ other!TypeOK
  <2>1. TypeOK
    BY InitType DEF OInit
  <2>2. other!Init <=> theirs!Init
    BY DEF other!Init, theirs!Init, other!Overlay, theirs!Overlay, other!EmptyTree, theirs!EmptyTree
  <2>3. theirs!TypeOK
    BY <2>2, theirs!InitType, PathsAssumption, ContentAssumption, TimeAssumption, KeepAssumption, RunAssumption,
       ServicesAssumption DEF First, theirs!First, FilesOf, theirs!FilesOf, OInit
  <2>. QED
    BY <2>1, <2>3, TheirTypes
<1>2. pc = "idle" /\ pcB = "idle" /\ runs = 0 /\ runsB = 0
  BY DEF OInit, Init, other!Init
<1>3. VetInv
  BY InitVet DEF OInit
<1>4. other!VetInv
  BY <1>2, <1>3 DEF VetInv, other!VetInv, OnlyVetted, other!OnlyVetted, Passes, other!Passes
<1>. QED
  BY <1>1, <1>2, <1>3, <1>4 DEF ApartInv, ILoop, other!ILoop

\* Whatever the other operator does meanwhile, no file goes live that the run it comes
\* from did not have accepted, if the two start in different seconds.
THEOREM VettedApartAlways == OSpec => []VettedApart
<1>1. ApartInv /\ [ONext]_ovars => ApartInv'
  BY EitherSteps, FirstApart, SecondApart
<1>2. ApartInv => VettedApart
  BY DEF ApartInv, VettedApart, VetInv
<1>. QED
  BY <1>1, <1>2, ApartStarts, PTL DEF OSpec

-----------------------------------------------------------------------------
(* What the two prune *)

LEMMA DoomedStarts == OInit => DoomedInv
BY FS_EmptySet DEF OInit, Init, other!Init, DoomedInv

\* What is added to or removed from the snapshots leaves a doomed one the Keep newer
\* ones it needs: those newer than what is removed are as many.
LEMMA StillEnough ==
    ASSUME NEW old \in SUBSET Time, NEW new, IsFiniteSet(old), IsFiniteSet(new),
           NEW t \in Time, Cardinality({u \in old : u > t}) >= Keep,
           NEW m \in Time, Cardinality({u \in old : u > m}) >= Keep,
           old \subseteq new \/ new = old \ {m}
    PROVE  Cardinality({u \in new : u > t}) >= Keep
<1>. DEFINE After == {u \in new : u > t}
<1>1. \A u \in Time : u \in Nat
  BY TimeAssumption
<1>2. IsFiniteSet(After)
  BY FS_Subset
<1>3. PICK A : A \subseteq After /\ Cardinality(A) >= Keep
  <2>. DEFINE T == {u \in old : u > t}
              M == {u \in old : u > m}
  <2>1. CASE m > t
    <3>1. M \subseteq After
      BY <1>1, <2>1
    <3>. QED
      BY <3>1
  <2>2. CASE ~(m > t)
    <3>1. T \subseteq After
      BY <1>1, <2>2
    <3>. QED
      BY <3>1
  <2>. QED
    BY <2>1, <2>2
<1>. HIDE DEF After
<1>4. Cardinality(A) <= Cardinality(After) /\ Cardinality(A) \in Nat /\ Cardinality(After) \in Nat
  BY <1>2, <1>3, NewerMonotone
<1>5. Cardinality(After) >= Keep
  BY <1>3, <1>4, KeepAssumption
<1>. QED
  BY <1>5 DEF After

\* A step of either run dooms only what has Keep newer snapshots, and removes at most
\* one that is doomed.
LEMMA DoomedStep ==
    ASSUME ApartInv, DoomedInv, ApartInv', [ONext]_ovars
    PROVE  DoomedInv'
<1>. DEFINE all == doomed \cup doomedB
<1>1. /\ IsFiniteSet(snaps')
      /\ \A t \in all' : t \in all \/ Cardinality({u \in snaps : u > t}) >= Keep
      /\ snaps \subseteq snaps' \/ \E m \in all : snaps' = snaps \ {m}
  <2>1. CASE [Next]_vars /\ UNCHANGED ownB
    BY <2>1, StepDooms DEF ApartInv, DoomedInv, ownB
  <2>2. CASE [theirs!Next]_theirs!vars /\ UNCHANGED ownA
    BY <2>2, TheirStepDooms DEF ApartInv, DoomedInv, ownA
  <2>. QED
    BY <2>1, <2>2, EitherSteps
<1>2. \A t \in all : t \in Time /\ Cardinality({u \in snaps : u > t}) >= Keep
  BY DEF DoomedInv, ApartInv, TypeOK, other!TypeOK
<1>3. all' \subseteq Time /\ snaps \subseteq Time /\ IsFiniteSet(snaps)
  BY DEF DoomedInv, ApartInv, TypeOK, other!TypeOK
<1>4. ASSUME NEW t \in all' PROVE Cardinality({u \in snaps' : u > t}) >= Keep
  <2>1. t \in Time /\ Cardinality({u \in snaps : u > t}) >= Keep
    BY <1>1, <1>2, <1>3
  <2>2. PICK m \in Time : /\ Cardinality({u \in snaps : u > m}) >= Keep
                          /\ snaps \subseteq snaps' \/ snaps' = snaps \ {m}
    BY <1>1, <1>2, <2>1
  <2>. QED
    BY <1>1, <1>3, <2>1, <2>2, StillEnough
<1>. QED
  BY <1>1, <1>4 DEF DoomedInv

\* Pruning takes from a snapshot, the other run's included while it may still restore
\* it, only when Keep newer ones are there and stay (RunKeepsSnapshot).
THEOREM RunKeepsSnapshotAlways == OSpec => RunKeepsSnapshot
<1>1. ApartInv /\ [ONext]_ovars => ApartInv'
  BY EitherSteps, FirstApart, SecondApart
<1>2. ApartInv /\ DoomedInv /\ ApartInv' /\ [ONext]_ovars => DoomedInv'
  BY DoomedStep
<1>3. ApartInv /\ DoomedInv /\ [ONext]_ovars
      => [\A t \in snaps : Shrinks(t) => Cardinality({u \in snaps' : u > t}) >= Keep]_ovars
  <2>. SUFFICES ASSUME ApartInv, DoomedInv, [ONext]_ovars, NEW t \in snaps, Shrinks(t)
                PROVE  Cardinality({u \in snaps' : u > t}) >= Keep
    OBVIOUS
  <2>1. PICK m \in doomed \cup doomedB :
            /\ snaps' \in {snaps, snaps \ {m}}
            /\ \E tree : backup' = [backup EXCEPT ![m] = tree]
    <3>1. CASE [Next]_vars /\ UNCHANGED ownB
      <4>1. PICK r \in Replies(conn), m \in doomed : PruneOne(m, r)
        BY <3>1, OnlyPruneShrinks DEF ApartInv
      <4>. QED
        BY <4>1 DEF PruneOne
    <3>2. CASE [theirs!Next]_theirs!vars /\ UNCHANGED ownA
      <4>1. PICK r \in theirs!Replies(connB), m \in doomedB : theirs!PruneOne(m, r)
        BY <3>2, TheirOnlyPruneShrinks DEF ApartInv
      <4>. QED
        BY <4>1 DEF theirs!PruneOne
    <3>. QED
      BY <3>1, <3>2, EitherSteps
  <2>2. \A u \in Time : u # m => backup'[u] = backup[u]
    BY <2>1 DEF ApartInv, TypeOK
  <2>3. \A u \in snaps : u # m => u \in snaps'
    BY <2>1
  <2>4. t = m
    BY <2>2, <2>3 DEF Shrinks, ApartInv, TypeOK
  <2>5. \A u \in snaps : u \in Nat
    BY TimeAssumption DEF ApartInv, TypeOK
  <2>6. {u \in snaps' : u > t} = {u \in snaps : u > t}
    BY <2>1, <2>3, <2>4, <2>5
  <2>. QED
    BY <2>4, <2>6 DEF DoomedInv
<1>. QED
  BY <1>1, <1>2, <1>3, ApartStarts, DoomedStarts, PTL DEF OSpec, RunKeepsSnapshot
=============================================================================
