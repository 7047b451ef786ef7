---------------------------- MODULE WrtboxProofs ----------------------------
(***************************************************************************)
(* What holds of wrtbox apply and wrtbox rollback on one router, for all   *)
(* paths, configs and timestamps and any number of rollbacks: the types    *)
(* however the two interleave, and, when one command runs at a time, which *)
(* files a rollback that succeeds leaves and which services have read what *)
(* a command that succeeds has put in place.                               *)
(***************************************************************************)
EXTENDS Wrtbox, ApplyProofs, SequenceTheorems, WellFoundedInduction

-----------------------------------------------------------------------------
(* Rollback's operators are those of apply.Run *)

LEMMA SameRouter ==
    /\ Rb!Conn = Conn /\ Rb!Tree = Tree /\ Rb!EmptyTree = EmptyTree
    /\ \A c : Rb!Replies(c) = Replies(c)
    /\ \A e, src, dst : Rb!Copied(e, src, dst) = Copied(e, src, dst)
<1>1. Rb!Conn = Conn /\ Rb!EmptyTree = EmptyTree
  BY DEF Rb!Conn, Conn, Rb!EmptyTree, EmptyTree
<1>2. Rb!Tree = Tree
  BY DEF Rb!Tree, Tree, Rb!Slot, Slot, Rb!Content, Content
<1>3. \A c : Rb!Replies(c) = Replies(c)
  BY DEF Rb!Replies, Replies, Rb!Reply, Reply, Rb!Effect, Effect, Rb!Conn, Conn
<1>4. \A e, src, dst : Rb!Copied(e, src, dst) = Copied(e, src, dst)
  BY DEF Rb!Copied, Copied
<1>. QED
  BY <1>1, <1>2, <1>3, <1>4

\* The step of a rollback that has begun, one remote call or the end of it.
LEMMA RollbackSteps ==
    ASSUME ContinueRollback
    PROVE  \/ Rb!RDie
           \/ \E r \in Replies(rconn) :
                 \/ Rb!RNothing(r) \/ Rb!RShow(r) \/ Rb!RLatest(r) \/ (\E t \in Time : Rb!RTo(t, r))
                 \/ Rb!RRestoreOne(r) \/ Rb!RReload(r)
BY SameRouter DEF ContinueRollback, Rb!RClient

\* A rollback leaves the snapshots, and the state of the applies, as they are.
LEMMA RollbackLeaves ==
    ASSUME ContinueRollback \/ StartRollback
    PROVE  UNCHANGED <<staging, backup, snaps, pc, k, ts, want, conn, doomed, outcome, runs, pre, restored>>
BY DEF ContinueRollback, StartRollback, applyVars, Rb!RStart, Rb!RClient, Rb!RNothing, Rb!RShow, Rb!RLatest, Rb!RTo,
   Rb!RRestoreOne, Rb!RReload, Rb!RDie, Rb!rfilesVars

\* One file copied back: it is the snapshot's, if that has it, and no file is lost.
LEMMA CopyBack ==
    ASSUME WTypeOK, rk <= Len(Managed), NEW r \in Replies(rconn), Rb!RRestoreOne(r)
    PROVE  /\ live' \in Tree
           /\ \A q \in Path : live[q] # Absent => live'[q] # Absent
           /\ ~r.err => \A q \in Path :
                live'[q] = IF q = Managed[rk] /\ backup[target][q] # Absent THEN backup[target][q] ELSE live[q]
<1>. DEFINE p == Managed[rk]
            src == backup[target][p]
            c == Copied(r.eff, src, live[p])
<1>1. p \in Path /\ target \in Time /\ r \in Reply /\ (~r.err => r.eff = "all")
  BY ManagedPaths, SameRouter, ReplyFacts DEF WTypeOK, Rb!RTypeOK
<1>2. src \in Slot /\ live[p] \in Slot
  BY <1>1 DEF WTypeOK, TypeOK, Tree
<1>3. live' = [live EXCEPT ![p] = c] /\ live \in [Path -> Slot]
  BY SameRouter DEF Rb!RRestoreOne, WTypeOK, TypeOK, Tree
<1>4. /\ c \in Slot /\ (live[p] # Absent => c # Absent)
      /\ ~r.err => c = IF src # Absent THEN src ELSE live[p]
  <2>. DEFINE dst == live[p]
  <2>1. r \in Reply /\ src \in Slot /\ dst \in Slot /\ c = Copied(r.eff, src, dst)
    BY <1>1, <1>2
  <2>. HIDE DEF src, dst, c
  <2>2. /\ c \in Slot /\ (dst # Absent => c # Absent)
        /\ src = Absent => c = dst
        /\ r.eff = "all" /\ src # Absent => c = src
    BY ONLY <2>1, CopiedSlot
  <2>. QED
    BY <1>1, <2>2 DEF dst
<1>. HIDE DEF c
<1>5. \A q \in Path : live'[q] = IF q = p THEN c ELSE live[q]
  BY <1>1, <1>3
<1>. QED
  BY <1>1, <1>3, <1>4, <1>5 DEF Tree

-----------------------------------------------------------------------------
(* Numbers *)

LEMMA LeastIsThere ==
    ASSUME NEW set \in SUBSET Nat, set # {}
    PROVE  \E m \in set : \A n \in set : m <= n
<1>. DEFINE less == OpToRel(<, Nat)
<1>1. IsWellFoundedOn(less, Nat)
  BY NatLessThanWellFounded, Zenon
<1>2. \A x, y \in Nat : <<y, x>> \in less <=> y < x
  BY DEF OpToRel
<1>. HIDE DEF less
<1>3. PICK m \in set : \A n \in set : ~(<<n, m>> \in less)
  BY <1>1, WFMin
<1>4. \A n \in set : ~(n < m) /\ n \in Nat /\ m \in Nat
  BY <1>2, <1>3
<1>. QED
  BY <1>4

\* Among snapshots none of which is later than some time there is a newest.
LEMMA NewestIsThere ==
    ASSUME NEW set \in SUBSET Nat, set # {}, NEW b \in Nat, \A t \in set : t <= b
    PROVE  Rb!Newest(set) \in set /\ \A u \in set : u <= Rb!Newest(set)
<1>. DEFINE gaps == {b - t : t \in set}
<1>1. \A t \in set : t \in Nat /\ b - t \in Nat
  OBVIOUS
<1>2. gaps \subseteq Nat /\ gaps # {}
  BY <1>1
<1>3. PICK g \in gaps : \A h \in gaps : g <= h
  <2>. HIDE DEF gaps
  <2>. QED
    BY <1>2, LeastIsThere
<1>4. PICK n \in set : g = b - n
  BY <1>3
<1>5. \A t \in set : t <= n
  <2>. SUFFICES ASSUME NEW t \in set PROVE t <= n
    OBVIOUS
  <2>1. b - t \in gaps
    OBVIOUS
  <2>2. b - n <= b - t
    BY <1>3, <1>4, <2>1
  <2>. QED
    BY <1>1, <2>2
<1>. QED
  BY <1>4, <1>5 DEF Rb!Newest

-----------------------------------------------------------------------------
(* Types *)

\* The snapshots have a newest one: their timestamps are bounded.
Bounded == \E b \in Nat : \A t \in snaps : t <= b

LEMMA StepBounded ==
    ASSUME TypeOK, Bounded, [Next]_vars
    PROVE  Bounded'
<1>1. PICK b \in Nat : \A t \in snaps : t <= b
  BY DEF Bounded
<1>2. \A t \in snaps' : t \in snaps \/ t = ts
  BY OneSnapshot
<1>3. ts \in Nat /\ \A t \in snaps : t \in Nat
  BY TimeAssumption DEF TypeOK
<1>4. \A t \in snaps' : t <= b + ts
  BY <1>1, <1>2, <1>3
<1>. QED
  BY <1>3, <1>4 DEF Bounded

WType == WTypeOK /\ ILoop /\ Bounded /\ (rpc = "restore" => rk <= Len(Managed))

LEMMA InitWType == WInit => WType
<1>. SUFFICES ASSUME WInit PROVE WType
  OBVIOUS
<1>1. TypeOK /\ ILoop
  BY InitType DEF WInit, Init, ILoop
<1>2. Rb!RTypeOK
  <2>1. target \in Time
    BY DEF WInit, Init, Rb!RInit
  <2>2. before \in Tree
    BY VersionSlots, SameRouter DEF WInit, Rb!RInit, EmptyTree, Tree
  <2>3. latest \in BOOLEAN
    BY DEF WInit, Rb!RInit
  <2>4. rconn \in Rb!Conn /\ before \in Rb!Tree
    BY <2>2, SameRouter DEF WInit, Rb!RInit, Conn
  <2>. QED
    BY <2>1, <2>3, <2>4 DEF WInit, Rb!RInit, Rb!RTypeOK
<1>3. Bounded
  BY DEF WInit, Init, Bounded
<1>. QED
  BY <1>1, <1>2, <1>3 DEF WType, WTypeOK, WInit, Rb!RInit

LEMMA ReloadedType ==
    ASSUME WTypeOK, NEW r, Rb!RReload(r)
    PROVE  loaded' \in [Services -> Slot]
<1>1. PICK x : loaded' = Rb!LoadedAfter(loaded, live, Rb!RollbackReload, x.ok, x.n)
  BY DEF Rb!RReload, Rb!ReloadOutcomes
<1>2. \A s \in Services : live[ConfigOf[s]] \in Slot
  BY ServicesAssumption DEF WTypeOK, TypeOK, Tree
<1>. QED
  BY <1>1, <1>2 DEF Rb!LoadedAfter, WTypeOK, TypeOK

LEMMA RollbackType ==
    ASSUME WType, ContinueRollback
    PROVE  WType'
<1>1. TypeOK /\ Rb!RTypeOK /\ rolls \in Nat /\ ILoop /\ Bounded
  BY DEF WType, WTypeOK
<1>2. UNCHANGED <<staging, backup, snaps, pc, k, ts, want, conn, doomed, outcome, runs, pre, restored>>
  BY RollbackLeaves
<1>3. \A r \in Replies(rconn) : r.conn \in Conn
  BY <1>1, SameRouter, ReplyFacts DEF Rb!RTypeOK
<1>4. live' \in Tree /\ loaded' \in [Services -> Slot]
  <2>1. ASSUME NEW r \in Replies(rconn), Rb!RRestoreOne(r) PROVE live' \in Tree /\ loaded' = loaded
    BY <2>1, CopyBack DEF WType, Rb!RRestoreOne
  <2>2. ASSUME NEW r \in Replies(rconn), Rb!RReload(r) PROVE live' = live /\ loaded' \in [Services -> Slot]
    BY <2>2, ReloadedType DEF WType, Rb!RReload
  <2>3. CASE UNCHANGED <<live, loaded>>
    BY <1>1, <2>3 DEF TypeOK
  <2>. QED
    BY <1>1, <2>1, <2>2, <2>3, RollbackSteps
       DEF TypeOK, Rb!RDie, Rb!RNothing, Rb!RShow, Rb!RLatest, Rb!RTo, Rb!rfilesVars
<1>5. TypeOK' /\ ILoop' /\ Bounded'
  BY <1>1, <1>2, <1>4 DEF TypeOK, ILoop, Bounded
<1>6. Rb!RTypeOK' /\ (rpc' = "restore" => rk' <= Len(Managed))
  <2>. DEFINE Ends(result) == Rb!REnd(result) /\ result \in {"ok", "listed", "failed", "died"}
  <2>c. Rb!Conn = Conn /\ rk \in Nat \ {0} /\ Len(Managed) \in Nat \ {0} /\ live \in Rb!Tree
    BY <1>1, SameRouter, ManagedPaths DEF Rb!RTypeOK, TypeOK
  <2>e. ASSUME NEW result, Ends(result), rconn' \in Conn, UNCHANGED <<target, latest, before>> PROVE <1>6!:
    BY <1>1, <2>c, <2>e DEF Rb!REnd, Rb!RTypeOK
  <2>1. ASSUME NEW r \in Replies(rconn), Rb!RNothing(r) \/ Rb!RShow(r) PROVE <1>6!:
    BY <1>3, <2>1, <2>e DEF Rb!RNothing, Rb!RShow, Rb!rchoiceVars
  <2>h. ASSUME NEW t \in Time, Rb!Choose(t), rconn' \in Conn, latest' \in BOOLEAN PROVE <1>6!:
    BY <1>1, <2>c, <2>h DEF Rb!Choose, Rb!RTypeOK
  <2>2. ASSUME NEW r \in Replies(rconn), Rb!RLatest(r) PROVE <1>6!:
    <3>1. Rb!Newest(snaps) \in Time
      <4>1. snaps \in SUBSET Nat /\ snaps \subseteq Time /\ snaps # {}
        BY <1>1, <2>2, TimeAssumption DEF TypeOK, Rb!RLatest
      <4>. QED
        BY <1>1, <4>1, NewestIsThere DEF Bounded
    <3>. QED
      BY <1>3, <2>2, <2>h, <3>1 DEF Rb!RLatest
  <2>3. ASSUME NEW t \in Time, NEW r \in Replies(rconn), Rb!RTo(t, r) PROVE <1>6!:
    <3>1. CASE t \in snaps
      <4>1. Rb!Choose(t) /\ rconn' \in Conn /\ latest' \in BOOLEAN
        BY <1>3, <2>3, <3>1 DEF Rb!RTo
      <4>. QED
        BY <2>h, <4>1
    <3>. QED
      BY <1>3, <2>3, <2>e, <3>1 DEF Rb!RTo, Rb!rchoiceVars
  <2>4. ASSUME NEW r \in Replies(rconn), Rb!RRestoreOne(r) PROVE <1>6!:
    <3>1. CASE r.err
      BY <1>3, <2>4, <2>e, <3>1 DEF Rb!RRestoreOne, Rb!RAdvance, Rb!rchoiceVars
    <3>. QED
      BY <1>1, <1>3, <2>4, <2>c, <3>1 DEF Rb!RRestoreOne, Rb!RAdvance, Rb!rchoiceVars, Rb!RTypeOK
  <2>5. ASSUME NEW r \in Replies(rconn), Rb!RReload(r) PROVE <1>6!:
    BY <1>3, <2>5, <2>e DEF Rb!RReload, Rb!rchoiceVars
  <2>6. ASSUME Rb!RDie PROVE <1>6!:
    BY <1>1, <2>c, <2>6, <2>e DEF Rb!RDie, Rb!rchoiceVars, Rb!RTypeOK
  <2>. QED
    BY <2>1, <2>2, <2>3, <2>4, <2>5, <2>6, RollbackSteps
<1>7. rolls' \in Nat
  BY <1>1 DEF ContinueRollback
<1>. QED
  BY <1>5, <1>6, <1>7 DEF WType, WTypeOK

LEMMA StepWType ==
    ASSUME WType, [WNext]_wvars
    PROVE  WType'
<1>1. TypeOK /\ Rb!RTypeOK /\ rolls \in Nat /\ ILoop /\ Bounded /\ (rpc = "restore" => rk <= Len(Managed))
  BY DEF WType, WTypeOK
<1>2. UNCHANGED rollbackVars => Rb!RTypeOK' /\ (rpc' = "restore" => rk' <= Len(Managed))
  BY <1>1 DEF rollbackVars, Rb!RTypeOK
<1>3. ASSUME NEW v \in Version, NEW t \in Time, StartApply(v, t) PROVE WType'
  <2>1. TypeOK' /\ ILoop' /\ Bounded'
    BY <1>1, <1>3, StepType, StepBounded DEF StartApply, Next
  <2>. QED
    BY <1>2, <1>3, <2>1 DEF StartApply, WType, WTypeOK
<1>4. ASSUME ContinueApply PROVE WType'
  <2>1. TypeOK' /\ ILoop' /\ Bounded'
    BY <1>1, <1>4, StepType, StepBounded DEF ContinueApply, Next
  <2>. QED
    BY <1>1, <1>2, <1>4, <2>1 DEF ContinueApply, WType, WTypeOK
<1>5. ASSUME StartRollback PROVE WType'
  <2>1. TypeOK' /\ ILoop' /\ Bounded'
    BY <1>1, <1>5 DEF StartRollback, applyVars, Rb!RStart, Rb!rfilesVars, TypeOK, ILoop, Bounded
  <2>2. Rb!RTypeOK' /\ rpc' = "list"
    BY <1>1, <1>5 DEF StartRollback, Rb!RStart, Rb!rchoiceVars, Rb!RTypeOK, Rb!Conn
  <2>. QED
    BY <1>1, <1>5, <2>1, <2>2 DEF StartRollback, WType, WTypeOK
<1>6. ASSUME UNCHANGED wvars PROVE WType'
  BY <1>1, <1>2, <1>6 DEF wvars, vars, rollbackVars, WType, WTypeOK, TypeOK, ILoop, Bounded
<1>. QED
  BY <1>3, <1>4, <1>5, <1>6, RollbackType DEF WNext

\* The state of the router, the apply and the rollback keep their types (WTypeOK)
\* however the two commands interleave.
THEOREM WTypeCorrect == WSpec => []WTypeOK
<1>1. WType => WTypeOK
  BY DEF WType
<1>. QED
  BY <1>1, InitWType, StepWType, PTL DEF WSpec

-----------------------------------------------------------------------------
(* One command at a time *)

LEMMA InitAlone == WInit => AloneInv /\ RollbackInv /\ UndoInv
<1>. SUFFICES ASSUME WInit PROVE AloneInv /\ RollbackInv /\ UndoInv
  OBVIOUS
<1>1. IInv /\ PruneInv /\ rpc = "idle" /\ rresult = "none" /\ rolls = 0 /\ outcome = "none"
  BY InitInv, InitPrune DEF WInit, Init, Rb!RInit
<1>. QED
  BY <1>1 DEF AloneInv, RollbackInv, UndoInv, IInv, RollbackDone, Chosen

\* What an apply that follows the rollbacks, or comes before them, preserves.
LEMMA ApplyAlone ==
    ASSUME WType, AloneInv, Exclusive,
           (\E v \in Version, t \in Time : StartApply(v, t)) \/ ContinueApply
    PROVE  AloneInv' /\ rolls' = 0 /\ rpc = "idle" /\ rpc' = "idle"
<1>1. ASSUME NEW v \in Version, NEW t \in Time, StartApply(v, t) PROVE AloneInv' /\ rolls' = 0 /\ rpc = "idle" /\ rpc' = "idle"
  <2>1. IInv'
    BY <1>1, StartInv DEF StartApply, AloneInv
  <2>2. PruneInv'
    BY <1>1, StartPrune DEF StartApply, AloneInv, WType, WTypeOK
  <2>. QED
    BY <1>1, <2>1, <2>2 DEF StartApply, rollbackVars, AloneInv, IInv
<1>2. ASSUME ContinueApply PROVE AloneInv' /\ rolls' = 0 /\ rpc = "idle" /\ rpc' = "idle"
  <2>1. pc # "idle" /\ [Next]_vars /\ UNCHANGED <<rolls, rpc>>
    BY <1>2, StartCounts DEF ContinueApply, Die, Next, rollbackVars, Client, Probe, EnsurePackages, UploadOne,
       ValidateUci, ValidateXray, MkBackup, SnapshotOne, SwapOne, Reload, PidofCheck, PingCheck, ListOld, PruneOne,
       Clean, RestoreOne, Rereload
  <2>2. rolls = 0 /\ rpc = "idle" /\ IInv /\ PruneInv /\ TypeOK
    BY <2>1 DEF AloneInv, WType, WTypeOK
  <2>3. IInv'
    BY <2>1, <2>2, StepInv
  <2>4. PruneInv'
    BY <2>1, <2>2, <2>3, StepPrune
  <2>. QED
    BY <2>1, <2>2, <2>3, <2>4 DEF AloneInv, IInv
<1>. QED
  BY <1>1, <1>2

\* A rollback loses no file and touches no snapshot.
LEMMA RollbackAlone ==
    ASSUME WType, AloneInv, StartRollback \/ ContinueRollback
    PROVE  AloneInv'
<1>. SUFFICES ASSUME Exclusive PROVE AloneInv'
  BY DEF AloneInv
<1>1. UNCHANGED <<staging, backup, snaps, pc, k, ts, want, conn, doomed, outcome, runs, pre, restored>>
  BY RollbackLeaves
<1>2. PruneInv'
  BY <1>1 DEF AloneInv, PruneInv, OwnSnapshotKept
<1>3. \A q \in Path : live[q] # Absent => live'[q] # Absent
  <2>1. ASSUME NEW r \in Replies(rconn), Rb!RRestoreOne(r) PROVE <1>3!:
    BY <2>1, CopyBack DEF WType, Rb!RRestoreOne
  <2>2. CASE live' = live
    BY <2>2
  <2>. QED
    BY <2>1, <2>2, RollbackSteps DEF StartRollback, Rb!RStart, Rb!RDie, Rb!RNothing, Rb!RShow, Rb!RLatest, Rb!RTo,
       Rb!RReload, Rb!rfilesVars
<1>4. IKept'
  BY <1>1, <1>3 DEF AloneInv, IKept
<1>5. pc = "idle" /\ rolls \in Nat /\ rolls' > 0
  <2>1. CASE StartRollback
    BY <2>1 DEF StartRollback, WType, WTypeOK
  <2>2. CASE ContinueRollback
    <3>1. rpc # "idle" /\ rolls' = rolls
      BY <2>2 DEF ContinueRollback, Rb!RClient, Rb!RNothing, Rb!RShow, Rb!RLatest, Rb!RTo, Rb!RRestoreOne, Rb!RReload,
         Rb!RDie
    <3>. QED
      BY <3>1 DEF AloneInv, WType, WTypeOK
  <2>. QED
    BY <2>1, <2>2
<1>. QED
  BY <1>1, <1>2, <1>4, <1>5 DEF AloneInv

\* File by file a rollback gives the snapshot back, and it succeeds only once it has
\* gone through all of them.
LEMMA RollbackRolls ==
    ASSUME WType, AloneInv, RollbackInv, ContinueRollback
    PROVE  RollbackInv'
<1>1. rpc' = "restore" => rk' <= Len(Managed)
  BY RollbackType DEF WType
<1>. SUFFICES ASSUME Exclusive
              PROVE  /\ rpc' = "restore" => GivenBack(rk - 1)'
                     /\ rpc' = "reload" \/ RollbackDone' => GivenBack(Len(Managed))'
  BY <1>1 DEF RollbackInv
<1>. DEFINE Goal == /\ rpc' = "restore" => GivenBack(rk - 1)'
                    /\ rpc' = "reload" \/ RollbackDone' => GivenBack(Len(Managed))'
<1>2. UNCHANGED backup /\ Managed \in Seq(Path) /\ Len(Managed) \in Nat \ {0} /\ rk \in Nat \ {0}
  BY RollbackLeaves, ManagedPaths DEF WType, WTypeOK, Rb!RTypeOK
<1>3. ASSUME rpc' = "idle", rresult' # "ok" PROVE Goal
  BY <1>3 DEF RollbackDone
<1>4. ASSUME NEW t, Rb!Choose(t), live' = live PROVE Goal
  <2>1. rpc' = "restore" /\ rk' - 1 = 0 /\ before' = live'
    BY <1>4 DEF Rb!Choose
  <2>2. First(Managed, rk' - 1) = {}
    BY <2>1 DEF First
  <2>3. GivenBack(rk - 1)'
    BY <2>1, <2>2 DEF GivenBack
  <2>. QED
    BY <2>1, <2>3 DEF RollbackDone
<1>5. ASSUME NEW r \in Replies(rconn), Rb!RNothing(r) \/ Rb!RShow(r) \/ Rb!RLatest(r) \/ (\E t \in Time : Rb!RTo(t, r))
      PROVE Goal
  BY <1>3, <1>4, <1>5 DEF Rb!RNothing, Rb!RShow, Rb!RLatest, Rb!RTo, Rb!REnd, Rb!rfilesVars
<1>6. ASSUME NEW r \in Replies(rconn), Rb!RRestoreOne(r) PROVE Goal
  <2>1. CASE r.err
    BY <1>3, <1>6, <2>1 DEF Rb!RRestoreOne, Rb!RAdvance, Rb!REnd
  <2>2. CASE ~r.err
    <3>1. rpc = "restore" /\ rk \in 1..Len(Managed) /\ GivenBack(rk - 1) /\ UNCHANGED <<target, before>>
      BY <1>2, <1>6 DEF Rb!RRestoreOne, Rb!rchoiceVars, WType, RollbackInv
    <3>2. First(Managed, rk) = First(Managed, rk - 1) \cup {Managed[rk]}
      BY <1>2, <3>1, FirstStep
    <3>3. \A q \in Path :
             live'[q] = IF q = Managed[rk] /\ backup[target][q] # Absent THEN backup[target][q] ELSE live[q]
      BY <1>6, <2>2, <3>1, CopyBack DEF WType
    <3>4. \A q \in Path : live'[q] = IF q \in First(Managed, rk) /\ backup'[target'][q] # Absent
                                     THEN backup'[target'][q] ELSE before'[q]
      BY <1>2, <3>1, <3>2, <3>3 DEF GivenBack
    <3>5. \/ rpc' = "restore" /\ rk' - 1 = rk
          \/ rpc' = "reload" /\ rk = Len(Managed)
      BY <1>2, <1>6, <2>2, <3>1 DEF Rb!RRestoreOne, Rb!RAdvance
    <3>. QED
      BY <3>4, <3>5 DEF GivenBack, RollbackDone
  <2>. QED
    BY <2>1, <2>2
<1>7. ASSUME NEW r \in Replies(rconn), Rb!RReload(r) PROVE Goal
  <2>1. rpc = "reload" /\ rpc' = "idle" /\ UNCHANGED <<live, backup, target, before>>
    BY <1>7 DEF Rb!RReload, Rb!REnd, Rb!rchoiceVars
  <2>. QED
    BY <2>1 DEF RollbackInv, GivenBack
<1>8. ASSUME Rb!RDie PROVE Goal
  BY <1>3, <1>8 DEF Rb!RDie, Rb!REnd
<1>. QED
  BY <1>5, <1>6, <1>7, <1>8, RollbackSteps

LEMMA StepRolls ==
    ASSUME WType, AloneInv, RollbackInv, [WNext]_wvars
    PROVE  RollbackInv'
<1>1. rpc' = "restore" => rk' <= Len(Managed)
  BY StepWType DEF WType
<1>2. CASE (\E v \in Version, t \in Time : StartApply(v, t)) \/ ContinueApply
  BY <1>1, <1>2, ApplyAlone DEF RollbackInv
<1>3. CASE StartRollback
  BY <1>1, <1>3 DEF StartRollback, Rb!RStart, RollbackInv, RollbackDone
<1>4. CASE UNCHANGED wvars
  BY <1>4 DEF wvars, vars, rollbackVars, RollbackInv, RollbackDone, GivenBack
<1>. QED
  BY <1>2, <1>3, <1>4, RollbackRolls DEF WNext

LEMMA StepAlone ==
    ASSUME WType, AloneInv, [WNext]_wvars
    PROVE  AloneInv'
<1>1. CASE UNCHANGED wvars
  <2>1. UNCHANGED <<vars, rpc, rolls>>
    BY <1>1 DEF wvars, rollbackVars
  <2>2. IInv => IInv'
    BY <2>1, StutterInv
  <2>3. UNCHANGED <<pc, rpc, rolls>> /\ (IKept => IKept') /\ (PruneInv => PruneInv')
    BY <2>1 DEF vars, IKept, PruneInv, OwnSnapshotKept
  <2>. QED
    BY <2>2, <2>3 DEF AloneInv
<1>2. CASE ~Exclusive
  BY <1>2 DEF AloneInv
<1>. QED
  BY <1>1, <1>2, ApplyAlone, RollbackAlone DEF WNext

\* When no apply interferes, a rollback that succeeds leaves exactly the files of
\* its snapshot, and every other managed file as it was (RollbackExact).
THEOREM RollbackExactAlways == WSpec => []RollbackExact
<1>1. WInit => WType /\ AloneInv /\ RollbackInv
  BY InitWType, InitAlone
<1>2. WType /\ AloneInv /\ RollbackInv /\ [WNext]_wvars => WType' /\ AloneInv' /\ RollbackInv'
  BY StepWType, StepAlone, StepRolls
<1>3. RollbackInv => RollbackExact
  BY PathsAssumption DEF RollbackInv, RollbackExact, GivenBack
<1>. QED
  BY <1>1, <1>2, <1>3, PTL DEF WSpec

-----------------------------------------------------------------------------
(* Undoing an apply *)

\* How an apply may leave the router: with its own snapshot, or untouched.
LEMMA ApplyEnds ==
    ASSUME WType, AloneInv, UndoInv, Exclusive, MonotoneClock, ContinueApply
    PROVE  UndoInv'
<1>1. pc # "idle" /\ [Next]_vars
  BY StartCounts DEF ContinueApply, Die, Next, Client, Probe, EnsurePackages, UploadOne,
     ValidateUci, ValidateXray, MkBackup, SnapshotOne, SwapOne, Reload, PidofCheck, PingCheck, ListOld, PruneOne,
     Clean, RestoreOne, Rereload
<1>2. /\ rolls' = 0 /\ IInv /\ PruneInv /\ PruneInv' /\ outcome = "none" /\ TypeOK
      /\ ts \in Time
  BY <1>1, ApplyAlone DEF AloneInv, IInv, IOutcome, WType, WTypeOK, TypeOK
<1>3. CASE Client
  <2>. PICK r \in Replies(conn) :
           \/ Probe(r) \/ EnsurePackages(r) \/ UploadOne(r)
           \/ ValidateUci(r) \/ ValidateXray(r)
           \/ MkBackup(r) \/ SnapshotOne(r) \/ SwapOne(r)
           \/ Reload(r) \/ PidofCheck(r) \/ PingCheck(r)
           \/ ListOld(r) \/ (\E t \in doomed : PruneOne(t, r)) \/ Clean(r)
           \/ RestoreOne(r) \/ Rereload(r)
    BY <1>3 DEF Client
  <2>1. outcome' \in {"none", "failed", "ok"} \/ Rereload(r)
    BY <1>2 DEF Probe, EnsurePackages, UploadOne, ValidateUci, ValidateXray, MkBackup, SnapshotOne, SwapOne, Reload,
       PidofCheck, PingCheck, ListOld, PruneOne, Clean, RestoreOne, OrFail, OrUndo, Finish
  <2>2. CASE Rereload(r)
    <3>1. ts \in snaps /\ backup[ts] = pre
      BY <1>2, <2>2 DEF Rereload, IInv, ISnapshot, Guarded
    <3>2. Saved' /\ outcome' = "rolledback"
      BY <2>2, <3>1 DEF Rereload, Finish, filesVars, runVars, Saved
    <3>. QED
      BY <1>2, <3>2 DEF UndoInv
  <2>3. outcome' = "ok" => Saved'
    BY <1>2 DEF PruneInv, OwnSnapshotKept, Saved
  <2>. QED
    BY <1>2, <2>1, <2>2, <2>3 DEF UndoInv
<1>4. CASE Die
  <2>1. outcome' = "died" /\ UNCHANGED <<live, backup, snaps, ts, pre>>
    BY <1>4 DEF Die, Finish, filesVars, runVars
  <2>2. pc \in BeforeSwap \cup Guarded \cup {"list", "prune", "clean"}
    BY <1>1, <1>2 DEF TypeOK, Stages, BeforeSwap, Guarded
  <2>3. Saved \/ live = pre
    BY <1>2, <2>2 DEF Saved, IInv, ILive, ISnapshot, PruneInv
  <2>. QED
    BY <1>2, <2>1, <2>3 DEF UndoInv, Saved
<1>. QED
  BY <1>3, <1>4 DEF ContinueApply

\* A rollback by default takes the snapshot of the apply before it; any other, and
\* one that fails, is over or has seen the files that apply left.
LEMMA RollbackUndoes ==
    ASSUME WType, AloneInv, UndoInv, Exclusive, MonotoneClock, ContinueRollback
    PROVE  UndoInv'
<1>1. UNCHANGED <<backup, snaps, ts, outcome, pre, rolls>>
  BY RollbackLeaves DEF ContinueRollback
<1>2. /\ rpc # "idle" /\ rolls > 0 /\ rolls \in Nat /\ ts \in Nat /\ snaps \subseteq Nat
      /\ \A t \in snaps : t <= ts
  BY RollbackSteps, TimeAssumption DEF AloneInv, PruneInv, WType, WTypeOK, TypeOK, Rb!RDie, Rb!RNothing, Rb!RShow,
     Rb!RLatest, Rb!RTo, Rb!RRestoreOne, Rb!RReload
<1>3. Saved' <=> Saved
  BY <1>1 DEF Saved
<1>. SUFFICES
        /\ outcome = "died" /\ rolls = 1 /\ ~Saved =>
              \/ Chosen' /\ before' = pre
              \/ rpc' = "idle" /\ ~RollbackDone'
        /\ rolls = 1 /\ Chosen' /\ latest' /\ Saved => target' = ts
  BY <1>1, <1>2, <1>3 DEF UndoInv
<1>. DEFINE Goal == /\ outcome = "died" /\ rolls = 1 /\ ~Saved =>
                          \/ Chosen' /\ before' = pre
                          \/ rpc' = "idle" /\ ~RollbackDone'
                    /\ rolls = 1 /\ Chosen' /\ latest' /\ Saved => target' = ts
<1>4. ASSUME rpc' = "idle", rresult' # "ok" PROVE Goal
  BY <1>4 DEF RollbackDone, Chosen
<1>5. ASSUME rpc = "list", NEW t, Rb!Choose(t), latest' => (Saved => t = ts) PROVE Goal
  <2>1. outcome = "died" /\ rolls = 1 /\ ~Saved => live = pre
    BY <1>5 DEF UndoInv, Chosen, RollbackDone
  <2>. QED
    BY <1>5, <2>1 DEF Rb!Choose, Chosen
<1>6. ASSUME NEW r \in Replies(rconn), Rb!RLatest(r) PROVE Goal
  <2>1. Saved => Rb!Newest(snaps) = ts
    <3>. SUFFICES ASSUME Saved PROVE Rb!Newest(snaps) = ts
      OBVIOUS
    <3>1. ts \in snaps /\ \A t \in snaps : t <= ts
      BY <1>2 DEF Saved
    <3>2. Rb!Newest(snaps) \in snaps /\ \A u \in snaps : u <= Rb!Newest(snaps)
      BY <1>2, <3>1, NewestIsThere
    <3>. DEFINE n == Rb!Newest(snaps)
    <3>3. n \in Nat /\ ts \in Nat /\ n <= ts /\ ts <= n
      BY <1>2, <3>1, <3>2
    <3>. HIDE DEF n
    <3>4. n = ts
      BY <3>3
    <3>. QED
      BY <3>4 DEF n
  <2>. QED
    BY <1>5, <1>6, <2>1 DEF Rb!RLatest
<1>7. ASSUME NEW r \in Replies(rconn), NEW t \in Time, Rb!RTo(t, r) PROVE Goal
  BY <1>4, <1>5, <1>7 DEF Rb!RTo, Rb!REnd
<1>8. ASSUME NEW r \in Replies(rconn), Rb!RNothing(r) \/ Rb!RShow(r) PROVE Goal
  BY <1>4, <1>8 DEF Rb!RNothing, Rb!RShow, Rb!REnd
<1>9. ASSUME NEW r \in Replies(rconn), Rb!RRestoreOne(r) \/ Rb!RReload(r) PROVE Goal
  <2>1. Chosen /\ rpc \notin {"idle", "list"} /\ UNCHANGED <<target, latest, before>>
    BY <1>9 DEF Rb!RRestoreOne, Rb!RReload, Rb!rchoiceVars, Chosen
  <2>2. Chosen' \/ (rpc' = "idle" /\ rresult' # "ok")
    BY <1>9 DEF Rb!RRestoreOne, Rb!RReload, Rb!RAdvance, Rb!REnd, Chosen, RollbackDone
  <2>. QED
    BY <1>2, <1>4, <2>1, <2>2 DEF UndoInv
<1>10. ASSUME Rb!RDie PROVE Goal
  BY <1>4, <1>10 DEF Rb!RDie, Rb!REnd
<1>. QED
  BY <1>6, <1>7, <1>8, <1>9, <1>10, RollbackSteps

LEMMA StepUndo ==
    ASSUME WType, AloneInv, UndoInv, [WNext]_wvars
    PROVE  UndoInv'
<1>. SUFFICES ASSUME Exclusive, MonotoneClock PROVE UndoInv'
  BY DEF UndoInv
<1>1. CASE \E v \in Version, t \in Time : StartApply(v, t)
  BY <1>1 DEF StartApply, Start, UndoInv
<1>2. CASE StartRollback
  <2>1. /\ UNCHANGED <<live, backup, snaps, ts, outcome, pre, before>>
        /\ rpc = "idle" /\ rpc' = "list" /\ rresult' = "none" /\ rolls' = rolls + 1 /\ rolls \in Nat
    BY <1>2, RollbackLeaves DEF StartRollback, Rb!RStart, Rb!rfilesVars, Rb!rchoiceVars, WType, WTypeOK
  <2>2. (Saved' <=> Saved) /\ ~Chosen'
    BY <2>1 DEF Saved, Chosen, RollbackDone
  <2>. QED
    BY <2>1, <2>2 DEF UndoInv
<1>3. CASE UNCHANGED wvars
  BY <1>3 DEF wvars, vars, rollbackVars, UndoInv, Saved, Chosen, RollbackDone
<1>. QED
  BY <1>1, <1>2, <1>3, ApplyEnds, RollbackUndoes DEF WNext

\* With a clock that moves forward, the first default rollback after an apply that
\* changed the live files, when it succeeds, brings back every file there was
\* before that apply (DefaultUndoesApply), also when the workstation died in it.
THEOREM DefaultUndoesApplyAlways == WSpec => []DefaultUndoesApply
<1>1. WInit => WType /\ AloneInv /\ RollbackInv /\ UndoInv
  BY InitWType, InitAlone
<1>2. WType /\ AloneInv /\ RollbackInv /\ UndoInv /\ [WNext]_wvars => WType' /\ AloneInv' /\ RollbackInv' /\ UndoInv'
  BY StepWType, StepAlone, StepRolls, StepUndo
<1>3. RollbackInv /\ UndoInv => DefaultUndoesApply
  <2>. SUFFICES ASSUME RollbackInv, UndoInv, RollbackDone, latest, rolls = 1, Exclusive, MonotoneClock,
                       outcome \in {"ok", "rolledback"} \/ (outcome = "died" /\ before # pre),
                       NEW p \in Path, pre[p] # Absent
                PROVE  live[p] = pre[p]
    BY DEF DefaultUndoesApply
  <2>1. Saved
    BY DEF UndoInv, RollbackDone
  <2>2. target = ts
    BY <2>1 DEF UndoInv, Chosen
  <2>3. live[p] = IF backup[target][p] # Absent THEN backup[target][p] ELSE before[p]
    BY PathsAssumption DEF RollbackInv, GivenBack
  <2>. QED
    BY <2>1, <2>2, <2>3 DEF Saved
<1>. QED
  BY <1>1, <1>2, <1>3, PTL DEF WSpec

\* However many rollbacks come between the applies, a successful apply keeps its own
\* snapshot (OwnSnapshotKept).
THEOREM OwnSnapshotSurvives == Exclusive /\ WSpec => []OwnSnapshotKept
<1>1. WInit => WType /\ AloneInv
  BY InitWType, InitAlone
<1>2. WType /\ AloneInv /\ [WNext]_wvars => WType' /\ AloneInv'
  BY StepWType, StepAlone
<1>3. Exclusive /\ WType /\ AloneInv => OwnSnapshotKept
  BY DEF AloneInv, PruneInv, OwnSnapshotKept, WType, WTypeOK, TypeOK
<1>4. CASE Exclusive
  BY <1>1, <1>2, <1>3, <1>4, PTL DEF WSpec
<1>. QED
  BY <1>4

-----------------------------------------------------------------------------
(* The status of a list of commands *)

\* The status after entry n, if it was `sofar` before.
After(list, ok, n, sofar) ==
    IF Runs(list[n], sofar) THEN ok[n] \/ list[n].cmd \in Infallible ELSE sofar

UpTo(list, ok, n, st) ==
    st = [m \in 0..n |-> IF m = 0 THEN TRUE ELSE After(list, ok, m, st[m - 1])]

\* The recursion of Status has a solution on every list.
LEMMA StatusExists ==
    ASSUME NEW list, NEW ok, NEW n \in Nat
    PROVE  \E st : UpTo(list, ok, n, st)
<1>. DEFINE short == {m \in Nat : ~\E st : UpTo(list, ok, m, st)}
<1>. SUFFICES ASSUME short # {} PROVE FALSE
  OBVIOUS
<1>1. PICK m \in short : \A h \in short : m <= h
  <2>1. short \subseteq Nat /\ short # {}
    OBVIOUS
  <2>. HIDE DEF short
  <2>. QED
    BY <2>1, LeastIsThere
<1>2. CASE m = 0
  <2>. DEFINE one == [i \in 0..0 |-> TRUE]
  <2>1. UpTo(list, ok, 0, one)
    BY DEF UpTo
  <2>. QED
    BY <1>1, <1>2, <2>1
<1>3. CASE m # 0
  <2>1. m - 1 \in Nat /\ ~(m <= m - 1) /\ m \in Nat
    BY <1>1, <1>3
  <2>2. m - 1 \notin short
    BY <1>1, <2>1
  <2>3. PICK st : UpTo(list, ok, m - 1, st)
    BY <2>1, <2>2
  <2>. DEFINE more == [i \in 0..m |-> IF i = m THEN After(list, ok, m, st[m - 1]) ELSE st[i]]
  <2>4. \A i \in 0..(m - 1) : st[i] = IF i = 0 THEN TRUE ELSE After(list, ok, i, st[i - 1])
    BY <2>3 DEF UpTo
  <2>5. \A i \in 0..m : more[i] = IF i = 0 THEN TRUE ELSE After(list, ok, i, more[i - 1])
    <3>. SUFFICES ASSUME NEW i \in 0..m
                  PROVE  more[i] = IF i = 0 THEN TRUE ELSE After(list, ok, i, more[i - 1])
      OBVIOUS
    <3>1. CASE i = m
      <4>1. more[i] = After(list, ok, m, st[m - 1]) /\ more[m - 1] = st[m - 1]
        BY <2>1, <3>1
      <4>. QED
        BY <1>3, <3>1, <4>1
    <3>2. CASE i # m
      <4>1. /\ i \in 0..(m - 1) /\ more[i] = st[i]
            /\ i # 0 => i - 1 \in 0..m /\ i - 1 # m /\ more[i - 1] = st[i - 1]
        BY <2>1, <3>2
      <4>. QED
        BY <2>4, <4>1
    <3>. QED
      BY <3>1, <3>2
  <2>6. UpTo(list, ok, m, more)
    <3>1. more = [i \in 0..m |-> more[i]]
      OBVIOUS
    <3>. HIDE DEF more
    <3>. QED
      BY <2>5, <3>1 DEF UpTo
  <2>. QED
    BY <1>1, <2>6
<1>. QED
  BY <1>2, <1>3

LEMMA StatusSteps ==
    ASSUME NEW list, Len(list) \in Nat, NEW ok
    PROVE  /\ Status(list, ok)[0] = TRUE
           /\ \A n \in 1..Len(list) : Status(list, ok)[n] = After(list, ok, n, Status(list, ok)[n - 1])
<1>. DEFINE st == Status(list, ok)
<1>1. st = CHOOSE f : UpTo(list, ok, Len(list), f)
  BY DEF Status, After, UpTo
<1>2. UpTo(list, ok, Len(list), st)
  <2>. HIDE DEF st
  <2>. QED
    BY <1>1, StatusExists, Zenon
<1>. HIDE DEF st
<1>3. \A n \in 0..Len(list) : st[n] = IF n = 0 THEN TRUE ELSE After(list, ok, n, st[n - 1])
  BY <1>2 DEF UpTo
<1>4. 0 \in 0..Len(list) /\ \A n \in 1..Len(list) : n \in 0..Len(list) /\ n # 0
  OBVIOUS
<1>5. st[0] = TRUE /\ \A n \in 1..Len(list) : st[n] = After(list, ok, n, st[n - 1])
  BY <1>3, <1>4, Zenon
<1>. QED
  BY <1>5, Zenon DEF st

LEMMA StatusTyped ==
    ASSUME NEW list, Len(list) \in Nat, NEW ok \in Exits(list)
    PROVE  \A n \in 0..Len(list) : Status(list, ok)[n] \in BOOLEAN
<1>. DEFINE st == Status(list, ok)
            odd == {n \in 0..Len(list) : st[n] \notin BOOLEAN}
<1>. SUFFICES ASSUME odd # {} PROVE FALSE
  OBVIOUS
<1>1. PICK m \in odd : \A h \in odd : m <= h
  <2>1. odd \subseteq Nat
    OBVIOUS
  <2>. HIDE DEF odd
  <2>. QED
    BY <2>1, LeastIsThere
<1>2. st[0] = TRUE /\ \A n \in 1..Len(list) : st[n] = After(list, ok, n, st[n - 1])
  BY StatusSteps
<1>. HIDE DEF st
<1>3. m \in 1..Len(list) /\ m - 1 \in 0..Len(list) /\ ~(m <= m - 1)
  <2>1. m # 0
    BY <1>1, <1>2
  <2>2. m \in 0..Len(list)
    BY <1>1
  <2>. QED
    BY <2>1, <2>2
<1>4. st[m - 1] \in BOOLEAN
  BY <1>1, <1>3
<1>5. ok[m] \in BOOLEAN
  BY <1>3 DEF Exits
<1>6. After(list, ok, m, st[m - 1]) \in BOOLEAN
  BY <1>4, <1>5 DEF After
<1>. QED
  BY <1>1, <1>2, <1>3, <1>6

Op == {"&&", "||", ";"}

\* Where a list succeeds and has only && after an entry that is no alternative, that
\* entry ran and did not fail if it can.
LEMMA TailRan ==
    ASSUME NEW list, Len(list) \in Nat, NEW ok \in Exits(list), NEW b \in 1..Len(list),
           list[b].op \in Op \ {"||"}, \A i \in (b + 1)..Len(list) : list[i].op = "&&",
           Status(list, ok)[Len(list)]
    PROVE  Ran(list, ok, b) /\ (ok[b] \/ list[b].cmd \in Infallible)
<1>. DEFINE st == Status(list, ok)
            gaps == {Len(list) - i : i \in {n \in b..Len(list) : st[n] # TRUE}}
<1>1. \A n \in 1..Len(list) : st[n] = After(list, ok, n, st[n - 1])
  BY StatusSteps
<1>2. \A n \in 0..Len(list) : st[n] \in BOOLEAN
  BY StatusTyped
<1>3. st[Len(list)] = TRUE
  BY <1>2
<1>. HIDE DEF st
<1>4. ASSUME NEW i \in (b + 1)..Len(list), st[i] = TRUE PROVE st[i - 1] = TRUE
  <2>1. i \in 1..Len(list) /\ i - 1 \in 0..Len(list) /\ list[i].op = "&&"
    BY <1>4
  <2>2. After(list, ok, i, st[i - 1]) = TRUE /\ st[i - 1] \in BOOLEAN
    BY <1>1, <1>2, <1>4, <2>1
  <2>. QED
    BY <2>1, <2>2, Zenon DEF After, Runs
<1>5. st[b] = TRUE
  <2>. SUFFICES ASSUME gaps # {} PROVE FALSE
    <3>1. b \in b..Len(list)
      OBVIOUS
    <3>2. st[b] # TRUE => Len(list) - b \in gaps
      BY <3>1, Zenon
    <3>. QED
      BY <3>2
  <2>1. PICK g \in gaps : \A h \in gaps : g <= h
    <3>1. \A i \in b..Len(list) : Len(list) - i \in Nat
      OBVIOUS
    <3>2. gaps \subseteq Nat
      BY <3>1, Zenon
    <3>. HIDE DEF gaps
    <3>. QED
      BY <3>2, LeastIsThere
  <2>2. PICK n \in b..Len(list) : st[n] # TRUE /\ g = Len(list) - n
    BY <2>1
  <2>3. n + 1 \in (b + 1)..Len(list) /\ n + 1 \in b..Len(list) /\ (n + 1) - 1 = n
    <3>1. n # Len(list)
      BY <1>3, <2>2
    <3>2. n \in b..Len(list)
      BY <2>2
    <3>. QED
      BY <3>1, <3>2
  <2>4. st[n + 1] # TRUE
    BY <1>4, <2>2, <2>3
  <2>5. Len(list) - (n + 1) \in gaps
    BY <2>3, <2>4
  <2>6. Len(list) - n <= Len(list) - (n + 1)
    BY <2>1, <2>2, <2>5
  <2>. QED
    BY <2>3, <2>6
<1>6. After(list, ok, b, st[b - 1]) = TRUE /\ st[b - 1] \in BOOLEAN
  BY <1>1, <1>2, <1>5
<1>7. Runs(list[b], st[b - 1])
  <2>1. list[b].op = "&&" \/ list[b].op = ";"
    BY DEF Op
  <2>2. CASE list[b].op = ";"
    BY <2>2 DEF Runs
  <2>3. CASE list[b].op = "&&"
    BY <1>6, <2>3, Zenon DEF After, Runs
  <2>. QED
    BY <2>1, <2>2, <2>3
<1>8. ok[b] \/ list[b].cmd \in Infallible
  BY <1>6, <1>7, Zenon DEF After
<1>. QED
  BY <1>7, <1>8 DEF Ran, st

-----------------------------------------------------------------------------
(* What a reload that succeeds vouches for *)

\* The services a list that succeeds vouches for have read the files that are live.
LEMMA VouchedRead ==
    ASSUME NEW list, Len(list) \in Nat, \A i \in 1..Len(list) : list[i].op \in Op,
           NEW c \in Conn, NEW r \in Replies(c), ~r.err, NEW tree,
           NEW old, NEW new \in ReloadOutcomes(old, tree, list, r),
           NEW s \in Services \cap Vouched(list)
    PROVE  new[s] = tree[ConfigOf[s]]
<1>1. r.eff = "all"
  BY ReplyFacts
<1>2. PICK x \in Executions(list, r) : new = LoadedAfter(old, tree, list, x.ok, x.n)
  BY DEF ReloadOutcomes
<1>3. x.ok \in Exits(list) /\ x.n = Len(list) /\ Status(list, x.ok)[Len(list)]
  BY <1>1, <1>2 DEF Executions
<1>4. PICK b \in 1..Len(list) : /\ Target(list[b].cmd) = s
                                /\ list[b].op # "||" /\ list[b].cmd \notin Infallible
                                /\ \A m \in (b + 1)..Len(list) : list[m].op = "&&"
  BY DEF Vouched
<1>5. Ran(list, x.ok, b) /\ x.ok[b]
  BY <1>3, <1>4, TailRan
<1>6. s \in Reloaded(list, x.ok, x.n)
  BY <1>3, <1>4, <1>5 DEF Reloaded
<1>. QED
  BY <1>2, <1>6 DEF LoadedAfter

\* What the user's strings vouch for, the list of a run does, and wifi unless they
\* hold an || or a ;.
LEMMA FullReloadVouches ==
    ASSUME TypeOK
    PROVE  /\ Len(FullReload) \in Nat /\ \A i \in 1..Len(FullReload) : FullReload[i].op \in Op
           /\ TailServices \subseteq Vouched(FullReload)
<1>. DEFINE user == PostApply[want]
            names == STRING \cup {"network", "firewall", "xray restart", "xray start", "true", "wifi"}
            Entry == [op : Op, cmd : names]
            c == ReloadCmds \o user
<1>1. user \in Seq(Entry) /\ Len(user) \in Nat
  <2>1. user \in Seq([op : Op, cmd : STRING])
    BY RunAssumption DEF TypeOK, Op
  <2>2. PICK n \in Nat : user \in [1..n -> [op : Op, cmd : STRING]]
    <3>. HIDE DEF user
    <3>. QED
      BY <2>1, LenProperties
  <2>3. user \in [1..n -> Entry]
    <3>1. [op : Op, cmd : STRING] \subseteq Entry
      OBVIOUS
    <3>. HIDE DEF user, Entry
    <3>. QED
      BY <2>2, <3>1
  <2>. HIDE DEF user, Entry
  <2>. QED
    BY <2>3
<1>2. ReloadCmds \in Seq(Entry) /\ Len(ReloadCmds) = 6 /\ ReloadCmds[6] = [op |-> "&&", cmd |-> "wifi"]
  BY DEF ReloadCmds, Op
<1>. HIDE DEF user, Entry
<1>3. /\ c \in Seq(Entry) /\ Len(c) = Len(ReloadCmds) + Len(user)
      /\ \A i \in 1..Len(ReloadCmds) + Len(user) :
            c[i] = IF i <= Len(ReloadCmds) THEN ReloadCmds[i] ELSE user[i - Len(ReloadCmds)]
  BY <1>1, <1>2, ConcatProperties, Zenon
<1>4. FullReload = c
  BY DEF FullReload, user
<1>. HIDE DEF c
<1>5. /\ Len(c) = 6 + Len(user) /\ c[6] = [op |-> "&&", cmd |-> "wifi"]
      /\ \A i \in 7..Len(c) : c[i] = user[i - 6] /\ i - 6 \in 1..Len(user)
  <2>1. /\ Len(c) = 6 + Len(user)
        /\ \A i \in 1..6 + Len(user) : c[i] = IF i <= 6 THEN ReloadCmds[i] ELSE user[i - 6]
    BY <1>2, <1>3
  <2>2. 6 \in 1..6 + Len(user) /\ 6 <= 6
    BY <1>1
  <2>3. \A i \in 7..6 + Len(user) : i \in 1..6 + Len(user) /\ ~(i <= 6) /\ i - 6 \in 1..Len(user)
    BY <1>1
  <2>4. c[6] = ReloadCmds[6]
    BY <2>1, <2>2, Zenon
  <2>5. \A i \in 7..6 + Len(user) : c[i] = user[i - 6]
    BY <2>1, <2>3, Zenon
  <2>. QED
    BY <1>2, <2>1, <2>3, <2>4, <2>5
<1>6. \A i \in 1..Len(c) : c[i].op \in Op
  <2>1. \A i \in 1..Len(c) : c[i] \in Entry
    BY <1>1, <1>3, <1>5
  <2>. QED
    BY <2>1 DEF Entry
<1>7. Vouched(user) \subseteq Vouched(c)
  <2>. SUFFICES ASSUME NEW n \in 1..Len(user), user[n].op # "||", user[n].cmd \notin Infallible,
                       \A m \in (n + 1)..Len(user) : user[m].op = "&&"
                PROVE  Target(user[n].cmd) \in Vouched(c)
    BY DEF Vouched
  <2>. DEFINE j == n + 6
  <2>1. j \in 7..Len(c) /\ j \in 1..Len(c) /\ j - 6 = n /\ c[j] = user[n]
    BY <1>1, <1>5
  <2>2. \A m \in (j + 1)..Len(c) : m \in 7..Len(c) /\ m - 6 \in (n + 1)..Len(user)
    BY <1>1, <1>5
  <2>3. \A m \in (j + 1)..Len(c) : c[m].op = "&&"
    BY <1>5, <2>2
  <2>. HIDE DEF j
  <2>. QED
    BY <2>1, <2>3 DEF Vouched
<1>8. (\A i \in 1..Len(user) : user[i].op = "&&") => "wifi" \in Vouched(c)
  <2>. SUFFICES ASSUME \A i \in 1..Len(user) : user[i].op = "&&" PROVE "wifi" \in Vouched(c)
    OBVIOUS
  <2>1. 6 \in 1..Len(c) /\ \A m \in 7..Len(c) : c[m].op = "&&"
    BY <1>1, <1>5
  <2>2. c[6].op # "||" /\ c[6].cmd = "wifi" /\ "wifi" \notin Infallible /\ Target("wifi") = "wifi" /\ 6 + 1 = 7
    BY <1>5 DEF Infallible, Target
  <2>. QED
    BY <2>1, <2>2 DEF Vouched
<1>9. Len(c) \in Nat /\ TailServices \subseteq Vouched(c)
  BY <1>1, <1>5, <1>7, <1>8 DEF TailServices, user
<1>. QED
  BY <1>4, <1>6, <1>9

LEMMA ReloadTail ==
    ASSUME TypeOK, NEW r \in Replies(conn), Reload(r), ~r.err
    PROVE  UpToDate(TailServices)'
<1>1. loaded' \in ReloadOutcomes(loaded, live, FullReload, r) /\ UNCHANGED <<live, want>>
  BY DEF Reload, ReloadReply, filesVars, runVars
<1>2. conn \in Conn
  BY DEF TypeOK
<1>3. ASSUME NEW s \in Services \cap TailServices PROVE loaded'[s] = live[ConfigOf[s]]
  BY <1>1, <1>2, <1>3, FullReloadVouches, VouchedRead
<1>. QED
  BY <1>1, <1>3 DEF UpToDate, TailServices

LEMMA StepTail ==
    ASSUME TypeOK, IOutcome, TailInv, [Next]_vars
    PROVE  TailInv'
<1>1. CASE Client
  <2>. PICK r \in Replies(conn) :
           \/ Probe(r) \/ EnsurePackages(r) \/ UploadOne(r)
           \/ ValidateUci(r) \/ ValidateXray(r)
           \/ MkBackup(r) \/ SnapshotOne(r) \/ SwapOne(r)
           \/ Reload(r) \/ PidofCheck(r) \/ PingCheck(r)
           \/ ListOld(r) \/ (\E t \in doomed : PruneOne(t, r)) \/ Clean(r)
           \/ RestoreOne(r) \/ Rereload(r)
    BY <1>1 DEF Client
  <2>1. CASE Reload(r)
    <3>1. CASE r.err
      BY <2>1, <3>1 DEF Reload, OrUndo, Goto, IOutcome, TailInv, Swapped
    <3>. QED
      BY <2>1, <3>1, ReloadTail DEF TailInv
  <2>2. CASE PidofCheck(r) \/ PingCheck(r) \/ ListOld(r) \/ (\E t \in doomed : PruneOne(t, r)) \/ Clean(r)
    <3>1. UNCHANGED <<live, loaded, want>> /\ (pc \in Swapped \ {"reload"} => UpToDate(TailServices))
      BY <2>2 DEF PidofCheck, PingCheck, ListOld, PruneOne, Clean, filesVars, runVars, TailInv
    <3>2. pc \in Swapped \ {"reload"}
      BY <2>2 DEF PidofCheck, PingCheck, ListOld, PruneOne, Clean, Swapped
    <3>. QED
      BY <3>1, <3>2 DEF TailInv, UpToDate, TailServices
  <2>3. CASE \/ Probe(r) \/ EnsurePackages(r) \/ UploadOne(r) \/ ValidateUci(r) \/ ValidateXray(r)
             \/ MkBackup(r) \/ SnapshotOne(r) \/ SwapOne(r) \/ RestoreOne(r) \/ Rereload(r)
    <3>1. outcome = "none"
      BY <2>3 DEF Probe, EnsurePackages, UploadOne, ValidateUci, ValidateXray, MkBackup, SnapshotOne, SwapOne,
         RestoreOne, Rereload, IOutcome
    <3>2. pc' \notin Swapped \ {"reload"} /\ outcome' # "ok"
      BY <2>3, <3>1 DEF Probe, EnsurePackages, UploadOne, ValidateUci, ValidateXray, MkBackup, SnapshotOne, SwapOne,
         RestoreOne, Rereload, OrFail, OrUndo, Advance, Finish, Goto, Swapped
    <3>. QED
      BY <3>2 DEF TailInv
  <2>. QED
    BY <2>1, <2>2, <2>3
<1>2. CASE ~Client
  <2>1. CASE UNCHANGED vars
    BY <2>1 DEF vars, TailInv, UpToDate, TailServices
  <2>2. CASE Die \/ \E v \in Version, t \in Time : Start(v, t)
    BY <2>2 DEF Die, Start, Finish, Goto, TailInv, Swapped
  <2>. QED
    BY <1>2, <2>1, <2>2 DEF Next
<1>. QED
  BY <1>1, <1>2

LEMMA InitTail == Init => TailInv
BY DEF Init, TailInv, Swapped

\* When a run reports success, wifi and the services of its post_apply commands have
\* read the files now live (TailReloaded), whichever commands of the list failed.
THEOREM TailReloadedAlways == Spec => []TailReloaded
<1>1. TypeOK /\ IInv /\ TailInv /\ [Next]_vars => TailInv'
  BY StepTail DEF IInv
<1>2. TailInv => TailReloaded
  BY DEF TailInv, TailReloaded
<1>. QED
  BY <1>1, <1>2, InitTail, Inductive, PTL DEF Spec

StillTail == rolls = 0 => TailInv

\* ... and that stays true until a rollback comes (SuccessReloads), one command at a
\* time.
THEOREM SuccessReloadsAlways == Exclusive /\ WSpec => []SuccessReloads
<1>1. WInit => WType /\ AloneInv /\ StillTail
  BY InitWType, InitAlone, InitTail DEF WInit, StillTail
<1>2. Exclusive /\ WType /\ AloneInv /\ StillTail /\ [WNext]_wvars
      => WType' /\ AloneInv' /\ StillTail'
  <2>. SUFFICES ASSUME Exclusive, WType, AloneInv, rolls = 0 => TailInv, [WNext]_wvars, rolls' = 0
                PROVE  TailInv'
    BY StepWType, StepAlone DEF StillTail
  <2>1. ASSUME NEW v \in Version, NEW t \in Time, StartApply(v, t) PROVE TailInv'
    BY <2>1 DEF StartApply, Start, Goto, TailInv, Swapped
  <2>2. ASSUME ContinueApply PROVE TailInv'
    <3>1. pc # "idle" /\ rolls = rolls' /\ [Next]_vars
      BY <2>2, StartCounts DEF ContinueApply, Die, Next, Client, Probe, EnsurePackages, UploadOne,
         ValidateUci, ValidateXray, MkBackup, SnapshotOne, SwapOne, Reload, PidofCheck, PingCheck, ListOld, PruneOne,
         Clean, RestoreOne, Rereload
    <3>. QED
      BY <3>1, StepTail DEF AloneInv, IInv, WType, WTypeOK
  <2>3. CASE StartRollback
    BY <2>3 DEF StartRollback, WType, WTypeOK
  <2>4. CASE ContinueRollback
    <3>1. rpc # "idle" /\ rolls' = rolls
      BY <2>4 DEF ContinueRollback, Rb!RClient, Rb!RNothing, Rb!RShow, Rb!RLatest, Rb!RTo, Rb!RRestoreOne, Rb!RReload,
         Rb!RDie
    <3>. QED
      BY <3>1 DEF AloneInv
  <2>5. CASE UNCHANGED wvars
    BY <2>5 DEF wvars, vars, TailInv, UpToDate, TailServices
  <2>. QED
    BY <2>1, <2>2, <2>3, <2>4, <2>5 DEF WNext
<1>3. StillTail => SuccessReloads
  BY DEF StillTail, TailInv, SuccessReloads, TailReloaded
<1>4. CASE Exclusive
  BY <1>1, <1>2, <1>3, <1>4, PTL DEF WSpec
<1>. QED
  BY <1>4

\* rollback's operators on lists are those of the reload step.
LEMMA SameReload ==
    \A old, tree, list, r : Rb!ReloadOutcomes(old, tree, list, r) = ReloadOutcomes(old, tree, list, r)
BY DEF Rb!ReloadOutcomes, ReloadOutcomes, Rb!LoadedAfter, LoadedAfter, Rb!Executions, Executions,
   Rb!Reloaded, Reloaded, Rb!Ran, Ran, Rb!Status, Status, Rb!Runs, Runs, Rb!Target, Target,
   Rb!Exits, Exits, Rb!Infallible, Infallible

LEMMA RollbackReads ==
    ASSUME WTypeOK, NEW r \in Replies(rconn), Rb!RReload(r), ~r.err
    PROVE  UpToDate({"network", "firewall", "wifi"})'
<1>. DEFINE list == Rb!RollbackReload
<1>1. loaded' \in ReloadOutcomes(loaded, live, list, r) /\ UNCHANGED live
  BY SameReload DEF Rb!RReload
<1>2. /\ Len(list) = 4 /\ \A i \in 1..4 : list[i].op = "&&"
      /\ list[1].cmd = "network" /\ list[2].cmd = "firewall" /\ list[4].cmd = "wifi"
  <2>1. Len(list) = 4 /\ \A i \in 1..4 : i = 1 \/ i = 2 \/ i = 3 \/ i = 4
    BY DEF Rb!RollbackReload
  <2>2. list[1].op = "&&" /\ list[2].op = "&&" /\ list[3].op = "&&" /\ list[4].op = "&&"
    BY DEF Rb!RollbackReload
  <2>3. list[1].cmd = "network" /\ list[2].cmd = "firewall" /\ list[4].cmd = "wifi"
    BY DEF Rb!RollbackReload
  <2>. HIDE DEF list
  <2>. QED
    BY <2>1, <2>2, <2>3
<1>3. rconn \in Conn
  BY SameRouter DEF WTypeOK, Rb!RTypeOK
<1>. HIDE DEF list
<1>4. {"network", "firewall", "wifi"} \subseteq Vouched(list)
  <2>1. \A s \in {"network", "firewall", "wifi"} : s \notin Infallible /\ Target(s) = s
    BY DEF Infallible, Target
  <2>2. \A n \in 1..Len(list) : list[n].op # "||" /\ \A m \in (n + 1)..Len(list) : list[m].op = "&&"
    BY <1>2
  <2>3. \A s \in {"network", "firewall", "wifi"} : \E n \in 1..Len(list) : list[n].cmd = s
    BY <1>2
  <2>. QED
    BY <2>1, <2>2, <2>3 DEF Vouched
<1>5. Len(list) \in Nat /\ \A i \in 1..Len(list) : list[i].op \in Op
  <2>1. Len(list) \in Nat /\ \A i \in 1..Len(list) : list[i].op = "&&"
    BY <1>2
  <2>2. "&&" \in Op
    BY DEF Op
  <2>. QED
    BY <2>1, <2>2, Zenon
<1>6. \A s \in Services \cap {"network", "firewall", "wifi"} : loaded'[s] = live[ConfigOf[s]]
  BY <1>1, <1>3, <1>4, <1>5, VouchedRead
<1>. QED
  BY <1>1, <1>6 DEF UpToDate

\* When a rollback reports success, network, firewall and wifi have read the
\* restored files (RollbackReloads): xray, in parentheses, masks nothing.
THEOREM RollbackReloadsAlways == WSpec => []RollbackReloads
<1>1. WInit => WType /\ AloneInv /\ RollbackReloads
  BY InitWType, InitAlone DEF WInit, RollbackReloads
<1>2. WType /\ AloneInv /\ RollbackReloads /\ [WNext]_wvars => WType' /\ AloneInv' /\ RollbackReloads'
  <2>. SUFFICES ASSUME WType, AloneInv, RollbackReloads, [WNext]_wvars, Exclusive, RollbackDone', rolls' > 0
                PROVE  UpToDate({"network", "firewall", "wifi"})'
    BY StepWType, StepAlone DEF RollbackReloads
  <2>1. CASE (\E v \in Version, t \in Time : StartApply(v, t)) \/ ContinueApply
    BY <2>1, ApplyAlone
  <2>2. CASE StartRollback
    BY <2>2 DEF StartRollback, Rb!RStart, RollbackDone
  <2>3. CASE ContinueRollback
    <3>1. PICK r \in Replies(rconn) : Rb!RReload(r) /\ ~r.err
      BY <2>3, RollbackSteps DEF RollbackDone, Rb!RDie, Rb!RNothing, Rb!RShow, Rb!RLatest, Rb!RTo, Rb!RRestoreOne,
         Rb!RReload, Rb!Choose, Rb!RAdvance, Rb!REnd
    <3>. QED
      BY <3>1, RollbackReads DEF WType
  <2>4. CASE UNCHANGED wvars
    BY <2>4 DEF wvars, vars, rollbackVars, RollbackReloads, RollbackDone, UpToDate
  <2>. QED
    BY <2>1, <2>2, <2>3, <2>4 DEF WNext
<1>. QED
  BY <1>1, <1>2, PTL DEF WSpec
=============================================================================
