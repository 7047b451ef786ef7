---------------------------- MODULE ApplyProofs -----------------------------
(***************************************************************************)
(* What holds of apply.Run for every set of paths, configs, timestamps and *)
(* services: its type invariant, the inductive invariant IInv of Apply and *)
(* what follows from it; that nothing unvetted goes live, and that pruning *)
(* spares the newest snapshots and the run's own.                          *)
(***************************************************************************)
EXTENDS Apply, FiniteSetTheorems, TLAPS

-----------------------------------------------------------------------------
(* The operators the model is built from *)

\* First grows by one element at a time, and ends at the whole sequence.
LEMMA FirstStep ==
    ASSUME NEW S, NEW s \in Seq(S), NEW n \in 1..Len(s)
    PROVE  /\ First(s, n) = First(s, n - 1) \cup {s[n]}
           /\ First(s, 0) = {}
           /\ s[n] \in S
           /\ First(s, n) \subseteq S
BY DEF First

\* A copy yields a slot, and never makes a file disappear.
LEMMA CopiedSlot ==
    ASSUME NEW r \in Reply, NEW src \in Slot, NEW dst \in Slot
    PROVE  /\ Copied(r.eff, src, dst) \in Slot
           /\ Copied(r.eff, src, dst) \in {src, dst, Torn}
           /\ dst # Absent => Copied(r.eff, src, dst) # Absent
           /\ src = Absent => Copied(r.eff, src, dst) = dst
           /\ r.eff = "all" /\ src # Absent => Copied(r.eff, src, dst) = src
BY ContentAssumption DEF Copied, Reply, Effect, Slot, Content

LEMMA UploadedSlot ==
    ASSUME NEW r \in Reply, NEW c \in Slot, NEW dst \in Slot
    PROVE  /\ Uploaded(r.eff, c, dst) \in Slot
           /\ r.eff = "all" => Uploaded(r.eff, c, dst) = c
BY ContentAssumption DEF Uploaded, Reply, Effect, Slot, Content

\* Removing leaves files as they are or not at all.
LEMMA RemovedTree ==
    ASSUME NEW r \in Reply, NEW tree \in Tree, NEW left \in Removed(r.eff, tree)
    PROVE  /\ left \in Tree
           /\ \A p \in Path : left[p] # Absent => left[p] = tree[p]
BY DEF Removed, Reply, Effect, Tree, Slot, EmptyTree, Overlay

LEMMA ReplyFacts ==
    ASSUME NEW c \in Conn, NEW r \in Replies(c)
    PROVE  /\ r \in Reply
           /\ r.conn \in Conn
           /\ r.err \in BOOLEAN
           /\ ~r.err => r.eff = "all"
BY DEF Replies, Reply, Conn

LEMMA VersionSlots ==
    /\ Version \subseteq Slot
    /\ Torn \in Slot /\ Absent \in Slot /\ Stock \in Slot
    /\ Absent \notin Version /\ Torn # Absent
BY ContentAssumption DEF Slot, Content

LEMMA RenderedPaths ==
    ASSUME NEW v \in Version
    PROVE  /\ Rendered[v] \in Seq(Path)
           /\ Len(Rendered[v]) \in Nat \ {0}
           /\ FilesOf(v) \subseteq Path
<1>1. Rendered[v] \in Seq(Path) /\ Rendered[v] # <<>>
  BY PathsAssumption
<1>2. \A i \in 1..Len(Rendered[v]) : Rendered[v][i] \in Path
  BY <1>1
<1>. QED
  BY <1>1, <1>2 DEF FilesOf, First

LEMMA ManagedPaths ==
    /\ Managed \in Seq(Path)
    /\ Len(Managed) \in Nat \ {0}
BY PathsAssumption

\* Replacing one file of one directory changes that file only.
LEMMA PutFile ==
    ASSUME NEW d \in [Time -> Tree], NEW t \in Time, NEW p \in Path, NEW c \in Slot
    PROVE  /\ [d EXCEPT ![t][p] = c] \in [Time -> Tree]
           /\ [d EXCEPT ![t][p] = c][t][p] = c
           /\ \A u \in Time, q \in Path :
                 u # t \/ q # p => [d EXCEPT ![t][p] = c][u][q] = d[u][q]
<1>1. d[t] \in Tree /\ [d[t] EXCEPT ![p] = c] \in Tree
  BY DEF Tree
<1>. QED
  BY <1>1 DEF Tree

-----------------------------------------------------------------------------
(* Types *)

LEMMA InitType == Init => TypeOK
<1>. SUFFICES ASSUME Init PROVE TypeOK
  OBVIOUS
<1>1. EmptyTree \in Tree
  BY VersionSlots DEF EmptyTree, Tree
<1>2. live \in Tree
  BY VersionSlots DEF Init, Overlay, Tree
<1>3. loaded \in [Services -> Slot]
  BY <1>2, ServicesAssumption DEF Init, Tree
<1>4. restored \in BOOLEAN
  BY DEF Init
<1>5. pre \in Tree
  BY <1>2 DEF Init
<1>. QED
  BY <1>1, <1>2, <1>3, <1>4, <1>5 DEF Init, TypeOK, Stages, Conn, Outcomes

\* The stage machine: wherever the code goes next, it is a stage.
LEMMA GotoType ==
    ASSUME NEW stage \in Stages, Goto(stage)
    PROVE  pc' \in Stages /\ k' \in Nat \ {0}
BY DEF Goto

LEMMA AdvanceType ==
    ASSUME TypeOK, NEW S, NEW s \in Seq(S), NEW next \in Stages, Advance(s, next)
    PROVE  pc' \in Stages /\ k' \in Nat \ {0}
BY DEF Advance, Goto, TypeOK

LEMMA ReloadType ==
    ASSUME TypeOK, NEW list, NEW r \in Replies(conn), ReloadReply(list, r)
    PROVE  loaded' \in [Services -> Slot] /\ conn' \in Conn
<1>1. PICK x : loaded' = LoadedAfter(loaded, live, list, x.ok, x.n)
  BY DEF ReloadReply, ReloadOutcomes
<1>2. \A s \in Services : live[ConfigOf[s]] \in Slot
  BY ServicesAssumption DEF TypeOK, Tree
<1>3. loaded' \in [Services -> Slot]
  BY <1>1, <1>2 DEF LoadedAfter, TypeOK
<1>. QED
  BY <1>3, ReplyFacts DEF ReloadReply, TypeOK

\* TypeOK is inductive together with the bounds of the loops.
LEMMA StartType ==
    ASSUME NEW v \in Version, NEW t \in Time, TypeOK, Start(v, t)
    PROVE  TypeOK' /\ ILoop'
<1>1. restored' \in BOOLEAN
  BY DEF Start
<1>2. ILoop'
  BY DEF Start, Goto, ILoop
<1>. QED
  BY <1>1, <1>2 DEF Start, Goto, TypeOK, Stages, Conn, Outcomes, filesVars

LEMMA ClientType ==
    ASSUME TypeOK, ILoop, Client
    PROVE  TypeOK' /\ ILoop'
<1>. PICK r \in Replies(conn) :
         \/ Probe(r) \/ EnsurePackages(r) \/ UploadOne(r)
         \/ ValidateUci(r) \/ ValidateXray(r)
         \/ MkBackup(r) \/ SnapshotOne(r) \/ SwapOne(r)
         \/ Reload(r) \/ PidofCheck(r) \/ PingCheck(r)
         \/ ListOld(r) \/ (\E t \in doomed : PruneOne(t, r)) \/ Clean(r)
         \/ RestoreOne(r) \/ Rereload(r)
  BY DEF Client
<1>r. r \in Reply /\ r.conn \in Conn
  BY ReplyFacts DEF TypeOK
<1>s. /\ Rendered[want] \in Seq(Path) /\ Len(Rendered[want]) \in Nat \ {0}
      /\ Managed \in Seq(Path) /\ Len(Managed) \in Nat \ {0}
  BY RenderedPaths, ManagedPaths DEF TypeOK
<1>1. CASE Probe(r)
  BY <1>1, <1>r, <1>s DEF Probe, OrFail, Finish, Goto, TypeOK, ILoop, Stages, Outcomes,
     filesVars, runVars
<1>2. CASE EnsurePackages(r)
  BY <1>2, <1>r, <1>s DEF EnsurePackages, Goto, TypeOK, ILoop, Stages, filesVars, runVars
<1>3. CASE UploadOne(r)
  <2>. DEFINE p == Rendered[want][k]
  <2>1. p \in Path
    BY <1>3, <1>s DEF UploadOne, ILoop, TypeOK
  <2>2. Uploaded(r.eff, want, staging[ts][p]) \in Slot
    BY <1>r, <2>1, UploadedSlot, VersionSlots DEF TypeOK, Tree
  <2>3. staging' \in [Time -> Tree]
    <3>1. staging' = [staging EXCEPT ![ts][p] = Uploaded(r.eff, want, staging[ts][p])]
      BY <1>3 DEF UploadOne
    <3>. DEFINE c == Uploaded(r.eff, want, staging[ts][p])
    <3>. HIDE DEF p, c
    <3>2. ts \in Time /\ c \in Slot /\ staging \in [Time -> Tree]
      BY <2>2 DEF TypeOK, c
    <3>. QED
      <4>1. staging' = [staging EXCEPT ![ts][p] = c]
        BY <3>1 DEF c
      <4>. QED
        BY <2>1, <3>2, <4>1, PutFile
  <2>4. pc' \in Stages /\ k' \in Nat \ {0} /\ outcome' \in Outcomes /\ ILoop'
    BY <1>3, <1>s DEF UploadOne, OrFail, Finish, Advance, Goto, TypeOK, ILoop, Stages,
       Outcomes, runVars
  <2>. QED
    BY <1>3, <1>r, <2>3, <2>4 DEF UploadOne, TypeOK, runVars
<1>4. CASE ValidateUci(r)
  BY <1>4, <1>r DEF ValidateUci, OrFail, Finish, Goto, TypeOK, ILoop, Stages, Outcomes,
     filesVars, runVars
<1>5. CASE ValidateXray(r)
  BY <1>5, <1>r DEF ValidateXray, OrFail, Finish, Goto, TypeOK, ILoop, Stages, Outcomes,
     filesVars, runVars
<1>6. CASE MkBackup(r)
  BY <1>6, <1>r, <1>s DEF MkBackup, OrFail, Finish, Goto, TypeOK, ILoop, Stages, Outcomes,
     runVars
<1>7. CASE SnapshotOne(r)
  <2>. DEFINE p == Managed[k]
  <2>1. p \in Path
    BY <1>7, <1>s DEF SnapshotOne, ILoop, TypeOK
  <2>2. Copied(r.eff, live[p], backup[ts][p]) \in Slot
    BY <1>r, <2>1, CopiedSlot DEF TypeOK, Tree
  <2>3. backup' \in [Time -> Tree]
    <3>1. backup' = [backup EXCEPT ![ts][p] = Copied(r.eff, live[p], backup[ts][p])]
      BY <1>7 DEF SnapshotOne
    <3>. DEFINE c == Copied(r.eff, live[p], backup[ts][p])
    <3>. HIDE DEF p, c
    <3>2. ts \in Time /\ c \in Slot /\ backup \in [Time -> Tree]
      BY <2>2 DEF TypeOK, c
    <3>. QED
      <4>1. backup' = [backup EXCEPT ![ts][p] = c]
        BY <3>1 DEF c
      <4>. QED
        BY <2>1, <3>2, <4>1, PutFile
  <2>4. pc' \in Stages /\ k' \in Nat \ {0} /\ outcome' \in Outcomes /\ ILoop'
    BY <1>7, <1>s DEF SnapshotOne, OrFail, Finish, Advance, Goto, TypeOK, ILoop, Stages,
       Outcomes, runVars
  <2>. QED
    BY <1>7, <1>r, <2>3, <2>4 DEF SnapshotOne, TypeOK, runVars
<1>8. CASE SwapOne(r)
  <2>. DEFINE p == Rendered[want][k]
  <2>1. p \in Path
    BY <1>8, <1>s DEF SwapOne, ILoop, TypeOK
  <2>2. Copied(r.eff, staging[ts][p], live[p]) \in Slot
    <3>. HIDE DEF p
    <3>1. staging[ts][p] \in Slot /\ live[p] \in Slot
      BY <2>1 DEF TypeOK, Tree
    <3>. QED
      BY <1>r, <3>1, CopiedSlot
  <2>3. live' \in Tree
    BY <1>8, <2>1, <2>2 DEF SwapOne, TypeOK, Tree
  <2>4. pc' \in Stages /\ k' \in Nat \ {0} /\ ILoop'
    BY <1>8, <1>s DEF SwapOne, OrUndo, Advance, Goto, TypeOK, ILoop, Stages, runVars
  <2>. QED
    BY <1>8, <1>r, <2>3, <2>4 DEF SwapOne, OrUndo, TypeOK, runVars
<1>9. CASE Reload(r)
  <2>1. loaded' \in [Services -> Slot] /\ conn' \in Conn
    BY <1>9, ReloadType DEF Reload
  <2>. QED
    BY <1>9, <2>1, <1>s DEF Reload, OrUndo, Goto, TypeOK, ILoop, Stages, filesVars, runVars
<1>10. CASE PidofCheck(r)
  BY <1>10, <1>r, <1>s DEF PidofCheck, OrUndo, Goto, TypeOK, ILoop, Stages, filesVars, runVars
<1>11. CASE PingCheck(r)
  BY <1>11, <1>r, <1>s DEF PingCheck, OrUndo, Goto, TypeOK, ILoop, Stages, filesVars, runVars
<1>12. CASE ListOld(r)
  <2>1. doomed' \subseteq Time
    BY <1>12 DEF ListOld, Beyond, TypeOK
  <2>. QED
    BY <1>12, <1>r, <2>1 DEF ListOld, Goto, TypeOK, ILoop, Stages, filesVars, runVars
<1>13. ASSUME NEW t \in doomed, PruneOne(t, r) PROVE TypeOK' /\ ILoop'
  <2>1. PICK tree \in Removed(r.eff, backup[t]) : backup' = [backup EXCEPT ![t] = tree]
    BY <1>13 DEF PruneOne
  <2>2. backup' \in [Time -> Tree]
    BY <1>13, <1>r, <2>1, RemovedTree DEF TypeOK
  <2>3. doomed' \subseteq Time /\ snaps' \subseteq Time
    BY <1>13 DEF PruneOne, StillDoomed, TypeOK
  <2>. QED
    BY <1>13, <1>r, <2>2, <2>3 DEF PruneOne, Goto, TypeOK, ILoop, Stages, runVars
<1>14. CASE Clean(r)
  <2>1. PICK tree \in Removed(r.eff, staging[ts]) : staging' = [staging EXCEPT ![ts] = tree]
    BY <1>14 DEF Clean
  <2>2. staging' \in [Time -> Tree]
    BY <1>r, <2>1, RemovedTree DEF TypeOK
  <2>. QED
    BY <1>14, <1>r, <2>2 DEF Clean, Finish, Goto, TypeOK, ILoop, Stages, Outcomes, runVars
<1>15. CASE RestoreOne(r)
  <2>. DEFINE p == Managed[k]
  <2>1. p \in Path
    BY <1>15, <1>s DEF RestoreOne, ILoop, TypeOK
  <2>2. Copied(r.eff, backup[ts][p], live[p]) \in Slot
    BY <1>r, <2>1, CopiedSlot DEF TypeOK, Tree
  <2>3. live' \in Tree
    BY <1>15, <2>1, <2>2 DEF RestoreOne, TypeOK, Tree
  <2>4. pc' \in Stages /\ k' \in Nat \ {0} /\ ILoop'
    BY <1>15, <1>s DEF RestoreOne, Advance, Goto, TypeOK, ILoop, Stages, runVars
  <2>5. restored' \in BOOLEAN
    BY <1>15 DEF RestoreOne
  <2>. QED
    BY <1>15, <1>r, <2>3, <2>4, <2>5 DEF RestoreOne, TypeOK, runVars
<1>16. CASE Rereload(r)
  <2>1. loaded' \in [Services -> Slot] /\ conn' \in Conn
    BY <1>16, ReloadType DEF Rereload
  <2>. QED
    BY <1>16, <2>1 DEF Rereload, Finish, Goto, TypeOK, ILoop, Stages, Outcomes, filesVars, runVars
<1>. QED
  BY <1>1, <1>2, <1>3, <1>4, <1>5, <1>6, <1>7, <1>8, <1>9, <1>10, <1>11, <1>12, <1>13,
     <1>14, <1>15, <1>16

LEMMA StepType == TypeOK /\ ILoop /\ [Next]_vars => TypeOK' /\ ILoop'
<1>1. ASSUME TypeOK, ILoop, Die PROVE TypeOK' /\ ILoop'
  BY <1>1 DEF Die, Finish, Goto, TypeOK, ILoop, Stages, Outcomes, filesVars, runVars
<1>2. ASSUME TypeOK, ILoop, UNCHANGED vars PROVE TypeOK' /\ ILoop'
  BY <1>2 DEF vars, TypeOK, ILoop
<1>. QED
  BY <1>1, <1>2, StartType, ClientType DEF Next

\* The state of the router and of the run keep their types (TypeOK), whatever
\* the remote calls answer.
THEOREM TypeCorrect == Spec => []TypeOK
<1>1. Init => TypeOK /\ ILoop
  BY InitType DEF Init, ILoop
<1>. QED
  BY <1>1, StepType, PTL DEF Spec

-----------------------------------------------------------------------------
(* The inductive invariant *)

LEMMA InitInv == Init => IInv
<1>. SUFFICES ASSUME Init PROVE IInv
  OBVIOUS
<1>1. IKept
  BY DEF Init, IKept, EmptyTree
<1>2. ILoop /\ IStaged /\ ILive /\ ISnapshot
  BY DEF Init, ILoop, IStaged, ILive, ISnapshot, BeforeSwap, Swapped, Guarded
<1>3. IOutcome /\ Recoverable /\ OutcomeTruthful
  BY DEF Init, IOutcome, Recoverable, OutcomeTruthful
<1>. QED
  BY <1>1, <1>2, <1>3 DEF IInv

\* A run starts: whatever the last one left is what there is to preserve.
LEMMA StartInv ==
    ASSUME NEW v \in Version, NEW t \in Time, IKept, Start(v, t)
    PROVE  IInv'
<1>1. IKept'
  BY DEF Start, IKept, filesVars
<1>2. ILoop' /\ IStaged' /\ ILive' /\ ISnapshot'
  BY DEF Start, Goto, ILoop, IStaged, ILive, ISnapshot, BeforeSwap, Swapped, Guarded, filesVars
<1>3. IOutcome' /\ Recoverable' /\ OutcomeTruthful'
  BY DEF Start, Goto, IOutcome, Recoverable, OutcomeTruthful, filesVars
<1>. QED
  BY <1>1, <1>2, <1>3 DEF IInv

\* Steps up to the validation touch the staging directory at most.
LEMMA QuietBeforeSwap ==
    ASSUME TypeOK, IInv, pc \in BeforeSwap, UNCHANGED <<live, backup, pre, ts, want, restored>>,
           \/ pc' = "idle" /\ outcome' = "failed"
           \/ pc' \in BeforeSwap /\ UNCHANGED outcome
    PROVE  IKept' /\ ILive' /\ IOutcome' /\ Recoverable' /\ OutcomeTruthful'
<1>1. live = pre
  BY DEF IInv, ILive
<1>2. pc # "idle"
  BY DEF BeforeSwap
<1>3. outcome = "none" /\ ~restored
  BY <1>2 DEF IInv, IOutcome, BeforeSwap
<1>4. IKept'
  BY DEF IInv, IKept
<1>5. ILive'
  BY <1>1 DEF ILive, BeforeSwap, Swapped
<1>. QED
  BY <1>1, <1>3, <1>4, <1>5 DEF IOutcome, Recoverable, OutcomeTruthful, BeforeSwap

\* Steps after the swap that touch neither live files nor the snapshot: the run
\* goes on, or turns to the restore.
LEMMA QuietAfterSwap ==
    ASSUME TypeOK, IInv, pc \in {"reload", "pidof", "ping"}, k' = 1,
           UNCHANGED <<live, backup, snaps, pre, ts, want, outcome, restored>>,
           pc' \in {"pidof", "ping", "list", "restore"}
    PROVE  IInv'
<1>1. live = Installed(pre, want)
  BY DEF IInv, ILive, Swapped
<1>2. ts \in snaps /\ backup[ts] = pre
  BY DEF IInv, ISnapshot, Guarded
<1>3. Mixed(live, pre, want)
  BY <1>1 DEF Installed, Overlay, Mixed
<1>4. First(Managed, 0) = {}
  BY DEF First
<1>5. outcome = "none" /\ ~restored
  BY DEF IInv, IOutcome
<1>6. IKept' /\ IStaged'
  BY DEF IInv, IKept, IStaged
<1>7. ILoop'
  BY ManagedPaths DEF ILoop
<1>8. ILive'
  BY <1>1, <1>3, <1>4 DEF ILive, BeforeSwap, Swapped
<1>9. ISnapshot'
  BY <1>2 DEF ISnapshot
<1>10. IOutcome' /\ Recoverable' /\ OutcomeTruthful'
  BY <1>2, <1>5 DEF IOutcome, Recoverable, OutcomeTruthful
<1>. QED
  BY <1>6, <1>7, <1>8, <1>9, <1>10 DEF IInv

\* Every file is uploaded, or the run fails.
LEMMA UploadInv ==
    ASSUME TypeOK, TypeOK', IInv, NEW r \in Replies(conn), UploadOne(r)
    PROVE  IInv'
<1>. DEFINE s == Rendered[want]
            p == s[k]
<1>1. r \in Reply /\ s \in Seq(Path) /\ Len(s) \in Nat \ {0} /\ k \in 1..Len(s)
  BY RenderedPaths, ReplyFacts DEF TypeOK, UploadOne, IInv, ILoop
<1>2. First(s, k) = First(s, k - 1) \cup {p} /\ p \in Path /\ First(s, k) \subseteq Path
  BY <1>1, FirstStep
<1>3. ~r.err => \A q \in First(s, k) : staging'[ts][q] = want
  <2>. SUFFICES ASSUME ~r.err, NEW q \in First(s, k) PROVE staging'[ts][q] = want
    OBVIOUS
  <2>1. staging' = [staging EXCEPT ![ts][p] = Uploaded(r.eff, want, staging[ts][p])]
    BY DEF UploadOne
  <2>2. Uploaded(r.eff, want, staging[ts][p]) = want
    BY <1>1, ReplyFacts DEF Uploaded, TypeOK
  <2>3. q # p => staging[ts][q] = want
    BY <1>2 DEF IInv, IStaged, UploadOne
  <2>. HIDE DEF p, s
  <2>. QED
    BY <1>2, <2>1, <2>2, <2>3 DEF TypeOK, Tree
<1>4. IStaged' /\ ILoop'
  <2>1. CASE r.err
    BY <2>1 DEF UploadOne, OrFail, Finish, Goto, IStaged, ILoop
  <2>2. CASE ~r.err /\ k < Len(s)
    BY <1>1, <1>3, <2>2 DEF UploadOne, OrFail, Advance, IStaged, ILoop, TypeOK, runVars
  <2>3. CASE ~r.err /\ k = Len(s)
    BY <1>1, <1>3, <2>3 DEF UploadOne, OrFail, Advance, Goto, IStaged, ILoop, FilesOf, runVars
  <2>. QED
    BY <1>1, <2>1, <2>2, <2>3
<1>5. IKept' /\ ILive' /\ IOutcome' /\ Recoverable' /\ OutcomeTruthful'
  BY QuietBeforeSwap DEF UploadOne, OrFail, Finish, Advance, Goto, BeforeSwap, runVars
<1>6. ISnapshot'
  BY DEF UploadOne, OrFail, Finish, Advance, Goto, ISnapshot, Guarded
<1>. QED
  BY <1>4, <1>5, <1>6 DEF IInv

\* The probe, the packages and the two validations change nothing on the router
\* that the invariant is about.
LEMMA CheckInv ==
    ASSUME TypeOK, TypeOK', IInv, NEW r \in Replies(conn),
           Probe(r) \/ EnsurePackages(r) \/ ValidateUci(r) \/ ValidateXray(r)
    PROVE  IInv'
<1>1. IKept' /\ ILive' /\ IOutcome' /\ Recoverable' /\ OutcomeTruthful'
  BY QuietBeforeSwap DEF Probe, EnsurePackages, ValidateUci, ValidateXray, OrFail, Finish,
     Goto, BeforeSwap, filesVars, runVars
<1>2. First(Rendered[want], 0) = {}
  BY DEF First
<1>3. IStaged'
  BY <1>2 DEF Probe, EnsurePackages, ValidateUci, ValidateXray, OrFail, Finish, Goto,
     IInv, IStaged, filesVars, runVars
<1>4. ILoop' /\ ISnapshot'
  BY RenderedPaths DEF Probe, EnsurePackages, ValidateUci, ValidateXray, OrFail, Finish, Goto,
     ILoop, ISnapshot, Guarded, TypeOK, filesVars, runVars
<1>. QED
  BY <1>1, <1>3, <1>4 DEF IInv

LEMMA MkBackupInv ==
    ASSUME TypeOK, TypeOK', IInv, NEW r \in Replies(conn), MkBackup(r)
    PROVE  IInv'
<1>1. IKept' /\ ILive' /\ IOutcome' /\ Recoverable' /\ OutcomeTruthful'
  BY QuietBeforeSwap DEF MkBackup, OrFail, Finish, Goto, BeforeSwap, runVars
<1>2. IStaged' /\ ILoop'
  BY ManagedPaths DEF MkBackup, OrFail, Finish, Goto, IInv, IStaged, ILoop, runVars
<1>3. First(Managed, 0) = {} /\ (~r.err => ts \in snaps')
  BY ReplyFacts DEF First, MkBackup, TypeOK
<1>4. ISnapshot'
  BY <1>3 DEF MkBackup, OrFail, Finish, Goto, ISnapshot, Guarded, runVars
<1>. QED
  BY <1>1, <1>2, <1>4 DEF IInv

\* The snapshot is the managed files as the run found them: what exists is
\* copied, and what does not exist was in no snapshot before.
LEMMA SnapshotInv ==
    ASSUME TypeOK, TypeOK', IInv, NEW r \in Replies(conn), SnapshotOne(r)
    PROVE  IInv'
<1>. DEFINE p == Managed[k]
            c == Copied(r.eff, live[p], backup[ts][p])
<1>1. r \in Reply /\ (~r.err => r.eff = "all") /\ Managed \in Seq(Path) /\ k \in 1..Len(Managed)
  BY ManagedPaths, ReplyFacts DEF TypeOK, SnapshotOne, IInv, ILoop
<1>2. First(Managed, k) = First(Managed, k - 1) \cup {p} /\ p \in Path
  BY <1>1, FirstStep
<1>3. live[p] \in Slot /\ backup[ts][p] \in Slot /\ ts \in Time /\ live = pre /\ ts \in snaps
  BY <1>2 DEF TypeOK, Tree, SnapshotOne, IInv, ILive, ISnapshot, BeforeSwap
<1>4. c \in Slot /\ (backup[ts][p] # Absent => c # Absent)
      /\ (live[p] = Absent => c = backup[ts][p])
      /\ (r.eff = "all" /\ live[p] # Absent => c = live[p])
  <2>. DEFINE src == live[p]
              dst == backup[ts][p]
  <2>1. r \in Reply /\ src \in Slot /\ dst \in Slot
    BY <1>1, <1>3
  <2>. HIDE DEF p, src, dst
  <2>2. /\ Copied(r.eff, src, dst) \in Slot
        /\ dst # Absent => Copied(r.eff, src, dst) # Absent
        /\ src = Absent => Copied(r.eff, src, dst) = dst
        /\ r.eff = "all" /\ src # Absent => Copied(r.eff, src, dst) = src
    BY ONLY <2>1, CopiedSlot
  <2>. QED
    BY <2>2 DEF src, dst
<1>5. live[p] = Absent => backup[ts][p] = Absent
  BY <1>2, <1>3 DEF IInv, IKept
<1>6. backup' = [backup EXCEPT ![ts][p] = c]
  BY DEF SnapshotOne
<1>7. /\ backup'[ts][p] = c
      /\ \A t \in Time, q \in Path : t # ts \/ q # p => backup'[t][q] = backup[t][q]
  <2>1. backup \in [Time -> Tree] /\ ts \in Time /\ p \in Path /\ c \in Slot
    BY <1>2, <1>3, <1>4 DEF TypeOK
  <2>. HIDE DEF p, c
  <2>. QED
    BY ONLY <1>6, <2>1, PutFile
<1>8. IKept'
  <2>. HIDE DEF p, c
  <2>. SUFFICES ASSUME NEW t \in Time, NEW q \in Path, backup'[t][q] # Absent
                PROVE  live[q] # Absent
    BY DEF IKept, SnapshotOne
  <2>1. CASE t = ts /\ q = p
    BY <1>4, <1>5, <1>7, <2>1
  <2>2. CASE t # ts \/ q # p
    BY <1>7, <2>2 DEF IInv, IKept
  <2>. QED
    BY <2>1, <2>2
<1>9. ~r.err => \A q \in First(Managed, k) : backup'[ts][q] = pre[q]
  <2>. HIDE DEF p, c
  <2>. SUFFICES ASSUME ~r.err, NEW q \in First(Managed, k) PROVE backup'[ts][q] = pre[q]
    OBVIOUS
  <2>0. First(Managed, k) \subseteq Path
    BY <1>1, FirstStep
  <2>1. CASE q = p
    BY <1>1, <1>3, <1>4, <1>5, <1>7, <2>1
  <2>2. CASE q # p
    <3>1. q \in First(Managed, k - 1)
      BY <1>2, <2>2
    <3>2. backup[ts][q] = pre[q]
      BY <3>1 DEF IInv, ISnapshot, SnapshotOne
    <3>. QED
      BY <1>3, <1>7, <2>0, <2>2, <3>2
  <2>. QED
    BY <2>1, <2>2
<1>10. ISnapshot' /\ ILoop' /\ IStaged' /\ ILive'
  <2>0. UNCHANGED <<ts, pre, want, live, staging>> /\ ts \in snaps'
    BY <1>3 DEF SnapshotOne, runVars
  <2>1. CASE r.err
    BY <2>0, <2>1 DEF SnapshotOne, OrFail, Finish, Goto, ISnapshot, ILoop, IStaged, ILive,
       BeforeSwap, Swapped, Guarded
  <2>2. CASE ~r.err /\ k < Len(Managed)
    <3>1. pc' = "snapshot" /\ k' = k + 1 /\ k' - 1 = k /\ k' <= Len(Managed)
      BY <1>1, <2>2 DEF SnapshotOne, OrFail, Advance
    <3>2. \A q \in FilesOf(want) : staging[ts][q] = want
      BY DEF SnapshotOne, IInv, IStaged
    <3>. QED
      BY <1>3, <1>9, <2>0, <2>2, <3>1, <3>2 DEF ISnapshot, ILoop, IStaged, ILive,
         BeforeSwap, Swapped, Guarded
  <2>3. CASE ~r.err /\ k = Len(Managed)
    <3>1. pc' = "swap" /\ k' = 1
      BY <1>1, <2>3 DEF SnapshotOne, OrFail, Advance, Goto
    <3>2. \A q \in FilesOf(want) : staging[ts][q] = want
      BY DEF SnapshotOne, IInv, IStaged
    <3>3. backup'[ts] = pre
      <4>1. \A q \in Path : backup'[ts][q] = pre[q]
        BY <1>9, <2>3, PathsAssumption
      <4>. QED
        BY <1>3, <4>1 DEF TypeOK, Tree
    <3>4. First(Rendered[want], 0) = {} /\ live = Overlay(pre, {}, want)
      BY <1>3 DEF First, Overlay, TypeOK, Tree
    <3>5. 1 <= Len(Rendered[want])
      BY RenderedPaths DEF TypeOK
    <3>6. ISnapshot'
      BY <2>0, <3>1, <3>3 DEF ISnapshot, Guarded
    <3>7. ILoop' /\ IStaged'
      BY <2>0, <3>1, <3>2, <3>5 DEF ILoop, IStaged
    <3>8. ILive'
      BY <2>0, <3>1, <3>4 DEF ILive, BeforeSwap, Swapped
    <3>. QED
      BY <3>6, <3>7, <3>8
  <2>. QED
    BY <1>1, <2>1, <2>2, <2>3
<1>11. IOutcome' /\ Recoverable' /\ OutcomeTruthful'
  <2>1. outcome = "none" /\ ~restored
    BY DEF SnapshotOne, IInv, IOutcome
  <2>. QED
    BY <1>3, <2>1 DEF SnapshotOne, OrFail, Finish, Advance, Goto, IOutcome, Recoverable,
       OutcomeTruthful, runVars
<1>. QED
  BY <1>8, <1>10, <1>11 DEF IInv

\* After each file swapped in, the live files are the old ones overlaid with those;
\* a copy that stops half-way leaves a mix the snapshot can undo.
LEMMA SwapInv ==
    ASSUME TypeOK, TypeOK', IInv, NEW r \in Replies(conn), SwapOne(r)
    PROVE  IInv'
<1>. DEFINE s == Rendered[want]
            p == s[k]
            c == Copied(r.eff, staging[ts][p], live[p])
<1>1. r \in Reply /\ (~r.err => r.eff = "all") /\ s \in Seq(Path) /\ Len(s) \in Nat \ {0}
      /\ k \in 1..Len(s)
  BY RenderedPaths, ReplyFacts DEF TypeOK, SwapOne, IInv, ILoop
<1>2. First(s, k) = First(s, k - 1) \cup {p} /\ p \in Path /\ p \in FilesOf(want)
      /\ First(s, k - 1) \subseteq FilesOf(want)
  BY <1>1, FirstStep DEF First, FilesOf
<1>3. /\ live[p] \in Slot /\ staging[ts][p] = want /\ want \in Slot /\ want # Absent
      /\ live = Overlay(pre, First(s, k - 1), want)
      /\ ts \in snaps /\ backup[ts] = pre
      /\ outcome = "none" /\ ~restored
  BY <1>2, VersionSlots DEF TypeOK, Tree, SwapOne, IInv, IStaged, ILive, ISnapshot, IOutcome, Guarded
<1>4. c \in {want, live[p], Torn} /\ (live[p] # Absent => c # Absent) /\ (~r.err => c = want)
  <2>. HIDE DEF p
  <2>. DEFINE src == staging[ts][p]
              dst == live[p]
  <2>1. src = want /\ src \in Slot /\ src # Absent /\ dst \in Slot
    BY <1>3
  <2>. HIDE DEF src, dst
  <2>2. /\ Copied(r.eff, src, dst) \in {src, dst, Torn}
        /\ dst # Absent => Copied(r.eff, src, dst) # Absent
        /\ r.eff = "all" => Copied(r.eff, src, dst) = src
    BY ONLY <1>1, <2>1, CopiedSlot
  <2>. QED
    BY <1>1, <1>3, <2>2 DEF src, dst
<1>5. /\ \A q \in Path : live'[q] = IF q = p THEN c ELSE live[q]
      /\ live' \in Tree
  <2>1. live' = [live EXCEPT ![p] = c] /\ live \in [Path -> Slot]
    BY DEF SwapOne, TypeOK, Tree
  <2>2. live' \in [Path -> Slot]
    BY DEF TypeOK, Tree
  <2>. HIDE DEF p, c
  <2>. QED
    BY <1>2, <2>1, <2>2 DEF Tree
<1>6. UNCHANGED <<staging, backup, snaps, ts, want, pre, outcome, restored>>
  BY DEF SwapOne, OrUndo, runVars
<1>7. IKept'
  <2>. HIDE DEF p, c
  <2>. QED
    BY <1>4, <1>5, <1>6 DEF IInv, IKept
<1>8. Mixed(live', pre, want)
  <2>. HIDE DEF p, c, s
  <2>. QED
    BY <1>2, <1>3, <1>4, <1>5 DEF Mixed, Overlay
<1>9. ~r.err => live' = Overlay(pre, First(s, k), want)
  <2>. HIDE DEF p, c, s
  <2>. QED
    BY <1>2, <1>3, <1>4, <1>5 DEF Overlay, Tree
<1>10. ILive' /\ ILoop' /\ IStaged' /\ ISnapshot'
  <2>1. CASE r.err
    <3>1. pc' = "restore" /\ k' = 1
      BY <2>1 DEF SwapOne, OrUndo, Goto
    <3>2. First(Managed, 0) = {}
      BY DEF First
    <3>3. ILive'
      BY <1>6, <1>8, <3>1, <3>2 DEF ILive, BeforeSwap, Swapped
    <3>. QED
      BY <1>3, <1>6, <3>1, <3>3, ManagedPaths DEF ILoop, IStaged, ISnapshot
  <2>2. CASE ~r.err /\ k < Len(s)
    <3>1. pc' = "swap" /\ k' = k + 1 /\ k' - 1 = k
      BY <1>1, <2>2 DEF SwapOne, OrUndo, Advance
    <3>2. ILive'
      BY <1>6, <1>9, <2>2, <3>1 DEF ILive, BeforeSwap, Swapped
    <3>3. ILoop' /\ IStaged'
      BY <1>1, <1>6, <2>2, <3>1 DEF ILoop, IInv, IStaged, SwapOne
    <3>. QED
      BY <1>3, <1>6, <3>1, <3>2, <3>3 DEF ISnapshot
  <2>3. CASE ~r.err /\ k = Len(s)
    <3>1. pc' = "reload" /\ k' = 1
      BY <1>1, <2>3 DEF SwapOne, OrUndo, Advance, Goto
    <3>2. ILive'
      BY <1>6, <1>9, <2>3, <3>1 DEF ILive, BeforeSwap, Swapped, Installed, FilesOf
    <3>. QED
      BY <1>3, <1>6, <3>1, <3>2 DEF ILoop, IStaged, ISnapshot
  <2>. QED
    BY <1>1, <2>1, <2>2, <2>3
<1>11. IOutcome' /\ Recoverable' /\ OutcomeTruthful'
  BY <1>3, <1>6 DEF IOutcome, Recoverable, OutcomeTruthful
<1>. QED
  BY <1>7, <1>10, <1>11 DEF IInv

LEMMA PostInv ==
    ASSUME TypeOK, IInv, NEW r \in Replies(conn), Reload(r) \/ PidofCheck(r) \/ PingCheck(r)
    PROVE  IInv'
BY QuietAfterSwap DEF Reload, PidofCheck, PingCheck, OrUndo, Goto, filesVars, runVars

\* Once the post-check has passed, what is left concerns old snapshots and the
\* staging directory.
LEMMA TidyInv ==
    ASSUME TypeOK, TypeOK', IInv, NEW r \in Replies(conn),
           ListOld(r) \/ (\E t \in doomed : PruneOne(t, r)) \/ Clean(r)
    PROVE  IInv'
<1>1. /\ live = Installed(pre, want) /\ outcome = "none" /\ ~restored
      /\ UNCHANGED <<live, pre, want, ts, restored>>
      /\ \/ pc' \in {"clean", "prune"} /\ outcome' = outcome
         \/ pc' = "idle" /\ outcome' = "ok"
  BY DEF ListOld, PruneOne, Clean, Finish, Goto, IInv, ILive, IOutcome, Swapped, filesVars, runVars
<1>2. \A t \in Time, p \in Path : backup'[t][p] # Absent => backup'[t][p] = backup[t][p]
  <2>1. CASE ListOld(r) \/ Clean(r)
    BY <2>1 DEF ListOld, Clean, filesVars
  <2>2. ASSUME NEW t \in doomed, PruneOne(t, r)
        PROVE  \A u \in Time, p \in Path : backup'[u][p] # Absent => backup'[u][p] = backup[u][p]
    <3>1. PICK tree \in Removed(r.eff, backup[t]) : backup' = [backup EXCEPT ![t] = tree]
      BY <2>2 DEF PruneOne
    <3>2. t \in Time /\ backup[t] \in Tree /\ r \in Reply
      BY ReplyFacts DEF TypeOK
    <3>3. \A p \in Path : tree[p] # Absent => tree[p] = backup[t][p]
      BY <3>2, RemovedTree
    <3>. QED
      BY <3>1, <3>2, <3>3 DEF TypeOK
  <2>. QED
    BY <2>1, <2>2
<1>3. IKept'
  BY <1>1, <1>2 DEF IInv, IKept
<1>4. ILoop' /\ IStaged' /\ ISnapshot'
  BY <1>1 DEF ILoop, IStaged, ISnapshot, Guarded
<1>5. ILive'
  BY <1>1 DEF ILive, BeforeSwap, Swapped
<1>6. IOutcome' /\ Recoverable' /\ OutcomeTruthful'
  BY <1>1 DEF IOutcome, Recoverable, OutcomeTruthful
<1>. QED
  BY <1>3, <1>4, <1>5, <1>6 DEF IInv

\* A restore brings files of the snapshot back one by one, and tears at most the
\* one it stops at.
LEMMA RestoreInv ==
    ASSUME TypeOK, TypeOK', IInv, NEW r \in Replies(conn), RestoreOne(r)
    PROVE  IInv'
<1>. DEFINE p == Managed[k]
            c == Copied(r.eff, backup[ts][p], live[p])
<1>1. r \in Reply /\ (~r.err => r.eff = "all") /\ Managed \in Seq(Path) /\ k \in 1..Len(Managed)
  BY ManagedPaths, ReplyFacts DEF TypeOK, RestoreOne, IInv, ILoop
<1>2. First(Managed, k) = First(Managed, k - 1) \cup {p} /\ p \in Path
      /\ First(Managed, k) \subseteq Path
  BY <1>1, FirstStep
<1>3. /\ live[p] \in Slot /\ pre[p] \in Slot /\ ts \in snaps /\ backup[ts] = pre
      /\ Mixed(live, pre, want) /\ outcome = "none" /\ ~restored
  BY <1>2 DEF TypeOK, Tree, RestoreOne, IInv, ILive, ISnapshot, IOutcome, Guarded
<1>4. /\ c \in {pre[p], live[p], Torn} /\ (live[p] # Absent => c # Absent)
      /\ (pre[p] = Absent => c = live[p]) /\ (~r.err /\ pre[p] # Absent => c = pre[p])
  <2>. DEFINE src == pre[p]
              dst == live[p]
  <2>1. src \in Slot /\ dst \in Slot /\ c = Copied(r.eff, src, dst)
    BY <1>3
  <2>. HIDE DEF src, dst, c
  <2>2. /\ c \in {src, dst, Torn}
        /\ dst # Absent => c # Absent
        /\ src = Absent => c = dst
        /\ r.eff = "all" /\ src # Absent => c = src
    BY ONLY <1>1, <2>1, CopiedSlot
  <2>. QED
    BY <1>1, <2>2 DEF src, dst
<1>5. \A q \in Path : live'[q] = IF q = p THEN c ELSE live[q]
  <2>1. live' = [live EXCEPT ![p] = c] /\ live \in [Path -> Slot]
    BY DEF RestoreOne, TypeOK, Tree
  <2>. HIDE DEF p, c
  <2>. QED
    BY <1>2, <2>1
<1>6. UNCHANGED <<staging, backup, snaps, ts, want, pre, outcome>>
  BY DEF RestoreOne, runVars
<1>7. IKept'
  <2>. HIDE DEF p, c
  <2>. QED
    BY <1>4, <1>5, <1>6 DEF IInv, IKept
<1>8. Mixed(live', pre, want)
  <2>. HIDE DEF p, c
  <2>. QED
    BY <1>3, <1>4, <1>5 DEF Mixed
<1>9. ~r.err => \A q \in First(Managed, k) : pre[q] # Absent => live'[q] = pre[q]
  <2>1. \A q \in First(Managed, k - 1) : pre[q] # Absent => live[q] = pre[q]
    BY DEF RestoreOne, IInv, ILive
  <2>. HIDE DEF p, c
  <2>. QED
    BY <1>2, <1>4, <1>5, <2>1
<1>10. ILive' /\ ILoop' /\ IOutcome'
  <2>1. CASE r.err
    <3>1. pc' = "rereload" /\ ~restored'
      BY <2>1 DEF RestoreOne, Goto
    <3>. QED
      BY <1>3, <1>6, <1>8, <3>1 DEF ILive, ILoop, IOutcome, BeforeSwap, Swapped
  <2>2. CASE ~r.err /\ k < Len(Managed)
    <3>1. pc' = "restore" /\ k' = k + 1 /\ k' - 1 = k
      BY <1>1, <2>2 DEF RestoreOne, Advance
    <3>2. ~restored'
      <4>1. k # Len(Managed)
        BY <1>1, <2>2
      <4>. QED
        BY <4>1 DEF RestoreOne
    <3>. QED
      BY <1>1, <1>3, <1>6, <1>8, <1>9, <2>2, <3>1, <3>2 DEF ILive, ILoop, IOutcome, BeforeSwap, Swapped
  <2>3. CASE ~r.err /\ k = Len(Managed)
    <3>1. pc' = "rereload"
      BY <1>1, <2>3 DEF RestoreOne, Advance, Goto
    <3>2. \A q \in Path : pre[q] # Absent => live'[q] = pre[q]
      BY <1>9, <2>3, PathsAssumption
    <3>3. Undone(live', pre, want)
      BY <1>8, <3>2 DEF Mixed, Undone
    <3>. QED
      BY <1>3, <1>6, <1>8, <3>1, <3>3 DEF ILive, ILoop, IOutcome, BeforeSwap, Swapped
  <2>. QED
    BY <1>1, <2>1, <2>2, <2>3
<1>11. pc' \in {"restore", "rereload"}
  BY DEF RestoreOne, Advance, Goto
<1>12. IStaged' /\ ISnapshot'
  BY <1>3, <1>6, <1>11 DEF IStaged, ISnapshot
<1>13. Recoverable' /\ OutcomeTruthful'
  BY <1>3, <1>6 DEF Recoverable, OutcomeTruthful
<1>. QED
  BY <1>7, <1>10, <1>12, <1>13 DEF IInv

LEMMA RereloadInv ==
    ASSUME TypeOK, IInv, NEW r \in Replies(conn), Rereload(r)
    PROVE  IInv'
<1>1. /\ pc' = "idle" /\ outcome' = "rolledback"
      /\ UNCHANGED <<live, backup, snaps, staging, ts, want, pre, restored>>
      /\ ts \in snaps /\ backup[ts] = pre /\ (restored => Undone(live, pre, want))
  BY DEF Rereload, Finish, Goto, filesVars, runVars, IInv, ILive, ISnapshot, Guarded
<1>2. IKept'
  BY <1>1 DEF IInv, IKept
<1>3. ILoop' /\ IStaged' /\ ILive' /\ ISnapshot'
  BY <1>1 DEF ILoop, IStaged, ILive, ISnapshot, BeforeSwap, Swapped, Guarded
<1>4. IOutcome' /\ Recoverable' /\ OutcomeTruthful'
  BY <1>1 DEF IOutcome, Recoverable, OutcomeTruthful
<1>. QED
  BY <1>2, <1>3, <1>4 DEF IInv

\* Wherever the workstation dies, the old files or the new ones are live, or the
\* old ones are in the snapshot.
LEMMA DieInv == ASSUME TypeOK, IInv, Die PROVE IInv'
<1>1. /\ pc' = "idle" /\ outcome' = "died"
      /\ UNCHANGED <<live, backup, snaps, staging, ts, want, pre, restored>>
  BY DEF Die, Finish, Goto, filesVars, runVars
<1>2. pc \in BeforeSwap \cup Swapped \cup Guarded
  BY DEF Die, TypeOK, Stages, BeforeSwap, Swapped, Guarded
<1>3. live = pre \/ live = Installed(pre, want) \/ (ts \in snaps /\ backup[ts] = pre)
  BY <1>2 DEF IInv, ILive, ISnapshot
<1>4. IKept'
  BY <1>1 DEF IInv, IKept
<1>5. ILoop' /\ IStaged' /\ ILive' /\ ISnapshot'
  BY <1>1 DEF ILoop, IStaged, ILive, ISnapshot, BeforeSwap, Swapped, Guarded
<1>6. IOutcome' /\ Recoverable' /\ OutcomeTruthful'
  BY <1>1, <1>3 DEF IOutcome, Recoverable, OutcomeTruthful
<1>. QED
  BY <1>4, <1>5, <1>6 DEF IInv

LEMMA ClientInv == ASSUME TypeOK, TypeOK', IInv, Client PROVE IInv'
BY UploadInv, CheckInv, MkBackupInv, SnapshotInv, SwapInv, PostInv, TidyInv, RestoreInv,
   RereloadInv DEF Client

LEMMA StutterInv == ASSUME IInv, UNCHANGED vars PROVE IInv'
BY DEF vars, IInv, IKept, ILoop, IStaged, ILive, ISnapshot, IOutcome, Recoverable, OutcomeTruthful

-----------------------------------------------------------------------------
(* What apply.Run guarantees *)

LEMMA StepInv == TypeOK /\ IInv /\ [Next]_vars => TypeOK' /\ IInv'
<1>1. TypeOK /\ IInv /\ [Next]_vars => TypeOK'
  BY StepType DEF IInv
<1>. QED
  BY <1>1, StartInv, ClientInv, DieInv, StutterInv DEF Next, IInv

\* The inductive invariant (IInv) holds for all paths, configs and timestamps,
\* for any clock, and wherever a remote call fails.
THEOREM Inductive == Spec => [](TypeOK /\ IInv)
<1>1. Init => TypeOK /\ IInv
  BY InitType, InitInv
<1>. QED
  BY <1>1, StepInv, PTL DEF Spec

\* Whatever a run overwrote is in its snapshot until the post-check has passed,
\* after a failed restore, and after the workstation died (Recoverable).
THEOREM RecoverableAlways == Spec => []Recoverable
<1>1. IInv => Recoverable
  BY DEF IInv
<1>. QED
  BY <1>1, Inductive, PTL

\* What Run returns is true of the managed files (OutcomeTruthful).
THEOREM OutcomeTruthfulAlways == Spec => []OutcomeTruthful
<1>1. IInv => OutcomeTruthful
  BY DEF IInv
<1>. QED
  BY <1>1, Inductive, PTL

-----------------------------------------------------------------------------
(* A run is one step to who looks between runs *)

\* AtomicRouter's operators on trees are Router's.
LEMMA SameOperators ==
    /\ Atomic!Tree = Tree
    /\ \A tree, v : Atomic!Installed(tree, v) = Installed(tree, v)
    /\ \A t, tree, v : Atomic!Undone(t, tree, v) <=> Undone(t, tree, v)
    /\ \A t, tree, v : Atomic!Mixed(t, tree, v) <=> Mixed(t, tree, v)
<1>1. Atomic!Tree = Tree
  BY DEF Atomic!Tree, Tree, Atomic!Slot, Slot, Atomic!Content, Content
<1>2. \A v : Atomic!FilesOf(v) = FilesOf(v)
  BY DEF Atomic!FilesOf, FilesOf, Atomic!First, First
<1>3. \A tree, v : Atomic!Installed(tree, v) = Installed(tree, v)
  BY <1>2 DEF Atomic!Installed, Installed, Atomic!Overlay, Overlay
<1>4. \A t, tree, v : Atomic!Undone(t, tree, v) <=> Undone(t, tree, v)
  BY <1>2 DEF Atomic!Undone, Undone
<1>5. \A t, tree, v : Atomic!Mixed(t, tree, v) <=> Mixed(t, tree, v)
  BY <1>2 DEF Atomic!Mixed, Mixed
<1>. QED
  BY <1>1, <1>3, <1>4, <1>5

LEMMA InitAtomic == TypeOK /\ Init => Atomic!AInit
BY SameOperators DEF Init, TypeOK, Atomic!AInit, RouterView

\* A step inside a run is no step of AtomicRouter.
LEMMA InsideRun ==
    ASSUME pc # "idle", pc' # "idle", UNCHANGED pre, UNCHANGED outcome
    PROVE  UNCHANGED Atomic!avars
BY DEF Atomic!avars, RouterView

LEMMA BeginStep ==
    ASSUME NEW v \in Version, NEW t \in Time, Start(v, t)
    PROVE  Atomic!Begin
<1>1. pc = "idle" /\ pc' = "probe" /\ pre' = live /\ outcome' = "none" /\ ~restored'
  BY DEF Start, Goto
<1>. QED
  BY <1>1 DEF Atomic!Begin, RouterView

\* The last step of a run is a step of AtomicRouter.
LEMMA EndStep ==
    ASSUME TypeOK, TypeOK', IInv, IInv', pc # "idle", pc' = "idle", UNCHANGED <<pre, want>>,
           \/ outcome' = "failed" /\ ~restored'
           \/ outcome' = "ok" /\ ~restored'
           \/ outcome' = "rolledback" /\ Mixed(live', pre, want)
           \/ outcome' = "died" /\ Mixed(live', pre, want) /\ (restored' => Undone(live', pre, want))
    PROVE  Atomic!ANext
<1>1. RouterView = pre /\ RouterView' = live' /\ live' \in Atomic!Tree /\ want \in Version
  BY SameOperators DEF RouterView, TypeOK
<1>t. OutcomeTruthful'
  BY DEF IInv
<1>2. CASE outcome' = "failed" /\ ~restored'
  <2>1. live' = pre
    BY <1>t, <1>2 DEF OutcomeTruthful
  <2>. QED
    BY <1>1, <1>2, <2>1 DEF Atomic!ANext, Atomic!Abort
<1>3. CASE outcome' = "ok" /\ ~restored'
  <2>1. live' = Atomic!Installed(pre, want)
    BY <1>t, <1>3, SameOperators DEF OutcomeTruthful
  <2>2. Atomic!Commit(want)
    BY <1>1, <1>3, <2>1 DEF Atomic!Commit
  <2>. QED
    BY <1>1, <2>2 DEF Atomic!ANext
<1>4. CASE outcome' = "rolledback" /\ Mixed(live', pre, want)
  <2>1. CASE restored'
    <3>1. Atomic!Undone(live', pre, want)
      BY <1>t, <1>4, <2>1, SameOperators DEF OutcomeTruthful
    <3>2. Atomic!RollBack(want)
      BY <1>1, <1>4, <2>1, <3>1 DEF Atomic!RollBack
    <3>. QED
      BY <1>1, <3>2 DEF Atomic!ANext
  <2>2. CASE ~restored'
    <3>1. Atomic!Mixed(live', pre, want)
      BY <1>4, SameOperators
    <3>2. Atomic!Wreck(want)
      BY <1>1, <1>4, <2>2, <3>1 DEF Atomic!Wreck
    <3>. QED
      BY <1>1, <3>2 DEF Atomic!ANext
  <2>. QED
    BY <2>1, <2>2
<1>5. CASE outcome' = "died" /\ Mixed(live', pre, want) /\ (restored' => Undone(live', pre, want))
  <2>1. CASE restored'
    <3>1. Atomic!Undone(live', pre, want)
      BY <1>5, <2>1, SameOperators
    <3>2. Atomic!RollBack(want)
      BY <1>1, <1>5, <2>1, <3>1 DEF Atomic!RollBack
    <3>. QED
      BY <1>1, <3>2 DEF Atomic!ANext
  <2>2. CASE ~restored'
    <3>1. Atomic!Mixed(live', pre, want)
      BY <1>5, SameOperators
    <3>2. Atomic!Wreck(want)
      BY <1>1, <1>5, <2>2, <3>1 DEF Atomic!Wreck
    <3>. QED
      BY <1>1, <3>2 DEF Atomic!ANext
  <2>. QED
    BY <2>1, <2>2
<1>. QED
  BY <1>2, <1>3, <1>4, <1>5

\* While a run is under way the files are a mix of the old ones, the new ones
\* and at most torn copies.
LEMMA MixedInRun == ASSUME TypeOK, IInv, pc # "idle" PROVE Mixed(live, pre, want)
<1>1. CASE pc \in BeforeSwap
  BY <1>1 DEF IInv, ILive, Mixed
<1>2. CASE pc = "swap"
  <2>1. live = Overlay(pre, First(Rendered[want], k - 1), want)
    BY <1>2 DEF IInv, ILive
  <2>2. First(Rendered[want], k - 1) \subseteq FilesOf(want)
    BY <1>2, RenderedPaths DEF IInv, ILoop, TypeOK, First, FilesOf
  <2>. QED
    BY <2>1, <2>2 DEF Overlay, Mixed
<1>3. CASE pc \in Swapped
  BY <1>3 DEF IInv, ILive, Installed, Overlay, Mixed
<1>4. CASE pc \in {"restore", "rereload"}
  BY <1>4 DEF IInv, ILive
<1>. QED
  BY <1>1, <1>2, <1>3, <1>4 DEF TypeOK, Stages, BeforeSwap, Swapped

LEMMA DieStep ==
    ASSUME TypeOK, TypeOK', IInv, IInv', Die
    PROVE  Atomic!ANext
<1>1. /\ pc # "idle" /\ pc' = "idle" /\ outcome' = "died"
      /\ UNCHANGED <<live, pre, want, restored>>
  BY DEF Die, Finish, Goto, filesVars, runVars
<1>2. restored => Undone(live, pre, want)
  BY <1>1 DEF IInv, IOutcome, ILive
<1>. QED
  BY <1>1, <1>2, MixedInRun, EndStep

LEMMA ClientStep ==
    ASSUME TypeOK, TypeOK', IInv, IInv', Client
    PROVE  Atomic!ANext \/ UNCHANGED Atomic!avars
<1>. PICK r \in Replies(conn) :
         \/ Probe(r) \/ EnsurePackages(r) \/ UploadOne(r)
         \/ ValidateUci(r) \/ ValidateXray(r)
         \/ MkBackup(r) \/ SnapshotOne(r) \/ SwapOne(r)
         \/ Reload(r) \/ PidofCheck(r) \/ PingCheck(r)
         \/ ListOld(r) \/ (\E t \in doomed : PruneOne(t, r)) \/ Clean(r)
         \/ RestoreOne(r) \/ Rereload(r)
  BY DEF Client
<1>1. CASE \/ Probe(r) \/ UploadOne(r) \/ ValidateUci(r) \/ ValidateXray(r)
           \/ MkBackup(r) \/ SnapshotOne(r)
  <2>1. /\ pc # "idle" /\ UNCHANGED <<pre, want, restored>>
        /\ \/ pc' # "idle" /\ UNCHANGED outcome
           \/ pc' = "idle" /\ outcome' = "failed"
    BY <1>1 DEF Probe, UploadOne, ValidateUci, ValidateXray, MkBackup, SnapshotOne, OrFail,
       Finish, Advance, Goto, runVars
  <2>2. ~restored
    BY <1>1 DEF Probe, UploadOne, ValidateUci, ValidateXray, MkBackup, SnapshotOne, IInv, IOutcome
  <2>. QED
    BY <2>1, <2>2, InsideRun, EndStep
<1>2. CASE \/ EnsurePackages(r) \/ SwapOne(r) \/ Reload(r) \/ PidofCheck(r) \/ PingCheck(r)
           \/ ListOld(r) \/ (\E t \in doomed : PruneOne(t, r)) \/ RestoreOne(r)
  <2>1. pc # "idle" /\ pc' # "idle" /\ UNCHANGED <<pre, outcome>>
    BY <1>2 DEF EnsurePackages, SwapOne, Reload, PidofCheck, PingCheck, ListOld, PruneOne,
       RestoreOne, OrUndo, Advance, Goto, runVars
  <2>. QED
    BY <2>1, InsideRun
<1>3. CASE Clean(r)
  <2>1. pc # "idle" /\ pc' = "idle" /\ outcome' = "ok" /\ UNCHANGED <<pre, want, restored>>
    BY <1>3 DEF Clean, Finish, Goto, runVars
  <2>2. ~restored
    BY <1>3 DEF Clean, IInv, IOutcome
  <2>. QED
    BY <2>1, <2>2, EndStep
<1>4. CASE Rereload(r)
  <2>1. /\ pc # "idle" /\ pc' = "idle" /\ outcome' = "rolledback"
        /\ UNCHANGED <<live, pre, want>>
    BY <1>4 DEF Rereload, Finish, Goto, filesVars, runVars
  <2>2. Mixed(live', pre, want)
    BY <2>1, MixedInRun
  <2>. QED
    BY <2>1, <2>2, EndStep
<1>. QED
  BY <1>1, <1>2, <1>3, <1>4

\* apply.Run implements AtomicRouter (ImplementsAtomic): to who looks at the
\* router between runs, it installs a config, changes nothing, is undone up to
\* the files it created, or leaves a mix it does not call restored.
THEOREM AtomicToObservers == Spec => ImplementsAtomic
<1>1. Init => Atomic!AInit
  BY InitType, InitAtomic
<1>2. /\ TypeOK /\ TypeOK' /\ IInv /\ IInv' /\ [Next]_vars
      => Atomic!ANext \/ UNCHANGED Atomic!avars
  <2>1. ASSUME UNCHANGED vars PROVE UNCHANGED Atomic!avars
    BY <2>1 DEF vars, Atomic!avars, RouterView
  <2>2. ASSUME NEW v \in Version, NEW t \in Time, Start(v, t) PROVE Atomic!ANext
    BY <2>2, BeginStep DEF Atomic!ANext
  <2>. QED
    BY <2>1, <2>2, ClientStep, DieStep DEF Next
<1>3. /\ TypeOK /\ TypeOK' /\ IInv /\ IInv' /\ [Next]_vars
      => [Atomic!ANext]_(Atomic!avars)
  BY <1>2
<1>. QED
  BY <1>1, <1>3, Inductive, PTL DEF Spec, ImplementsAtomic, Atomic!ASpec

-----------------------------------------------------------------------------
(* Validation *)

Vetted == UciPath \cup {XrayPath}

LEMMA VettedPaths == Vetted \subseteq Path
BY PathsAssumption DEF Vetted

LEMMA InitVet == Init => VetInv
<1>. SUFFICES ASSUME Init PROVE VetInv
  OBVIOUS
<1>1. \A p \in Path : live[p] \notin Version
  BY ContentAssumption DEF Init, Overlay
<1>2. \A t \in Time, p \in Path : backup[t][p] \notin Version
  BY ContentAssumption DEF Init, EmptyTree
<1>. QED
  BY <1>1, <1>2, VettedPaths DEF Init, VetInv, OnlyVetted, Vetted

\* Steps that change neither live files nor snapshots, and keep the staged files
\* once they are validated.
LEMMA QuietVet ==
    ASSUME VetInv, UNCHANGED <<live, backup>>,
           \/ pc' \notin {"xraytest", "mkbackup", "snapshot", "swap"}
           \/ /\ UNCHANGED <<staging, ts>>
              /\ UciAccepts(staging[ts])
              /\ pc' \in {"mkbackup", "snapshot", "swap"} => XrayAccepts(staging[ts])
    PROVE  VetInv'
BY DEF VetInv, OnlyVetted

LEMMA CopyVet ==
    ASSUME NEW r \in Reply, NEW p \in Path, NEW src \in Slot, NEW dst \in Slot,
           src \in Version => Passes(p, src), dst \in Version => Passes(p, dst)
    PROVE  Copied(r.eff, src, dst) \in Version => Passes(p, Copied(r.eff, src, dst))
<1>1. Copied(r.eff, src, dst) \in {src, dst, Torn}
  BY CopiedSlot
<1>2. Torn \notin Version
  BY ContentAssumption
<1>. QED
  BY <1>1, <1>2

LEMMA StepVet ==
    ASSUME TypeOK, ILoop, VetInv, [Next]_vars
    PROVE  VetInv'
<1>1. ASSUME NEW v \in Version, NEW t \in Time, Start(v, t) PROVE VetInv'
  BY <1>1, QuietVet DEF Start, Goto, filesVars
<1>2. CASE Client
  <2>. PICK r \in Replies(conn) :
           \/ Probe(r) \/ EnsurePackages(r) \/ UploadOne(r)
           \/ ValidateUci(r) \/ ValidateXray(r)
           \/ MkBackup(r) \/ SnapshotOne(r) \/ SwapOne(r)
           \/ Reload(r) \/ PidofCheck(r) \/ PingCheck(r)
           \/ ListOld(r) \/ (\E t \in doomed : PruneOne(t, r)) \/ Clean(r)
           \/ RestoreOne(r) \/ Rereload(r)
    BY <1>2 DEF Client
  <2>r. r \in Reply
    BY ReplyFacts DEF TypeOK
  <2>1. CASE Probe(r) \/ EnsurePackages(r) \/ UploadOne(r)
    BY <2>1, QuietVet DEF Probe, EnsurePackages, UploadOne, OrFail, Finish, Advance, Goto, filesVars
  <2>2. CASE ValidateUci(r)
    BY <2>2, QuietVet DEF ValidateUci, OrFail, Finish, Goto, filesVars, runVars
  <2>3. CASE ValidateXray(r)
    <3>1. UciAccepts(staging[ts])
      BY <2>3 DEF ValidateXray, VetInv
    <3>. QED
      BY <2>3, <3>1, QuietVet DEF ValidateXray, OrFail, Finish, Goto, filesVars, runVars
  <2>4. CASE MkBackup(r)
    <3>1. UciAccepts(staging[ts]) /\ XrayAccepts(staging[ts])
      BY <2>4 DEF MkBackup, VetInv
    <3>. QED
      BY <2>4, <3>1, QuietVet DEF MkBackup, runVars
  <2>5. CASE SnapshotOne(r)
    <3>. DEFINE p == Managed[k]
                src == live[p]
                dst == backup[ts][p]
                c == Copied(r.eff, src, dst)
    <3>1. p \in Path /\ ts \in Time
      BY <2>5, ManagedPaths DEF SnapshotOne, ILoop, TypeOK
    <3>2. src \in Slot /\ dst \in Slot
      BY <3>1 DEF TypeOK, Tree
    <3>3. UciAccepts(staging[ts]) /\ XrayAccepts(staging[ts]) /\ UNCHANGED <<live, staging, ts>>
      BY <2>5 DEF SnapshotOne, VetInv, runVars
    <3>4. p \in Vetted => (c \in Version => Passes(p, c))
      <4>1. ASSUME p \in Vetted
            PROVE  (src \in Version => Passes(p, src)) /\ (dst \in Version => Passes(p, dst))
        BY <3>1, <4>1 DEF VetInv, OnlyVetted, Vetted
      <4>. HIDE DEF p, src, dst
      <4>. QED
        BY <2>r, <3>1, <3>2, <4>1, CopyVet
    <3>5. \A t \in Time, q \in Path : backup'[t][q] = IF t = ts /\ q = p THEN c ELSE backup[t][q]
      BY <2>5, <3>1 DEF SnapshotOne, TypeOK, Tree
    <3>6. \A t \in Time, q \in Vetted : backup'[t][q] \in Version => Passes(q, backup'[t][q])
      <4>. HIDE DEF p, c
      <4>. QED
        BY <3>4, <3>5, VettedPaths DEF VetInv, Vetted
    <3>. QED
      BY <3>3, <3>6 DEF VetInv, OnlyVetted, Vetted
  <2>6. CASE SwapOne(r)
    <3>. DEFINE p == Rendered[want][k]
                src == staging[ts][p]
                dst == live[p]
                c == Copied(r.eff, src, dst)
    <3>1. p \in Path /\ ts \in Time
      BY <2>6, RenderedPaths DEF SwapOne, ILoop, TypeOK
    <3>2. src \in Slot /\ dst \in Slot
      BY <3>1 DEF TypeOK, Tree
    <3>3. UciAccepts(staging[ts]) /\ XrayAccepts(staging[ts]) /\ UNCHANGED <<backup, staging, ts>>
      BY <2>6 DEF SwapOne, VetInv, runVars
    <3>4. p \in Vetted => (c \in Version => Passes(p, c))
      <4>1. ASSUME p \in Vetted
            PROVE  (src \in Version => Passes(p, src)) /\ (dst \in Version => Passes(p, dst))
        BY <3>3, <4>1 DEF VetInv, OnlyVetted, Vetted, UciAccepts, XrayAccepts
      <4>. HIDE DEF p, src, dst
      <4>. QED
        BY <2>r, <3>1, <3>2, <4>1, CopyVet
    <3>5. \A q \in Path : live'[q] = IF q = p THEN c ELSE live[q]
      BY <2>6, <3>1 DEF SwapOne, TypeOK, Tree
    <3>6. OnlyVetted'
      <4>. HIDE DEF p, c
      <4>. QED
        BY <3>4, <3>5, VettedPaths DEF VetInv, OnlyVetted, Vetted
    <3>. QED
      BY <3>3, <3>6 DEF VetInv
  <2>7. CASE Reload(r) \/ PidofCheck(r) \/ PingCheck(r) \/ ListOld(r) \/ Clean(r) \/ Rereload(r)
    BY <2>7, QuietVet DEF Reload, PidofCheck, PingCheck, ListOld, Clean, Rereload, OrUndo,
       Finish, Goto, filesVars
  <2>8. ASSUME NEW t \in doomed, PruneOne(t, r) PROVE VetInv'
    <3>1. PICK tree \in Removed(r.eff, backup[t]) : backup' = [backup EXCEPT ![t] = tree]
      BY <2>8 DEF PruneOne
    <3>2. t \in Time /\ backup[t] \in Tree
      BY DEF TypeOK
    <3>3. \A p \in Path : tree[p] # Absent => tree[p] = backup[t][p]
      BY <2>r, <3>2, RemovedTree
    <3>4. \A u \in Time, p \in Vetted : backup'[u][p] \in Version => Passes(p, backup'[u][p])
      BY <3>1, <3>2, <3>3, VettedPaths, ContentAssumption DEF TypeOK, VetInv, Vetted
    <3>. QED
      BY <2>8, <3>4 DEF PruneOne, Goto, VetInv, OnlyVetted, Vetted
  <2>9. CASE RestoreOne(r)
    <3>. DEFINE p == Managed[k]
                src == backup[ts][p]
                dst == live[p]
                c == Copied(r.eff, src, dst)
    <3>1. p \in Path /\ ts \in Time
      BY <2>9, ManagedPaths DEF RestoreOne, ILoop, TypeOK
    <3>2. src \in Slot /\ dst \in Slot
      BY <3>1 DEF TypeOK, Tree
    <3>3. pc' \in {"restore", "rereload"} /\ UNCHANGED backup
      BY <2>9 DEF RestoreOne, Advance, Goto
    <3>4. p \in Vetted => (c \in Version => Passes(p, c))
      <4>1. ASSUME p \in Vetted
            PROVE  (src \in Version => Passes(p, src)) /\ (dst \in Version => Passes(p, dst))
        BY <3>1, <4>1 DEF VetInv, OnlyVetted, Vetted
      <4>. HIDE DEF p, src, dst
      <4>. QED
        BY <2>r, <3>1, <3>2, <4>1, CopyVet
    <3>5. \A q \in Path : live'[q] = IF q = p THEN c ELSE live[q]
      BY <2>9, <3>1 DEF RestoreOne, TypeOK, Tree
    <3>6. OnlyVetted'
      <4>. HIDE DEF p, c
      <4>. QED
        BY <3>4, <3>5, VettedPaths DEF VetInv, OnlyVetted, Vetted
    <3>. QED
      BY <3>3, <3>6 DEF VetInv
  <2>. QED
    BY <2>1, <2>2, <2>3, <2>4, <2>5, <2>6, <2>7, <2>8, <2>9
<1>3. CASE Die
  BY <1>3, QuietVet DEF Die, Finish, Goto, filesVars
<1>4. CASE UNCHANGED vars
  BY <1>4 DEF vars, VetInv, OnlyVetted
<1>. QED
  BY <1>1, <1>2, <1>3, <1>4 DEF Next

\* A run writes to the staging directory of its own second only.
LEMMA OwnStaging ==
    ASSUME TypeOK, [Next]_vars, NEW t \in Time, t # ts'
    PROVE  staging'[t] = staging[t]
<1>1. ASSUME NEW r \in Replies(conn), UploadOne(r) \/ Clean(r) PROVE staging'[t] = staging[t]
  BY <1>1 DEF UploadOne, Clean, runVars, TypeOK
<1>2. ASSUME UNCHANGED staging PROVE staging'[t] = staging[t]
  BY <1>2
<1>3. CASE Client
  BY <1>1, <1>2, <1>3 DEF Client, Probe, EnsurePackages, ValidateUci, ValidateXray, MkBackup, SnapshotOne,
     SwapOne, Reload, PidofCheck, PingCheck, ListOld, PruneOne, RestoreOne, Rereload, filesVars
<1>. QED
  BY <1>2, <1>3 DEF Next, Start, Die, filesVars, vars

\* A run begins with a start; its second and the number of runs change then only.
LEMMA StartCounts ==
    ASSUME [Next]_vars
    PROVE  \/ \E v \in Version, t \in Time : Start(v, t)
           \/ /\ UNCHANGED <<ts, runs>> /\ (pc' # "idle" => pc # "idle")
              /\ pc = "idle" => UNCHANGED vars
<1>1. ASSUME Client PROVE UNCHANGED <<ts, runs>> /\ pc # "idle"
  BY <1>1 DEF Client, Probe, EnsurePackages, UploadOne, ValidateUci, ValidateXray, MkBackup, SnapshotOne,
     SwapOne, Reload, PidofCheck, PingCheck, ListOld, PruneOne, Clean, RestoreOne, Rereload, runVars
<1>. QED
  BY <1>1 DEF Next, Die, Finish, Goto, runVars, vars

\* Nothing that `uci show` or `xray -test` refuses is ever live (OnlyVetted), not
\* even from the staging directory of an earlier run of the same second.
THEOREM OnlyVettedAlways == Spec => []OnlyVetted
<1>1. TypeOK /\ IInv /\ VetInv /\ [Next]_vars => VetInv'
  BY StepVet DEF IInv
<1>2. VetInv => OnlyVetted
  BY DEF VetInv
<1>. QED
  BY <1>1, <1>2, InitVet, Inductive, PTL DEF Spec

-----------------------------------------------------------------------------
(* Pruning *)

\* Among more snapshots, at least as many are newer.
LEMMA NewerMonotone ==
    ASSUME NEW A, NEW B, IsFiniteSet(B), A \subseteq B
    PROVE  IsFiniteSet(A) /\ Cardinality(A) \in Nat /\ Cardinality(B) \in Nat
           /\ Cardinality(A) <= Cardinality(B)
BY FS_Subset, FS_CardinalityType

LEMMA NothingNewer ==
    ASSUME NEW set, NEW t, \A u \in set : ~(u > t)
    PROVE  t \notin Beyond(set, Keep)
<1>1. {u \in set : u > t} = {}
  OBVIOUS
<1>2. Cardinality({u \in set : u > t}) = 0
  BY <1>1, FS_EmptySet
<1>. QED
  BY <1>2, KeepAssumption DEF Beyond

LEMMA InitPrune == Init => PruneInv
BY FS_EmptySet DEF Init, PruneInv, OwnSnapshotKept

\* Steps outside the pruning add at most the run's own snapshot.
LEMMA GrowPrune ==
    ASSUME TypeOK, PruneInv, IInv', pc # "idle", doomed = {}, doomed' = {},
           snaps' \in {snaps, snaps \cup {ts}}, UNCHANGED <<ts, runs>>,
           pc' # "prune",
           MonotoneClock /\ (pc' \in {"list", "clean"} \/ outcome' = "ok")
               => ts \in snaps' /\ backup'[ts] = pre'
    PROVE  PruneInv'
<1>1. IsFiniteSet(snaps')
  BY FS_AddElement DEF PruneInv
<1>2. ts \in Nat /\ runs > 0
  BY TimeAssumption DEF TypeOK, PruneInv
<1>3. MonotoneClock => \A t \in snaps' : t <= ts'
  BY <1>2 DEF PruneInv
<1>. QED
  BY <1>1, <1>2, <1>3 DEF PruneInv, OwnSnapshotKept

LEMMA StartPrune ==
    ASSUME TypeOK, PruneInv, NEW v \in Version, NEW t \in Time, Start(v, t)
    PROVE  PruneInv'
<1>1. /\ pc' = "probe" /\ ts' = t /\ runs' = runs + 1 /\ doomed' = {} /\ outcome' = "none"
      /\ UNCHANGED snaps /\ (MonotoneClock /\ runs > 0 => t > ts)
  BY DEF Start, Goto, filesVars
<1>2. ts \in Nat /\ t \in Nat /\ runs \in Nat /\ \A u \in snaps : u \in Nat
  BY TimeAssumption DEF TypeOK
<1>3. MonotoneClock => \A u \in snaps : u <= t
  BY <1>1, <1>2 DEF PruneInv
<1>. QED
  BY <1>1, <1>2, <1>3 DEF PruneInv, OwnSnapshotKept

\* The listing dooms what has Keep newer ones; with a clock that moves forward the
\* run's own snapshot has none.
LEMMA ListPrune ==
    ASSUME TypeOK, IInv, IInv', PruneInv, NEW r \in Replies(conn), ListOld(r)
    PROVE  PruneInv'
<1>1. /\ pc = "list" /\ pc' \in {"clean", "prune"} /\ (doomed' # {} => pc' = "prune")
      /\ doomed' \in {{}, Beyond(snaps, Keep)}
      /\ UNCHANGED <<snaps, backup, ts, runs, pre, outcome>>
  BY DEF ListOld, Goto, filesVars, runVars
<1>2. doomed' \subseteq snaps /\ \A t \in doomed' : Cardinality({u \in snaps : u > t}) >= Keep
  BY <1>1 DEF Beyond
<1>3. ts \in Nat /\ \A u \in snaps : u \in Nat
  BY TimeAssumption DEF TypeOK
<1>4. MonotoneClock => ts \notin doomed'
  <2>. SUFFICES ASSUME MonotoneClock PROVE ts \notin doomed'
    OBVIOUS
  <2>1. \A u \in snaps : ~(u > ts)
    BY <1>3 DEF PruneInv
  <2>. QED
    BY <1>1, <2>1, NothingNewer
<1>5. outcome' = "none"
  BY <1>1 DEF IInv, IOutcome
<1>. QED
  BY <1>1, <1>2, <1>4, <1>5 DEF PruneInv, OwnSnapshotKept

\* What is removed is the newest of the doomed, so that all newer ones stay.
LEMMA PrunePrune ==
    ASSUME TypeOK, IInv, PruneInv, NEW r \in Replies(conn), NEW m \in doomed, PruneOne(m, r)
    PROVE  /\ PruneInv'
           /\ \A u \in snaps : u > m => u \in snaps'
           /\ \A t \in Time : t # m => backup'[t] = backup[t]
<1>1. /\ pc = "prune" /\ pc' \in {"clean", "prune"} /\ (doomed' # {} => pc' = "prune")
      /\ doomed' \in {{}, doomed \ {m}} /\ snaps' \in {snaps, snaps \ {m}}
      /\ UNCHANGED <<ts, runs, pre, outcome>> /\ \A u \in doomed : u <= m
  BY DEF PruneOne, StillDoomed, Goto, runVars
<1>2. m \in Nat /\ ts \in Nat /\ \A u \in snaps : u \in Nat
  BY TimeAssumption DEF TypeOK
<1>3. PICK tree : backup' = [backup EXCEPT ![m] = tree]
  BY DEF PruneOne
<1>4. \A t \in Time : t # m => backup'[t] = backup[t]
  BY <1>3 DEF TypeOK
<1>5. \A u \in snaps : u > m => u \in snaps'
  BY <1>1, <1>2
<1>6. IsFiniteSet(snaps')
  BY <1>1, FS_RemoveElement DEF PruneInv
<1>7. doomed' \subseteq snaps'
  BY <1>1 DEF PruneInv
<1>8. ASSUME NEW t \in doomed' PROVE Cardinality({u \in snaps' : u > t}) >= Keep
  <2>. DEFINE A == {u \in snaps : u > m}
              B == {u \in snaps' : u > t}
  <2>1. t \in doomed /\ t < m /\ t \in Nat
    <3>1. t \in doomed /\ t # m /\ t <= m /\ t \in Nat
      BY <1>1, <1>2 DEF PruneInv
    <3>. QED
      BY <1>2, <3>1
  <2>2. A \subseteq B
    BY <1>2, <1>5, <2>1
  <2>3. IsFiniteSet(B)
    BY <1>6, FS_Subset
  <2>4. Cardinality(A) >= Keep
    BY DEF PruneInv
  <2>. HIDE DEF A, B
  <2>5. Cardinality(A) <= Cardinality(B) /\ Cardinality(A) \in Nat /\ Cardinality(B) \in Nat
    BY <2>2, <2>3, NewerMonotone
  <2>6. Cardinality(B) >= Keep
    BY <2>4, <2>5, KeepAssumption
  <2>. QED
    BY <2>6 DEF B
<1>9. outcome' = "none"
  BY <1>1 DEF IInv, IOutcome
<1>10. MonotoneClock => /\ \A t \in snaps' : t <= ts'
                       /\ ts' \in snaps' /\ ts' \notin doomed' /\ backup'[ts'] = pre'
  <2>1. MonotoneClock => ts \in snaps /\ ts \notin doomed /\ backup[ts] = pre /\ \A t \in snaps : t <= ts
    BY <1>1 DEF PruneInv
  <2>2. ts \in Time
    BY DEF TypeOK
  <2>. QED
    BY <1>1, <1>4, <2>1, <2>2
<1>11. PruneInv'
  BY <1>1, <1>6, <1>7, <1>8, <1>9, <1>10 DEF PruneInv, OwnSnapshotKept
<1>. QED
  BY <1>4, <1>5, <1>11

LEMMA ClientPrune ==
    ASSUME TypeOK, IInv, IInv', PruneInv, Client
    PROVE  PruneInv'
<1>. PICK r \in Replies(conn) :
         \/ Probe(r) \/ EnsurePackages(r) \/ UploadOne(r)
         \/ ValidateUci(r) \/ ValidateXray(r)
         \/ MkBackup(r) \/ SnapshotOne(r) \/ SwapOne(r)
         \/ Reload(r) \/ PidofCheck(r) \/ PingCheck(r)
         \/ ListOld(r) \/ (\E t \in doomed : PruneOne(t, r)) \/ Clean(r)
         \/ RestoreOne(r) \/ Rereload(r)
  BY DEF Client
<1>1. CASE \/ Probe(r) \/ EnsurePackages(r) \/ UploadOne(r)
           \/ ValidateUci(r) \/ ValidateXray(r) \/ MkBackup(r) \/ SnapshotOne(r)
  <2>1. /\ pc \notin {"idle", "prune"} /\ snaps' \in {snaps, snaps \cup {ts}}
        /\ UNCHANGED <<ts, runs, doomed>>
        /\ pc' \notin {"prune", "list", "clean"} /\ (outcome' = outcome \/ outcome' = "failed")
    BY <1>1 DEF Probe, EnsurePackages, UploadOne, ValidateUci, ValidateXray, MkBackup,
       SnapshotOne, OrFail, Finish, Advance, Goto, filesVars, runVars
  <2>2. doomed = {} /\ outcome = "none"
    BY <2>1 DEF PruneInv, IInv, IOutcome
  <2>. QED
    BY <2>1, <2>2, GrowPrune
<1>2. CASE SwapOne(r) \/ Reload(r) \/ PidofCheck(r) \/ PingCheck(r) \/ RestoreOne(r)
  <2>1. /\ pc \in Guarded /\ UNCHANGED <<snaps, backup, pre, ts, runs, doomed, outcome>>
        /\ pc' # "prune"
    BY <1>2 DEF SwapOne, Reload, PidofCheck, PingCheck, RestoreOne, OrUndo, Advance, Goto,
       filesVars, runVars, Guarded
  <2>2. doomed = {} /\ pc # "idle" /\ outcome = "none" /\ ts \in snaps /\ backup[ts] = pre
    BY <2>1 DEF PruneInv, IInv, IOutcome, ISnapshot, Guarded
  <2>. QED
    BY <2>1, <2>2, GrowPrune
<1>3. CASE ListOld(r)
  BY <1>3, ListPrune
<1>4. CASE \E t \in doomed : PruneOne(t, r)
  BY <1>4, PrunePrune
<1>5. CASE Clean(r)
  <2>1. /\ pc = "clean" /\ UNCHANGED <<snaps, backup, pre, ts, runs, doomed>>
        /\ pc' = "idle" /\ outcome' = "ok"
    BY <1>5 DEF Clean, Finish, Goto, runVars
  <2>2. doomed = {} /\ (MonotoneClock => ts \in snaps /\ backup[ts] = pre)
    BY <2>1 DEF PruneInv
  <2>. QED
    BY <2>1, <2>2, GrowPrune
<1>6. CASE Rereload(r)
  <2>1. /\ pc = "rereload" /\ UNCHANGED <<snaps, backup, pre, ts, runs, doomed>>
        /\ pc' = "idle" /\ outcome' = "rolledback"
    BY <1>6 DEF Rereload, Finish, Goto, filesVars, runVars
  <2>2. doomed = {}
    BY <2>1 DEF PruneInv
  <2>. QED
    BY <2>1, <2>2, GrowPrune
<1>. QED
  BY <1>1, <1>2, <1>3, <1>4, <1>5, <1>6

LEMMA StepPrune ==
    ASSUME TypeOK, IInv, IInv', PruneInv, [Next]_vars
    PROVE  PruneInv'
<1>1. CASE Die
  <2>1. /\ UNCHANGED <<snaps, backup, pre, ts, runs, doomed>>
        /\ pc # "idle" /\ pc' = "idle" /\ outcome' = "died"
    BY <1>1 DEF Die, Finish, Goto, filesVars, runVars
  <2>. QED
    BY <2>1 DEF PruneInv, OwnSnapshotKept, TypeOK
<1>2. CASE UNCHANGED vars
  BY <1>2 DEF vars, PruneInv, OwnSnapshotKept
<1>. QED
  BY <1>1, <1>2, StartPrune, ClientPrune DEF Next

\* With a clock that moves forward a successful run leaves its own complete
\* snapshot (OwnSnapshotKept), whatever --backup-keep is.
THEOREM OwnSnapshotKeptAlways == Spec => []OwnSnapshotKept
<1>1. TypeOK /\ IInv /\ IInv' /\ PruneInv /\ [Next]_vars => PruneInv'
  BY StepPrune
<1>2. TypeOK /\ PruneInv => OwnSnapshotKept
  BY DEF PruneInv, OwnSnapshotKept, TypeOK
<1>. QED
  BY <1>1, <1>2, InitPrune, Inductive, PTL DEF Spec

\* Only pruning takes anything out of a snapshot.
LEMMA OnlyPruneShrinks ==
    ASSUME TypeOK, ILoop, [Next]_vars, NEW t \in snaps, Shrinks(t)
    PROVE  \E r \in Replies(conn), m \in doomed : PruneOne(m, r)
<1>. SUFFICES ASSUME ~\E r \in Replies(conn), m \in doomed : PruneOne(m, r) PROVE ~Shrinks(t)
  OBVIOUS
<1>t. t \in Time
  BY DEF TypeOK
<1>1. ASSUME NEW r \in Replies(conn), SnapshotOne(r) PROVE ~Shrinks(t)
  <2>. DEFINE p == Managed[k]
              src == live[p]
              dst == backup[ts][p]
              c == Copied(r.eff, src, dst)
  <2>1. p \in Path /\ ts \in Time /\ r \in Reply
    BY <1>1, ManagedPaths, ReplyFacts DEF SnapshotOne, ILoop, TypeOK
  <2>2. dst # Absent => c # Absent
    <3>1. src \in Slot /\ dst \in Slot
      BY <2>1 DEF TypeOK, Tree
    <3>. HIDE DEF src, dst
    <3>. QED
      BY <2>1, <3>1, CopiedSlot
  <2>3. \A u \in Time, q \in Path : backup'[u][q] = IF u = ts /\ q = p THEN c ELSE backup[u][q]
    BY <1>1, <2>1 DEF SnapshotOne, TypeOK, Tree
  <2>4. t \in snaps'
    BY <1>1 DEF SnapshotOne
  <2>. HIDE DEF p, c
  <2>. QED
    BY <1>t, <2>2, <2>3, <2>4 DEF Shrinks
<1>2. ASSUME UNCHANGED backup, t \in snaps' PROVE ~Shrinks(t)
  BY <1>2 DEF Shrinks
<1>3. CASE UNCHANGED vars
  BY <1>2, <1>3 DEF vars
<1>4. CASE Die
  BY <1>2, <1>4 DEF Die, filesVars
<1>5. ASSUME NEW v \in Version, NEW u \in Time, Start(v, u) PROVE ~Shrinks(t)
  BY <1>2, <1>5 DEF Start, filesVars
<1>6. CASE Client
  BY <1>1, <1>2, <1>6 DEF Client, Probe, EnsurePackages, UploadOne, ValidateUci, ValidateXray,
     MkBackup, SwapOne, Reload, PidofCheck, PingCheck, ListOld, Clean, RestoreOne, Rereload,
     filesVars
<1>. QED
  BY <1>3, <1>4, <1>5, <1>6 DEF Next

\* A run adds its own snapshot and no other.
LEMMA OneSnapshot ==
    ASSUME [Next]_vars, NEW t \in snaps', t \notin snaps
    PROVE  pc # "idle" /\ t = ts
<1>1. ASSUME UNCHANGED snaps PROVE FALSE
  BY <1>1
<1>2. CASE Client
  BY <1>1, <1>2 DEF Client, Probe, EnsurePackages, UploadOne, ValidateUci, ValidateXray, MkBackup, SnapshotOne,
     SwapOne, Reload, PidofCheck, PingCheck, ListOld, PruneOne, Clean, RestoreOne, Rereload, filesVars
<1>. QED
  BY <1>1, <1>2 DEF Next, Start, Die, filesVars, vars

\* A step dooms only what has Keep newer snapshots, and removes at most one that is
\* doomed, whoever else takes and prunes snapshots.
LEMMA StepDooms ==
    ASSUME TypeOK, [Next]_vars, IsFiniteSet(snaps)
    PROVE  /\ IsFiniteSet(snaps')
           /\ \A t \in doomed' : t \in doomed \/ Cardinality({u \in snaps : u > t}) >= Keep
           /\ snaps \subseteq snaps' \/ \E m \in doomed : snaps' = snaps \ {m}
<1>1. ASSUME snaps' \in {snaps, snaps \cup {ts}}, doomed' \subseteq doomed
      PROVE  /\ IsFiniteSet(snaps') /\ \A t \in doomed' : t \in doomed
             /\ snaps \subseteq snaps'
  BY <1>1, FS_AddElement
<1>2. CASE Client
  <2>. PICK r \in Replies(conn) :
           \/ Probe(r) \/ EnsurePackages(r) \/ UploadOne(r)
           \/ ValidateUci(r) \/ ValidateXray(r)
           \/ MkBackup(r) \/ SnapshotOne(r) \/ SwapOne(r)
           \/ Reload(r) \/ PidofCheck(r) \/ PingCheck(r)
           \/ ListOld(r) \/ (\E t \in doomed : PruneOne(t, r)) \/ Clean(r)
           \/ RestoreOne(r) \/ Rereload(r)
    BY <1>2 DEF Client
  <2>1. CASE ListOld(r)
    BY <1>1, <2>1 DEF ListOld, Beyond, filesVars
  <2>2. CASE \E t \in doomed : PruneOne(t, r)
    <3>1. PICK m \in doomed : snaps' \in {snaps, snaps \ {m}} /\ doomed' \subseteq doomed
      BY <2>2 DEF PruneOne, StillDoomed
    <3>2. IsFiniteSet(snaps')
      BY <3>1, FS_RemoveElement
    <3>. QED
      BY <3>1, <3>2
  <2>3. CASE \/ Probe(r) \/ EnsurePackages(r) \/ UploadOne(r)
             \/ ValidateUci(r) \/ ValidateXray(r)
             \/ MkBackup(r) \/ SnapshotOne(r) \/ SwapOne(r)
             \/ Reload(r) \/ PidofCheck(r) \/ PingCheck(r)
             \/ Clean(r) \/ RestoreOne(r) \/ Rereload(r)
    <3>1. snaps' \in {snaps, snaps \cup {ts}} /\ doomed' \subseteq doomed
      BY <2>3 DEF Probe, EnsurePackages, UploadOne, ValidateUci, ValidateXray, MkBackup, SnapshotOne, SwapOne,
         Reload, PidofCheck, PingCheck, Clean, RestoreOne, Rereload, filesVars
    <3>. QED
      BY <1>1, <3>1
  <2>. QED
    BY <2>1, <2>2, <2>3
<1>3. CASE ~Client
  <2>1. snaps' = snaps /\ doomed' \subseteq doomed
    BY <1>3 DEF Next, Start, Die, filesVars, vars
  <2>. QED
    BY <1>1, <2>1
<1>. QED
  BY <1>2, <1>3

\* A snapshot loses a file or goes away only while --backup-keep newer ones
\* remain (PruneKeepsNewest), also when a removal fails half-way.
THEOREM PruneKeepsNewestAlways == Spec => PruneKeepsNewest
<1>1. TypeOK /\ IInv /\ IInv' /\ PruneInv /\ [Next]_vars => PruneInv'
  BY StepPrune
<1>2. TypeOK /\ IInv /\ PruneInv /\ [Next]_vars
      => \A t \in snaps : Shrinks(t) => Cardinality({u \in snaps' : u > t}) >= Keep
  <2>. SUFFICES ASSUME TypeOK, IInv, PruneInv, [Next]_vars, NEW t \in snaps, Shrinks(t)
                PROVE  Cardinality({u \in snaps' : u > t}) >= Keep
    OBVIOUS
  <2>1. PICK r \in Replies(conn), m \in doomed : PruneOne(m, r)
    BY OnlyPruneShrinks DEF IInv
  <2>2. /\ \A u \in snaps : u > m => u \in snaps'
        /\ \A u \in Time : u # m => backup'[u] = backup[u]
    BY <2>1, PrunePrune
  <2>3. snaps' \subseteq snaps /\ \A u \in snaps : u # m => u \in snaps'
    BY <2>1 DEF PruneOne
  <2>4. t = m
    BY <2>2, <2>3 DEF Shrinks, TypeOK
  <2>5. {u \in snaps' : u > t} = {u \in snaps : u > t}
    BY <2>2, <2>3, <2>4
  <2>. QED
    BY <2>4, <2>5 DEF PruneInv
<1>3. TypeOK /\ IInv /\ PruneInv /\ [Next]_vars
      => [\A t \in snaps : Shrinks(t) => Cardinality({u \in snaps' : u > t}) >= Keep]_vars
  BY <1>2
<1>. QED
  BY <1>1, <1>3, InitPrune, Inductive, PTL DEF Spec, PruneKeepsNewest
=============================================================================
