------------------------- MODULE WorkstationProofs --------------------------
(***************************************************************************)
(* The properties of the commands on the workstation, for all servers,     *)
(* keys, requests, texts and paths, any number of commands side by side    *)
(* and any number of lines that other programs add.                        *)
(***************************************************************************)
EXTENDS UploadProofs, SequenceTheorems, WellFoundedInduction

Ops == Sess!SftpRequest \cup Sess!Returned \cup {"none", "select", "closed"}

\* The part of the types that does not depend on who shares a path.
DeskTypeOK ==
    /\ KnownHostsTypeOK
    /\ op \in [Process -> Ops] /\ queued \in [Process -> {"none", "ok", "failed"}]
    /\ request \in [Process -> Request \cup {NoRequest}]
    /\ DOMAIN report = Process

-----------------------------------------------------------------------------
(* known_hosts *)

LEMMA OptionsTyped == NoOptions \in [accept : BOOLEAN, server : Server, explicit : BOOLEAN]
BY KnownHostsAssumption DEF NoOptions

\* A command goes on to its next step; nothing else of the dials changes.
LEMMA GotoKeeps ==
    ASSUME KnownHostsTypeOK, CallbackInv, NEW p \in Process,
           NEW next \in Ended \cup {"idle", "resolve", "callback", "tcp", "handshake", "up"},
           Goto(p, next), next \in {"tcp", "handshake"} => step[p] \in {"algorithms", "tcp", "handshake"},
           keys' = keys, known' = known, base' = base, dial' = dial, raced' = raced, reinstalls' = reinstalls,
           types' \in [Process -> SUBSET KeyType]
    PROVE  KnownHostsTypeOK' /\ CallbackInv'
<1>1. step' = [step EXCEPT ![p] = next]
  BY DEF Goto
<1>2. KnownHostsTypeOK'
  BY <1>1 DEF KnownHostsTypeOK
<1>3. CallbackInv'
  BY <1>1 DEF KnownHostsTypeOK, CallbackInv, Ended
<1>. QED
  BY <1>2, <1>3

LEMMA BeginKeeps ==
    ASSUME KnownHostsTypeOK, CallbackInv, NEW p \in Process,
           NEW options \in [accept : BOOLEAN, server : Server, explicit : BOOLEAN], Begin(p, options)
    PROVE  KnownHostsTypeOK' /\ CallbackInv'
<1>1. /\ step' = [step EXCEPT ![p] = "callback"] /\ dial' = [dial EXCEPT ![p] = options]
      /\ keys' = keys /\ known' = known /\ base' = base /\ types' = types /\ raced' = raced
      /\ reinstalls' = reinstalls
  BY DEF Begin, Goto
<1>. QED
  BY <1>1 DEF KnownHostsTypeOK, CallbackInv

LEMMA MakeCallbackKeeps ==
    ASSUME KnownHostsTypeOK, CallbackInv, NEW p \in Process, NEW ok \in BOOLEAN, MakeCallback(p, ok)
    PROVE  KnownHostsTypeOK' /\ CallbackInv'
<1>1. /\ step' = [step EXCEPT ![p] = IF ok THEN "algorithms" ELSE "refused"]
      /\ base' = [base EXCEPT ![p] = known] /\ raced' = [raced EXCEPT ![p] = FALSE]
      /\ keys' = keys /\ known' = known /\ dial' = dial /\ types' = types /\ reinstalls' = reinstalls
  BY DEF MakeCallback, Goto
<1>2. KnownHostsTypeOK'
  BY <1>1 DEF KnownHostsTypeOK, Ended
<1>3. CallbackInv'
  BY <1>1 DEF KnownHostsTypeOK, CallbackInv
<1>. QED
  BY <1>2, <1>3

\* A line more for another server, or for one whose commands are told.
LEMMA LineKeeps ==
    ASSUME KnownHostsTypeOK, CallbackInv, NEW line \in Line, NEW quiet \in SUBSET Process,
           known' = known \cup {line},
           \A q \in Process \ quiet : step'[q] = step[q] /\ dial'[q] = dial[q] /\ base'[q] = base[q],
           \A q \in Process \ quiet : raced'[q] = (raced[q] \/ (dial[q].server = line.server /\ step[q] # "idle")),
           \A q \in quiet : step'[q] \notin {"algorithms", "tcp", "handshake"}
    PROVE  CallbackInv'
<1>. SUFFICES ASSUME NEW q \in Process, step'[q] \in {"algorithms", "tcp", "handshake"}, ~raced'[q]
              PROVE  Of(base'[q], dial'[q].server) = Of(known', dial'[q].server)
  BY DEF CallbackInv
<1>1. q \notin quiet /\ step[q] \in {"algorithms", "tcp", "handshake"} /\ ~raced[q] /\ dial[q].server # line.server
  OBVIOUS
<1>2. Of(base[q], dial[q].server) = Of(known, dial[q].server)
  BY <1>1 DEF CallbackInv
<1>3. Of(known', dial[q].server) = Of(known, dial[q].server)
  BY <1>1 DEF Of
<1>. QED
  BY <1>1, <1>2, <1>3

\* What the handshake ends in: the key is on file, another is, it is trusted or it
\* is not known.
LEMMA HandshakeCases ==
    ASSUME KnownHostsTypeOK, NEW p \in Process, NEW t \in KeyType, Handshake(p, t)
    PROVE  LET key == keys[dial[p].server][t]
               lines == Of(base[p], dial[p].server)
               line == [key |-> key, server |-> dial[p].server, type |-> t, hashed |-> FALSE]
           IN  /\ step[p] = "handshake" /\ t \in Offered(p) /\ reinstalls' = reinstalls /\ keys' = keys
               /\ \/ /\ \E l \in lines : l.type = t /\ l.key = key
                     /\ step' = [step EXCEPT ![p] = "up"] /\ known' = known /\ raced' = raced
                     /\ dial' = [dial EXCEPT ![p] = NoOptions] /\ base' = [base EXCEPT ![p] = {}]
                     /\ types' = [types EXCEPT ![p] = {}]
                  \/ /\ lines = {}
                     /\ step' = [step EXCEPT ![p] = "up"] /\ known' = known \cup {line}
                     /\ raced' = [q \in Process |->
                            raced[q] \/ (q # p /\ dial[q].server = line.server /\ step[q] # "idle")]
                     /\ dial' = [dial EXCEPT ![p] = NoOptions] /\ base' = [base EXCEPT ![p] = {}]
                     /\ types' = [types EXCEPT ![p] = {}]
                  \/ /\ lines # {} /\ ~ \E l \in lines : l.type = t /\ l.key = key
                     /\ step' = [step EXCEPT ![p] = "mismatch"] /\ known' = known /\ raced' = raced
                     /\ dial' = dial /\ base' = base /\ types' = types
                  \/ /\ lines = {}
                     /\ step' = [step EXCEPT ![p] = "unknown"] /\ known' = known /\ raced' = raced
                     /\ dial' = dial /\ base' = base /\ types' = types
<1>. DEFINE key == keys[dial[p].server][t]
            lines == Of(base[p], dial[p].server)
            line == [key |-> key, server |-> dial[p].server, type |-> t, hashed |-> FALSE]
<1>1. /\ step[p] = "handshake" /\ t \in Offered(p) /\ reinstalls' = reinstalls /\ keys' = keys
      /\ Judge(p, t, key)
      /\ IF step'[p] = "up" THEN /\ dial' = [dial EXCEPT ![p] = NoOptions]
                                 /\ base' = [base EXCEPT ![p] = {}] /\ types' = [types EXCEPT ![p] = {}]
                            ELSE UNCHANGED <<dial, base, types>>
  BY DEF Handshake
<1>2. \/ /\ \E l \in lines : l.type = t /\ l.key = key
         /\ Goto(p, "up") /\ known' = known /\ raced' = raced
      \/ lines = {} /\ Goto(p, "up") /\ Trust(p, line)
      \/ /\ lines # {} /\ ~ \E l \in lines : l.type = t /\ l.key = key
         /\ Goto(p, "mismatch") /\ known' = known /\ raced' = raced
      \/ lines = {} /\ Goto(p, "unknown") /\ known' = known /\ raced' = raced
  BY <1>1 DEF Judge, NewLine
<1>. HIDE DEF key, lines, line
<1>3. \A next : Goto(p, next) => step' = [step EXCEPT ![p] = next] /\ step'[p] = next
  BY DEF Goto, KnownHostsTypeOK
<1>4. Trust(p, line) => /\ known' = known \cup {line}
                        /\ raced' = [q \in Process |->
                                raced[q] \/ (q # p /\ dial[q].server = line.server /\ step[q] # "idle")]
  BY DEF Trust
<1>5. CASE /\ \E l \in lines : l.type = t /\ l.key = key
           /\ Goto(p, "up") /\ known' = known /\ raced' = raced
  BY <1>1, <1>3, <1>5 DEF key, lines
<1>6. CASE lines = {} /\ Goto(p, "up") /\ Trust(p, line)
  BY <1>1, <1>3, <1>4, <1>6 DEF key, lines, line
<1>7. CASE /\ lines # {} /\ ~ \E l \in lines : l.type = t /\ l.key = key
           /\ Goto(p, "mismatch") /\ known' = known /\ raced' = raced
  BY <1>1, <1>3, <1>7 DEF key, lines
<1>8. CASE lines = {} /\ Goto(p, "unknown") /\ known' = known /\ raced' = raced
  BY <1>1, <1>3, <1>8 DEF lines
<1>. QED
  BY <1>2, <1>5, <1>6, <1>7, <1>8

LEMMA HandshakeKeeps ==
    ASSUME KnownHostsTypeOK, CallbackInv, NEW p \in Process, NEW t \in KeyType, Handshake(p, t)
    PROVE  KnownHostsTypeOK' /\ CallbackInv'
<1>. DEFINE key == keys[dial[p].server][t]
            lines == Of(base[p], dial[p].server)
            line == [key |-> key, server |-> dial[p].server, type |-> t, hashed |-> FALSE]
<1>1. line \in Line
  BY DEF KnownHostsTypeOK, Line
<1>2. CASE /\ step' = [step EXCEPT ![p] = "up"] /\ known' = known /\ raced' = raced
           /\ dial' = [dial EXCEPT ![p] = NoOptions] /\ base' = [base EXCEPT ![p] = {}]
           /\ types' = [types EXCEPT ![p] = {}] /\ keys' = keys /\ reinstalls' = reinstalls
  <2>1. KnownHostsTypeOK'
    BY <1>2, OptionsTyped DEF KnownHostsTypeOK
  <2>2. CallbackInv'
    BY <1>2 DEF KnownHostsTypeOK, CallbackInv
  <2>. QED
    BY <2>1, <2>2
<1>3. CASE /\ step' = [step EXCEPT ![p] = "up"] /\ known' = known \cup {line}
           /\ raced' = [q \in Process |->
                    raced[q] \/ (q # p /\ dial[q].server = line.server /\ step[q] # "idle")]
           /\ dial' = [dial EXCEPT ![p] = NoOptions] /\ base' = [base EXCEPT ![p] = {}]
           /\ types' = [types EXCEPT ![p] = {}] /\ keys' = keys /\ reinstalls' = reinstalls
  <2>. HIDE DEF line
  <2>1. KnownHostsTypeOK'
    BY <1>1, <1>3, OptionsTyped DEF KnownHostsTypeOK
  <2>2. CallbackInv'
    <3>. DEFINE quiet == {p}
    <3>1. /\ \A q \in Process \ quiet : step'[q] = step[q] /\ dial'[q] = dial[q] /\ base'[q] = base[q]
          /\ \A q \in Process \ quiet : raced'[q] = (raced[q] \/ (dial[q].server = line.server /\ step[q] # "idle"))
          /\ \A q \in quiet : step'[q] \notin {"algorithms", "tcp", "handshake"}
          /\ quiet \in SUBSET Process
      BY <1>3 DEF KnownHostsTypeOK
    <3>. HIDE DEF quiet
    <3>. QED
      BY <1>1, <1>3, <3>1, LineKeeps
  <2>. QED
    BY <2>1, <2>2
<1>4. CASE /\ step' = [step EXCEPT ![p] = "mismatch"] \/ step' = [step EXCEPT ![p] = "unknown"]
           /\ known' = known /\ raced' = raced /\ dial' = dial /\ base' = base /\ types' = types
           /\ keys' = keys /\ reinstalls' = reinstalls
  BY <1>4 DEF KnownHostsTypeOK, CallbackInv, Ended
<1>. QED
  BY <1>2, <1>3, <1>4, HandshakeCases

\* The line of a host that was trusted in vain is a line like any other.
LEMMA VainKeeps ==
    ASSUME KnownHostsTypeOK, CallbackInv, NEW p \in Process, NEW t \in KeyType, TrustInVain(p, t)
    PROVE  KnownHostsTypeOK' /\ CallbackInv'
<1>. DEFINE line == NewLine(dial[p].server, t, keys[dial[p].server][t])
            quiet == {p}
<1>1. line \in Line
  BY DEF KnownHostsTypeOK, Line, NewLine
<1>2. /\ step' = [step EXCEPT ![p] = "refused"] /\ known' = known \cup {line}
      /\ raced' = [q \in Process |->
               raced[q] \/ (q # p /\ dial[q].server = line.server /\ step[q] # "idle")]
      /\ UNCHANGED <<dial, base, types, keys, reinstalls>>
  BY DEF TrustInVain, Trust, Goto
<1>. HIDE DEF line
<1>3. KnownHostsTypeOK'
  BY <1>1, <1>2 DEF KnownHostsTypeOK, Ended
<1>4. /\ \A q \in Process \ quiet : step'[q] = step[q] /\ dial'[q] = dial[q] /\ base'[q] = base[q]
      /\ \A q \in Process \ quiet : raced'[q] = (raced[q] \/ (dial[q].server = line.server /\ step[q] # "idle"))
      /\ \A q \in quiet : step'[q] \notin {"algorithms", "tcp", "handshake"}
      /\ quiet \in SUBSET Process
  BY <1>2 DEF KnownHostsTypeOK
<1>. HIDE DEF quiet
<1>5. CallbackInv'
  BY <1>1, <1>2, <1>4, LineKeeps
<1>. QED
  BY <1>3, <1>5

LEMMA DiallingKeeps ==
    ASSUME KnownHostsTypeOK, CallbackInv, NEW p \in Process, Dialling(p)
    PROVE  KnownHostsTypeOK' /\ CallbackInv'
<1>1. ASSUME NEW ok \in BOOLEAN, Connect(p, ok)
      PROVE  KnownHostsTypeOK' /\ CallbackInv'
  <2>. DEFINE next == IF ok THEN "handshake" ELSE "timeout"
  <2>1. /\ Goto(p, next) /\ step[p] = "tcp" /\ next \in {"handshake", "timeout"}
        /\ keys' = keys /\ known' = known /\ base' = base /\ dial' = dial /\ raced' = raced
        /\ reinstalls' = reinstalls /\ types' = types
    BY <1>1 DEF Connect, dialVars
  <2>. HIDE DEF next
  <2>. QED
    BY <2>1, GotoKeeps DEF Ended, KnownHostsTypeOK
<1>2. ASSUME ReadAlgorithms(p)
      PROVE  KnownHostsTypeOK' /\ CallbackInv'
  <2>. DEFINE found == IF dial[p].explicit THEN Algorithms(known, dial[p].server) ELSE {}
  <2>1. /\ Goto(p, "tcp") /\ step[p] = "algorithms" /\ types' = [types EXCEPT ![p] = found]
        /\ keys' = keys /\ known' = known /\ base' = base /\ dial' = dial /\ raced' = raced
        /\ reinstalls' = reinstalls
    BY <1>2 DEF ReadAlgorithms
  <2>2. found \in SUBSET KeyType
    <3>1. \A l \in known : l.type \in KeyType
      BY DEF Line, KnownHostsTypeOK
    <3>2. Algorithms(known, dial[p].server) \subseteq KeyType
      BY <3>1 DEF Algorithms
    <3>. QED
      BY <3>2
  <2>. HIDE DEF found
  <2>3. types' \in [Process -> SUBSET KeyType]
    BY <2>1, <2>2 DEF KnownHostsTypeOK
  <2>. QED
    BY <2>1, <2>3, GotoKeeps
<1>3. ASSUME HandshakeFails(p)
      PROVE  KnownHostsTypeOK' /\ CallbackInv'
  <2>1. /\ Goto(p, "refused") /\ types' = types
        /\ keys' = keys /\ known' = known /\ base' = base /\ dial' = dial /\ raced' = raced
        /\ reinstalls' = reinstalls
    BY <1>3 DEF HandshakeFails, dialVars
  <2>. QED
    BY <2>1, GotoKeeps DEF Ended, KnownHostsTypeOK
<1>4. ASSUME NEW t \in KeyType, TrustInVain(p, t)
      PROVE  KnownHostsTypeOK' /\ CallbackInv'
  BY <1>4, VainKeeps
<1>. QED
  BY <1>1, <1>2, <1>3, <1>4, MakeCallbackKeeps, HandshakeKeeps DEF Dialling

LEMMA OutsideKeeps ==
    ASSUME KnownHostsTypeOK, CallbackInv, Outside
    PROVE  KnownHostsTypeOK' /\ CallbackInv'
<1>1. ASSUME NEW line \in Line, OtherProgram(line)
      PROVE  KnownHostsTypeOK' /\ CallbackInv'
  <2>1. /\ known' = known \cup {line}
        /\ raced' = [p \in Process |-> raced[p] \/ (dial[p].server = line.server /\ step[p] # "idle")]
        /\ keys' = keys /\ step' = step /\ dial' = dial /\ base' = base /\ types' = types
        /\ reinstalls' = reinstalls
    BY <1>1 DEF OtherProgram
  <2>2. KnownHostsTypeOK'
    BY <2>1 DEF KnownHostsTypeOK
  <2>3. CallbackInv'
    <3>. DEFINE quiet == {}
    <3>1. /\ \A q \in Process \ quiet : step'[q] = step[q] /\ dial'[q] = dial[q] /\ base'[q] = base[q]
          /\ \A q \in Process \ quiet : raced'[q] = (raced[q] \/ (dial[q].server = line.server /\ step[q] # "idle"))
          /\ \A q \in quiet : step'[q] \notin {"algorithms", "tcp", "handshake"}
          /\ quiet \in SUBSET Process
      BY <2>1
    <3>. HIDE DEF quiet
    <3>. QED
      BY <2>1, <3>1, LineKeeps
  <2>. QED
    BY <2>2, <2>3
<1>2. ASSUME NEW s \in Server, NEW k \in Key, Reinstall(s, k)
      PROVE  KnownHostsTypeOK' /\ CallbackInv'
  <2>1. /\ keys' = [keys EXCEPT ![s] = [t \in KeyType |-> k]] /\ reinstalls' = reinstalls + 1
        /\ known' = known /\ step' = step /\ dial' = dial /\ base' = base /\ types' = types /\ raced' = raced
    BY <1>2 DEF Reinstall, dialVars
  <2>2. KnownHostsTypeOK'
    BY <2>1 DEF KnownHostsTypeOK
  <2>3. CallbackInv'
    BY <2>1 DEF CallbackInv
  <2>. QED
    BY <2>2, <2>3
<1>. QED
  BY <1>1, <1>2 DEF Outside

LEMMA ForgottenKeeps ==
    ASSUME KnownHostsTypeOK, CallbackInv, NEW p \in Process, Forgotten(p)
    PROVE  KnownHostsTypeOK' /\ CallbackInv'
<1>1. /\ step' = [step EXCEPT ![p] = "idle"]
      /\ dial' = [dial EXCEPT ![p] = NoOptions] /\ raced' = [raced EXCEPT ![p] = FALSE]
      /\ base' = [base EXCEPT ![p] = {}] /\ types' = [types EXCEPT ![p] = {}]
      /\ keys' = keys /\ known' = known /\ reinstalls' = reinstalls
  BY DEF Forgotten, Goto
<1>2. KnownHostsTypeOK'
  BY <1>1, OptionsTyped DEF KnownHostsTypeOK
<1>3. CallbackInv'
  BY <1>1 DEF KnownHostsTypeOK, CallbackInv
<1>. QED
  BY <1>2, <1>3

-----------------------------------------------------------------------------
(* Commands and calls *)

\* A call changes the state of its own client only.
LEMMA CallCases ==
    ASSUME DeskTypeOK, NEW c \in Process,
           \/ Sess!StartUpload(c) \/ Sess!Upload(c)
           \/ \E ok, deadline \in BOOLEAN : Sess!StartRun(c, ok, deadline)
           \/ Sess!Run(c)
    PROVE  /\ op' \in [Process -> Ops] /\ queued' \in [Process -> {"none", "ok", "failed"}]
           /\ \A d \in Process : d # c => op'[d] = op[d]
<1>. DEFINE Good == /\ op' \in [Process -> Ops] /\ queued' \in [Process -> {"none", "ok", "failed"}]
                    /\ \A d \in Process : d # c => op'[d] = op[d]
<1>1. ASSUME NEW next \in Ops, op' = [op EXCEPT ![c] = next], queued' = queued
      PROVE  Good
  BY <1>1 DEF DeskTypeOK
<1>2. ASSUME NEW r \in Sess!Answers(c), NEW ok \in Ops, NEW failed \in Ops, Sess!Then(c, r, ok, failed)
      PROVE  Good
  <2>. DEFINE next == IF r.err THEN failed ELSE ok
  <2>1. next \in Ops /\ op' = [op EXCEPT ![c] = next] /\ queued' = queued
    BY <1>2 DEF Sess!Then, Sess!runVars
  <2>. HIDE DEF next, Good
  <2>. QED
    BY <1>1, <2>1
<1>. SUFFICES Good
  OBVIOUS
<1>. HIDE DEF Good
<1>3. Sess!SftpRequest \subseteq Ops /\ Sess!Returned \subseteq Ops /\ "select" \in Ops
  BY DEF Ops
<1>4. {"mkdir", "create", "write", "close", "abandon", "chmod", "posix rename", "remove", "rename", "cleanup",
       "uploaded", "not uploaded", "ok", "failed", "cancelled"} \subseteq Ops
  BY <1>3 DEF Sess!SftpRequest, Sess!Returned
<1>5. CASE Sess!StartUpload(c)
  BY <1>1, <1>4, <1>5 DEF Sess!StartUpload, Sess!runVars
<1>6. CASE Sess!Upload(c)
  <2>1. PICK r \in Sess!Answers(c) :
            \/ Sess!Mkdir(c, r) \/ Sess!Create(c, r) \/ Sess!Write(c, r) \/ Sess!CloseFile(c, r) \/ Sess!Chmod(c, r)
            \/ Sess!PosixRename(c, r) \/ Sess!RemoveTarget(c, r) \/ Sess!Rename(c, r) \/ Sess!Cleanup(c, r)
    BY <1>6 DEF Sess!Upload
  <2>2. \E ok, failed \in Ops : Sess!Then(c, r, ok, failed)
    <3>1. CASE Sess!Mkdir(c, r)
      BY <1>4, <3>1 DEF Sess!Mkdir
    <3>2. CASE Sess!Create(c, r)
      BY <1>4, <3>2 DEF Sess!Create
    <3>3. CASE Sess!Write(c, r)
      BY <1>4, <3>3 DEF Sess!Write
    <3>4. CASE Sess!CloseFile(c, r)
      BY <1>4, <3>4 DEF Sess!CloseFile
    <3>5. CASE Sess!Chmod(c, r)
      BY <1>4, <3>5 DEF Sess!Chmod
    <3>6. CASE Sess!PosixRename(c, r)
      BY <1>4, <3>6 DEF Sess!PosixRename
    <3>7. CASE Sess!RemoveTarget(c, r)
      BY <1>4, <3>7 DEF Sess!RemoveTarget
    <3>8. CASE Sess!Rename(c, r)
      BY <1>4, <3>8 DEF Sess!Rename
    <3>9. CASE Sess!Cleanup(c, r)
      BY <1>4, <3>9 DEF Sess!Cleanup
    <3>. QED
      BY <2>1, <3>1, <3>2, <3>3, <3>4, <3>5, <3>6, <3>7, <3>8, <3>9
  <2>. QED
    BY <1>2, <2>2
<1>7. CASE \E ok, deadline \in BOOLEAN : Sess!StartRun(c, ok, deadline)
  <2>1. queued' = queued /\ (op' = [op EXCEPT ![c] = "select"] \/ op' = [op EXCEPT ![c] = "failed"])
    BY <1>7 DEF Sess!StartRun
  <2>. QED
    BY <1>1, <1>3, <1>4, <2>1
<1>8. CASE Sess!Run(c)
  <2>1. CASE Sess!SelectDone(c)
    <3>1. op' = [op EXCEPT ![c] = queued[c]] /\ queued' = queued /\ queued[c] \in {"ok", "failed"}
      BY <2>1 DEF Sess!SelectDone, Sess!runVars, DeskTypeOK
    <3>. QED
      BY <1>1, <1>4, <3>1
  <2>2. CASE Sess!SelectCtx(c)
    BY <1>1, <1>4, <2>2 DEF Sess!SelectCtx, Sess!runVars
  <2>3. CASE Sess!CommandReturns(c) \/ \E result \in {"ok", "failed"} : Sess!Send(c, result)
    BY <2>3 DEF Sess!CommandReturns, Sess!Send, DeskTypeOK, Good
  <2>. QED
    BY <1>8, <2>1, <2>2, <2>3 DEF Sess!Run
<1>. QED
  BY <1>5, <1>6, <1>7, <1>8

\* The invariant of all commands: what they are asked for, what they dial with, and
\* that they call only when they are connected.
CommandsInv == DeskTypeOK /\ CallbackInv /\ DeskInv

LEMMA CallingKeeps ==
    ASSUME CommandsInv, NEW p \in Process, Call(p)
    PROVE  CommandsInv'
<1>1. /\ UNCHANGED <<khVars, deskVars>> /\ step[p] = "up"
      /\ op' \in [Process -> Ops] /\ queued' \in [Process -> {"none", "ok", "failed"}]
      /\ \A d \in Process : d # p => op'[d] = op[d]
  BY CallCases DEF Call, CommandsInv
<1>2. DeskTypeOK' /\ CallbackInv'
  BY <1>1 DEF CommandsInv, DeskTypeOK, KnownHostsTypeOK, CallbackInv, khVars, dialVars, deskVars
<1>3. DeskInv'
  BY <1>1 DEF CommandsInv, DeskInv, khVars, deskVars
<1>. QED
  BY <1>2, <1>3 DEF CommandsInv

LEMMA TypeKeeps ==
    ASSUME CommandsInv, NEW p \in Process, NEW q \in Request, Type(p, q)
    PROVE  CommandsInv'
<1>1. /\ step[p] = "idle" /\ Goto(p, "resolve") /\ request' = [request EXCEPT ![p] = q]
      /\ keys' = keys /\ known' = known /\ base' = base /\ dial' = dial /\ raced' = raced /\ types' = types
      /\ reinstalls' = reinstalls /\ op' = op /\ queued' = queued /\ report' = report
  BY DEF Type, dialVars, callVars
<1>2. KnownHostsTypeOK' /\ CallbackInv'
  BY <1>1, GotoKeeps DEF CommandsInv, DeskTypeOK, KnownHostsTypeOK
<1>3. DeskTypeOK'
  BY <1>1, <1>2 DEF CommandsInv, DeskTypeOK
<1>4. DeskInv'
  BY <1>1 DEF CommandsInv, DeskInv, DeskTypeOK, KnownHostsTypeOK, Goto
<1>. QED
  BY <1>2, <1>3, <1>4 DEF CommandsInv

LEMMA ResolveKeeps ==
    ASSUME CommandsInv, NEW p \in Process, ResolveFlags(p)
    PROVE  CommandsInv'
<1>. DEFINE ep == EndpointFor(request[p])
            options == [accept |-> request[p].flags.accept, server |-> Address[<<ep.host, ep.port>>],
                        explicit |-> ep.known # Nil]
<1>1. /\ step[p] = "resolve" /\ request' = [request EXCEPT ![p] = NoRequest]
      /\ op' = op /\ queued' = queued /\ report' = report
      /\ \/ <<ep.host, ep.port>> \in DOMAIN Address /\ Begin(p, options)
         \/ Goto(p, "refused") /\ UNCHANGED <<keys, known, dialVars, foreign, reinstalls>>
  BY DEF ResolveFlags, callVars
<1>2. request[p].flags.accept \in BOOLEAN
  BY <1>1, WorkstationAssumption DEF CommandsInv, DeskInv
<1>. HIDE DEF ep
<1>3. CASE <<ep.host, ep.port>> \in DOMAIN Address /\ Begin(p, options)
  <2>1. options \in [accept : BOOLEAN, server : Server, explicit : BOOLEAN]
    BY <1>2, <1>3, WorkstationAssumption
  <2>. HIDE DEF options
  <2>2. KnownHostsTypeOK' /\ CallbackInv' /\ step' = [step EXCEPT ![p] = "callback"]
    BY <1>3, <2>1, BeginKeeps DEF CommandsInv, DeskTypeOK, Begin, Goto
  <2>3. DeskTypeOK'
    BY <1>1, <2>2 DEF CommandsInv, DeskTypeOK
  <2>4. DeskInv'
    BY <1>1, <2>2 DEF CommandsInv, DeskInv, DeskTypeOK, KnownHostsTypeOK
  <2>. QED
    BY <2>2, <2>3, <2>4 DEF CommandsInv
<1>4. CASE Goto(p, "refused") /\ UNCHANGED <<keys, known, dialVars, foreign, reinstalls>>
  <2>1. KnownHostsTypeOK' /\ CallbackInv'
    BY <1>4, GotoKeeps DEF CommandsInv, DeskTypeOK, KnownHostsTypeOK, dialVars, Ended
  <2>2. DeskTypeOK'
    BY <1>1, <2>1 DEF CommandsInv, DeskTypeOK
  <2>3. DeskInv'
    BY <1>1, <1>4 DEF CommandsInv, DeskInv, DeskTypeOK, KnownHostsTypeOK, Goto
  <2>. QED
    BY <2>1, <2>2, <2>3 DEF CommandsInv
<1>. QED
  BY <1>1, <1>3, <1>4

LEMMA DialCommandKeeps ==
    ASSUME CommandsInv, NEW p \in Process, Dial(p)
    PROVE  CommandsInv'
<1>1. Dialling(p) /\ op' = op /\ queued' = queued /\ request' = request /\ report' = report
  BY DEF Dial, deskVars
<1>2. KnownHostsTypeOK' /\ CallbackInv'
  BY <1>1, DiallingKeeps DEF CommandsInv, DeskTypeOK
<1>3. DeskTypeOK'
  BY <1>1, <1>2 DEF CommandsInv, DeskTypeOK
<1>. DEFINE Goes == \E next \in {"refused", "algorithms", "timeout", "handshake", "tcp", "up", "mismatch", "unknown"} :
                        step' = [step EXCEPT ![p] = next]
<1>4. Goes
  <2>1. ASSUME NEW ok \in BOOLEAN, MakeCallback(p, ok) \/ Connect(p, ok)
        PROVE  Goes
    BY <2>1 DEF MakeCallback, Connect, Goto
  <2>2. CASE ReadAlgorithms(p) \/ HandshakeFails(p)
    BY <2>2 DEF ReadAlgorithms, HandshakeFails, Goto
  <2>3. ASSUME NEW t \in KeyType, Handshake(p, t)
        PROVE  Goes
    BY <2>3, HandshakeCases DEF CommandsInv, DeskTypeOK
  <2>4. ASSUME NEW t \in KeyType, TrustInVain(p, t)
        PROVE  Goes
    BY <2>4 DEF TrustInVain, Goto
  <2>. QED
    BY <1>1, <2>1, <2>2, <2>3, <2>4 DEF Dialling
<1>5. step[p] # "up" /\ step[p] # "resolve"
  BY <1>1 DEF Dialling, MakeCallback, Connect, ReadAlgorithms, Handshake, HandshakeFails, TrustInVain
<1>6. DeskInv'
  BY <1>1, <1>4, <1>5 DEF CommandsInv, DeskInv, DeskTypeOK, KnownHostsTypeOK
<1>. QED
  BY <1>2, <1>3, <1>6 DEF CommandsInv

LEMMA CloseCommandKeeps ==
    ASSUME CommandsInv, NEW p \in Process, Close(p)
    PROVE  CommandsInv'
<1>1. /\ op[p] \in Sess!Returned /\ op' = [op EXCEPT ![p] = "closed"] /\ queued' = queued
      /\ report' = [report EXCEPT ![p] = NoReport] /\ UNCHANGED khVars /\ request' = request
  BY DEF Close, Sess!Close, Sess!runVars
<1>2. KnownHostsTypeOK' /\ CallbackInv'
  BY <1>1 DEF CommandsInv, DeskTypeOK, KnownHostsTypeOK, CallbackInv, khVars, dialVars
<1>3. DeskTypeOK'
  BY <1>1, <1>2 DEF CommandsInv, DeskTypeOK, Ops
<1>4. step[p] = "up" /\ step' = step
  BY <1>1 DEF CommandsInv, DeskInv, Sess!Returned, khVars
<1>5. DeskInv'
  BY <1>1, <1>4 DEF CommandsInv, DeskInv, DeskTypeOK, NoReport
<1>. QED
  BY <1>2, <1>3, <1>5 DEF CommandsInv

LEMMA EndKeeps ==
    ASSUME CommandsInv, NEW p \in Process, End(p)
    PROVE  CommandsInv'
<1>1. /\ Forgotten(p) /\ step' = [step EXCEPT ![p] = "idle"]
      /\ op' = [op EXCEPT ![p] = "none"] /\ queued' = [queued EXCEPT ![p] = "none"]
      /\ request' = [request EXCEPT ![p] = NoRequest] /\ report' = [report EXCEPT ![p] = NoReport]
  BY DEF End, Sess!Gone, Forgotten, Goto
<1>2. KnownHostsTypeOK' /\ CallbackInv'
  BY <1>1, ForgottenKeeps DEF CommandsInv, DeskTypeOK
<1>3. DeskTypeOK'
  BY <1>1, <1>2 DEF CommandsInv, DeskTypeOK, Ops
<1>4. DeskInv'
  BY <1>1 DEF CommandsInv, DeskInv, DeskTypeOK, KnownHostsTypeOK, NoReport
<1>. QED
  BY <1>2, <1>3, <1>4 DEF CommandsInv

LEMMA DiffCommandKeeps ==
    ASSUME CommandsInv, NEW p \in Process, NEW r \in Sess!Reply, NEW router \in Text \cup {Absent},
           NEW local \in Text, Diff(p, r, router, local)
    PROVE  CommandsInv'
<1>. DEFINE found == Reported(r, router, local)
<1>1. /\ step[p] = "up" /\ op' = [op EXCEPT ![p] = "ok"] /\ queued' = queued /\ UNCHANGED khVars
      /\ report' = [report EXCEPT ![p] = found] /\ request' = request /\ (router = Absent => r.err)
  BY DEF Diff
<1>2. KnownHostsTypeOK' /\ CallbackInv'
  BY <1>1 DEF CommandsInv, DeskTypeOK, KnownHostsTypeOK, CallbackInv, khVars, dialVars
<1>3. DeskTypeOK'
  BY <1>1, <1>2 DEF CommandsInv, DeskTypeOK, Ops, Sess!Returned
<1>4. found.verdict \in {"changed", "same"} =>
        /\ found.router \in Text /\ found.local \in Text
        /\ found.verdict = Verdict(found.router, found.local)
        /\ found.hunk = WriteLineDiff(found.router, found.local)
  BY <1>1 DEF Reported
<1>. HIDE DEF found
<1>5. DeskInv'
  BY <1>1, <1>4 DEF CommandsInv, DeskInv, DeskTypeOK, khVars
<1>. QED
  BY <1>2, <1>3, <1>5 DEF CommandsInv

LEMMA OthersKeep ==
    ASSUME CommandsInv, Others
    PROVE  CommandsInv'
<1>1. Outside /\ UNCHANGED <<callVars, deskVars>> /\ step' = step
  BY DEF Others, Outside, OtherProgram, Reinstall
<1>2. KnownHostsTypeOK' /\ CallbackInv'
  BY <1>1, OutsideKeeps DEF CommandsInv, DeskTypeOK
<1>3. DeskTypeOK' /\ DeskInv'
  BY <1>1, <1>2 DEF CommandsInv, DeskTypeOK, DeskInv, callVars, deskVars
<1>. QED
  BY <1>2, <1>3 DEF CommandsInv

LEMMA CommandsStart == Init => CommandsInv
<1>. SUFFICES ASSUME Init PROVE CommandsInv
  OBVIOUS
<1>1. KnownHostsTypeOK
  <2>1. keys \in [Server -> [KeyType -> Key]]
    BY KnownHostsAssumption DEF Init, KInit
  <2>2. known \subseteq Line
    BY DEF Init, KInit
  <2>. QED
    BY <2>1, <2>2, OptionsTyped DEF Init, KInit, KnownHostsTypeOK
<1>2. CallbackInv
  BY DEF Init, KInit, CallbackInv
<1>3. DeskTypeOK
  BY <1>1 DEF Init, Sess!SInit, DeskTypeOK, Ops
<1>4. DeskInv
  BY DEF Init, KInit, Sess!SInit, DeskInv, NoReport
<1>. QED
  BY <1>2, <1>3, <1>4 DEF CommandsInv

\* The types hold, and what each command has read and asked for is what its step
\* needs, whatever the commands beside it do.
THEOREM CommandsInductive == Spec => []CommandsInv
<1>1. CommandsInv /\ [Next]_vars => CommandsInv'
  <2>. SUFFICES ASSUME CommandsInv, [Next]_vars PROVE CommandsInv'
    OBVIOUS
  <2>1. CASE UNCHANGED vars
    <3>1. KnownHostsTypeOK' /\ CallbackInv'
      BY <2>1 DEF CommandsInv, DeskTypeOK, KnownHostsTypeOK, CallbackInv, vars, khVars, dialVars
    <3>2. DeskTypeOK' /\ DeskInv'
      BY <2>1, <3>1 DEF CommandsInv, DeskTypeOK, DeskInv, vars, khVars, callVars, deskVars
    <3>. QED
      BY <3>1, <3>2 DEF CommandsInv
  <2>2. ASSUME NEW p \in Process, Exit(p) \/ Die(p)
        PROVE  CommandsInv'
    BY <2>2, EndKeeps DEF Exit, Die
  <2>. QED
    BY <2>1, <2>2, TypeKeeps, ResolveKeeps, DialCommandKeeps, CallingKeeps, CloseCommandKeeps,
       DiffCommandKeeps, OthersKeep DEF Next
<1>. QED
  BY <1>1, CommandsStart, PTL DEF Spec

-----------------------------------------------------------------------------
(* Flags and hosts.yaml *)

\* --host overrides --router, whatever hosts.yaml and ~/.ssh/config say of either:
\* all that --router named is gone.  (With --host alone the host is looked up in
\* hosts.yaml first, and an entry of that name without a host ends the command.)
THEOREM HostFlagWinsAlways ==
    ASSUME \A q \in Request : q.flags.host # Nil => Resolve(q.flags.host, q.yaml, q.ssh).host # <<>>
    PROVE  Spec => []HostFlagWins
<1>1. DeskInv => HostFlagWins
  <2>. SUFFICES ASSUME DeskInv, NEW p \in Process, step[p] = "resolve", request[p].flags.host # Nil
                PROVE  LET q == request[p]
                           f == [host |-> q.flags.host, key |-> q.flags.key, router |-> Nil]
                       IN  EndpointFor(q) \in {Nil, EndpointOf(f, q.yaml, q.ssh)}
    BY DEF HostFlagWins
  <2>. DEFINE q == request[p]
              f == [host |-> q.flags.host, key |-> q.flags.key, router |-> Nil]
              rt == Override(Nowhere, f.host, f.key, q.ssh)
  <2>1. q \in Request
    BY DEF DeskInv
  <2>2. \A named : Override(named, f.host, f.key, q.ssh) = rt
    BY DEF Override
  <2>3. Resolve(Or(f.router, f.host), q.yaml, q.ssh).host # <<>>
    BY <2>1 DEF Or
  <2>4. EndpointOf(f, q.yaml, q.ssh) = IF rt.key = Nil THEN Nil ELSE rt
    BY <2>2, <2>3 DEF EndpointOf
  <2>5. EndpointFor(q) \in {Nil, IF rt.key = Nil THEN Nil ELSE rt}
    BY <2>2 DEF EndpointFor, EndpointOf
  <2>. QED
    BY <2>4, <2>5
<1>2. CommandsInv => DeskInv
  BY DEF CommandsInv
<1>. QED
  BY <1>1, <1>2, CommandsInductive, PTL

\* What an entry of hosts.yaml or the text of its target sets, ~/.ssh/config does not
\* change: in no state of any command.
THEOREM EntryShieldsAlways == Spec => []EntryShields
<1>1. EntryShields
  <2>. SUFFICES ASSUME NEW q, NEW e, q.flags.host = Nil, q.flags.router \in DOMAIN q.yaml,
                       e = q.yaml[q.flags.router],
                       Nil \notin {EndpointFor(q), EndpointOf(q.flags, q.yaml, Nil)}
                PROVE  LET with == EndpointFor(q)
                           without == EndpointOf(q.flags, q.yaml, Nil)
                           t == SplitTarget(e.target)
                       IN  /\ e.user # Nil \/ t.user # Nil => with.user = without.user
                           /\ e.port # 0 \/ t.port # 0 => with.port = without.port
                           /\ e.key # Nil => with.key = without.key
    BY DEF EntryShields
  <2>. DEFINE Named(ssh) == Fill([Nowhere EXCEPT !.name = q.flags.router], e, ssh)
              user == Or(e.user, SplitTarget(e.target).user)
              port == OrPort(e.port, SplitTarget(e.target).port)
  <2>1. \A ssh : /\ user # Nil => Named(ssh).user = user
                 /\ port # 0 => Named(ssh).port = port
                 /\ e.key # Nil => Named(ssh).key = e.key
    BY DEF Fill, Endpoint, Or, OrPort
  <2>2. \A ssh : DOMAIN Named(ssh) = {"name", "host", "user", "port", "key", "known"}
    BY DEF Fill, Endpoint
  <2>3. q.flags.router # Nil
    BY DEF EndpointFor, EndpointOf
  <2>4. \A ssh : Resolve(q.flags.router, q.yaml, ssh) = Named(ssh)
    BY DEF Resolve
  <2>. HIDE DEF Named
  <2>5. \A ssh : EndpointOf(q.flags, q.yaml, ssh) \in {Nil, [Named(ssh) EXCEPT !.key = Or(q.flags.key, @)]}
    BY <2>3, <2>4 DEF EndpointOf, Override, Or
  <2>. DEFINE Flagged(ssh) == [Named(ssh) EXCEPT !.key = Or(q.flags.key, @)]
  <2>6. \A ssh : /\ user # Nil => Flagged(ssh).user = user
                 /\ port # 0 => Flagged(ssh).port = port
                 /\ e.key # Nil => Flagged(ssh).key = Or(q.flags.key, e.key)
    BY <2>1, <2>2
  <2>7. EndpointFor(q) = Flagged(q.ssh) /\ EndpointOf(q.flags, q.yaml, Nil) = Flagged(Nil)
    BY <2>5 DEF EndpointFor
  <2>8. /\ e.user # Nil \/ SplitTarget(e.target).user # Nil => user # Nil
        /\ e.port # 0 \/ SplitTarget(e.target).port # 0 => port # 0
    BY DEF Or, OrPort
  <2>. HIDE DEF Flagged, user, port
  <2>. QED
    BY <2>6, <2>7, <2>8
<1>. QED
  BY <1>1, PTL

-----------------------------------------------------------------------------
(* Host keys *)

\* A key that is not on file while others are is refused, with AcceptNewHostKey and
\* without, for any number of commands that read and write known_hosts at once.
THEOREM MismatchFatalAlways == Spec => MismatchFatal
<1>1. CommandsInv /\ [Next]_vars =>
        [\A p \in Process : step[p] = "handshake" /\ step'[p] = "up" /\ ~raced[p] =>
            \/ Of(known, dial[p].server) = {}
            \/ \E l \in Of(known, dial[p].server) : l.key = keys[l.server][l.type]]_khVars
  <2>. SUFFICES ASSUME CommandsInv, [Next]_vars, NEW p \in Process,
                       step[p] = "handshake", step'[p] = "up", ~raced[p]
                PROVE  \/ Of(known, dial[p].server) = {}
                       \/ \E l \in Of(known, dial[p].server) : l.key = keys[l.server][l.type]
    OBVIOUS
  <2>0. KnownHostsTypeOK /\ Of(base[p], dial[p].server) = Of(known, dial[p].server)
    BY DEF CommandsInv, DeskTypeOK, CallbackInv
  <2>1. PICK t \in KeyType : Handshake(p, t)
    <3>1. ASSUME UNCHANGED vars
          PROVE  FALSE
      BY <3>1 DEF vars, khVars
    <3>2. ASSUME NEW d \in Process, NEW q \in Request, Type(d, q)
          PROVE  FALSE
      BY <2>0, <3>2 DEF Type, Goto, KnownHostsTypeOK
    <3>3. ASSUME NEW d \in Process, ResolveFlags(d)
          PROVE  FALSE
      BY <2>0, <3>3 DEF ResolveFlags, Begin, Goto, KnownHostsTypeOK
    <3>4. ASSUME NEW d \in Process, Exit(d) \/ Die(d)
          PROVE  FALSE
      BY <2>0, <3>4 DEF Exit, Die, End, Forgotten, Goto, KnownHostsTypeOK
    <3>5. ASSUME NEW d \in Process, \/ Call(d) \/ Close(d)
                                    \/ \E r \in Sess!Reply, router \in Text \cup {Absent}, local \in Text :
                                            Diff(d, r, router, local)
          PROVE  FALSE
      BY <3>5 DEF Call, Close, Diff, khVars
    <3>6. ASSUME Others
          PROVE  FALSE
      BY <3>6 DEF Others, Outside, OtherProgram, Reinstall
    <3>7. PICK d \in Process : Dialling(d)
      <4>1. \E d \in Process : Dial(d)
        BY <3>1, <3>2, <3>3, <3>4, <3>5, <3>6 DEF Next
      <4>. QED
        BY <4>1 DEF Dial
    <3>8. \/ \E ok \in BOOLEAN : MakeCallback(d, ok) \/ Connect(d, ok)
          \/ ReadAlgorithms(d) \/ HandshakeFails(d) \/ \E t \in KeyType : TrustInVain(d, t)
          => step'[p] # "up"
      BY <2>0 DEF MakeCallback, Connect, ReadAlgorithms, HandshakeFails, TrustInVain, Goto, KnownHostsTypeOK
    <3>9. \A t \in KeyType : Handshake(d, t) => d = p
      BY <2>0, HandshakeCases DEF KnownHostsTypeOK
    <3>. QED
      BY <3>7, <3>8, <3>9 DEF Dialling
  <2>2. \/ \E l \in Of(base[p], dial[p].server) : l.type = t /\ l.key = keys[dial[p].server][t]
        \/ Of(base[p], dial[p].server) = {}
    <3>1. step' # [step EXCEPT ![p] = "mismatch"] /\ step' # [step EXCEPT ![p] = "unknown"]
      BY <2>0 DEF KnownHostsTypeOK
    <3>. QED
      BY <2>0, <2>1, <3>1, HandshakeCases
  <2>. QED
    BY <2>0, <2>2 DEF Of
<1>. QED
  BY <1>1, CommandsInductive, PTL DEF Spec, MismatchFatal

\* Servers of a host are at one port and names are not hashed: what the key types on
\* file are taken from is what the callback judges by.
Plain == (\A s \in Server : PortTwentyTwo[s] = s) /\ Hashes \subseteq {FALSE}

RealInv == AlgorithmsInv /\ MismatchReal

\* A step that does not concern p, or takes it where nothing is claimed.
LEMMA RealSpared ==
    ASSUME KnownHostsTypeOK, RealInv, NEW p \in Process,
           reinstalls' \in Nat, reinstalls' >= reinstalls, reinstalls' = reinstalls => keys' = keys,
           raced[p] => raced'[p],
           \/ step'[p] = step[p] /\ dial'[p] = dial[p] /\ base'[p] = base[p] /\ types'[p] = types[p]
           \/ step'[p] \notin {"tcp", "handshake", "mismatch"}
    PROVE  /\ step'[p] \in {"tcp", "handshake"} /\ dial'[p].explicit /\ ~raced'[p] =>
                types'[p] = {l.type : l \in Of(base'[p], dial'[p].server)}
           /\ step'[p] = "mismatch" /\ dial'[p].explicit /\ ~raced'[p] =>
                reinstalls' > 0 \/ \E l \in Of(base'[p], dial'[p].server) : l.key # keys'[l.server][l.type]
<1>1. reinstalls' = reinstalls \/ reinstalls' > 0
  BY DEF KnownHostsTypeOK
<1>. QED
  BY <1>1 DEF RealInv, AlgorithmsInv, MismatchReal, KnownHostsTypeOK

LEMMA RealDialling ==
    ASSUME Plain, KnownHostsTypeOK, CallbackInv, RealInv, NEW p \in Process, Dialling(p)
    PROVE  RealInv'
<1>1. ASSUME NEW ok \in BOOLEAN, MakeCallback(p, ok)
      PROVE  RealInv'
  BY <1>1 DEF MakeCallback, Goto, RealInv, AlgorithmsInv, MismatchReal, KnownHostsTypeOK
<1>2. ASSUME NEW ok \in BOOLEAN, Connect(p, ok)
      PROVE  RealInv'
  BY <1>2 DEF Connect, Goto, dialVars, RealInv, AlgorithmsInv, MismatchReal, KnownHostsTypeOK
<1>3. CASE HandshakeFails(p)
  BY <1>3 DEF HandshakeFails, Goto, dialVars, RealInv, AlgorithmsInv, MismatchReal, KnownHostsTypeOK
<1>4. CASE ReadAlgorithms(p)
  <2>. DEFINE s == dial[p].server
              found == IF dial[p].explicit THEN Algorithms(known, s) ELSE {}
  <2>1. /\ step[p] = "algorithms" /\ step' = [step EXCEPT ![p] = "tcp"] /\ types' = [types EXCEPT ![p] = found]
        /\ keys' = keys /\ dial' = dial /\ base' = base /\ reinstalls' = reinstalls /\ raced' = raced
    BY <1>4 DEF ReadAlgorithms, Goto
  <2>2. Algorithms(known, s) = {l.type : l \in Of(known, s)}
    <3>1. s \in Server /\ PortTwentyTwo[s] = s /\ \A l \in known : ~l.hashed
      BY DEF KnownHostsTypeOK, Plain, Line
    <3>2. {l \in known : ~l.hashed /\ l.server \in {s, PortTwentyTwo[s]}} = Of(known, s)
      BY <3>1 DEF Of
    <3>. QED
      BY <3>2 DEF Algorithms
  <2>3. dial[p].explicit /\ ~raced[p] => found = {l.type : l \in Of(base[p], s)}
    BY <2>1, <2>2 DEF CallbackInv
  <2>. HIDE DEF found
  <2>. QED
    BY <2>1, <2>3 DEF RealInv, AlgorithmsInv, MismatchReal, KnownHostsTypeOK
<1>5. ASSUME NEW t \in KeyType, Handshake(p, t)
      PROVE  RealInv'
  <2>. DEFINE s == dial[p].server
              lines == Of(base[p], s)
  <2>1. CASE step'[p] # "mismatch"
    <3>1. \A q \in Process :
            /\ reinstalls' = reinstalls /\ keys' = keys
            /\ raced[q] => raced'[q]
            /\ \/ step'[q] = step[q] /\ dial'[q] = dial[q] /\ base'[q] = base[q] /\ types'[q] = types[q]
               \/ step'[q] \notin {"tcp", "handshake", "mismatch"}
      BY <1>5, <2>1, HandshakeCases DEF KnownHostsTypeOK
    <3>2. reinstalls' \in Nat /\ reinstalls' >= reinstalls
      BY <3>1, HandshakeCases, <1>5 DEF KnownHostsTypeOK
    <3>. QED
      BY <3>1, <3>2, RealSpared DEF RealInv, AlgorithmsInv, MismatchReal
  <2>2. CASE step'[p] = "mismatch"
    <3>1. /\ step[p] = "handshake" /\ t \in Offered(p) /\ keys' = keys /\ reinstalls' = reinstalls
          /\ lines # {} /\ ~ \E l \in lines : l.type = t /\ l.key = keys[s][t]
          /\ step' = [step EXCEPT ![p] = "mismatch"]
          /\ raced' = raced /\ dial' = dial /\ base' = base /\ types' = types
      BY <1>5, <2>2, HandshakeCases DEF KnownHostsTypeOK
    <3>2. dial[p].explicit /\ ~raced[p] => \E l \in lines : l.key # keys[l.server][l.type]
      <4>. SUFFICES ASSUME dial[p].explicit, ~raced[p] PROVE \E l \in lines : l.key # keys[l.server][l.type]
        OBVIOUS
      <4>1. types[p] = {l.type : l \in lines}
        BY <3>1 DEF RealInv, AlgorithmsInv
      <4>2. PICK l \in lines : l.type = t
        BY <3>1, <4>1 DEF Offered
      <4>. QED
        BY <3>1, <4>2 DEF Of
    <3>. QED
      BY <3>1, <3>2 DEF RealInv, AlgorithmsInv, MismatchReal, KnownHostsTypeOK
  <2>. QED
    BY <2>1, <2>2
<1>6. ASSUME NEW t \in KeyType, TrustInVain(p, t)
      PROVE  RealInv'
  <2>1. \A q \in Process :
          /\ reinstalls' = reinstalls /\ keys' = keys
          /\ raced[q] => raced'[q]
          /\ \/ step'[q] = step[q] /\ dial'[q] = dial[q] /\ base'[q] = base[q] /\ types'[q] = types[q]
             \/ step'[q] \notin {"tcp", "handshake", "mismatch"}
    BY <1>6 DEF TrustInVain, Trust, Goto, KnownHostsTypeOK
  <2>2. reinstalls' \in Nat /\ reinstalls' >= reinstalls
    BY <2>1, <1>6 DEF TrustInVain, KnownHostsTypeOK
  <2>. QED
    BY <2>1, <2>2, RealSpared DEF RealInv, AlgorithmsInv, MismatchReal
<1>. QED
  BY <1>1, <1>2, <1>3, <1>4, <1>5, <1>6 DEF Dialling

\* A command that names its known_hosts file is refused for a mismatch only when one
\* of the keys on file is not the server's (any more): no key type is asked for that
\* the file does not have.
THEOREM MismatchRealAlways ==
    ASSUME Plain
    PROVE  Spec => []MismatchReal
<1>1. Init => RealInv
  BY DEF Init, KInit, RealInv, AlgorithmsInv, MismatchReal
<1>2. CommandsInv /\ RealInv /\ [Next]_vars => RealInv'
  <2>. SUFFICES ASSUME CommandsInv, RealInv, [Next]_vars PROVE RealInv'
    OBVIOUS
  <2>0. KnownHostsTypeOK /\ CallbackInv /\ reinstalls \in Nat
    BY DEF CommandsInv, DeskTypeOK, KnownHostsTypeOK
  <2>1. ASSUME UNCHANGED khVars
        PROVE  RealInv'
    BY <2>1 DEF khVars, dialVars, RealInv, AlgorithmsInv, MismatchReal
  <2>2. ASSUME NEW p \in Process, NEW q \in Request, Type(p, q)
        PROVE  RealInv'
    BY <2>0, <2>2 DEF Type, Goto, dialVars, RealInv, AlgorithmsInv, MismatchReal, KnownHostsTypeOK
  <2>3. ASSUME NEW p \in Process, ResolveFlags(p)
        PROVE  RealInv'
    <3>1. \A q \in Process :
            /\ reinstalls' = reinstalls /\ keys' = keys /\ raced'[q] = raced[q]
            /\ \/ step'[q] = step[q] /\ dial'[q] = dial[q] /\ base'[q] = base[q] /\ types'[q] = types[q]
               \/ step'[q] \notin {"tcp", "handshake", "mismatch"}
      BY <2>0, <2>3 DEF ResolveFlags, Begin, Goto, dialVars, KnownHostsTypeOK
    <3>2. reinstalls' \in Nat /\ reinstalls' >= reinstalls
      BY <2>0, <2>3 DEF ResolveFlags, Begin
    <3>. QED
      BY <2>0, <3>1, <3>2, RealSpared DEF RealInv, AlgorithmsInv, MismatchReal
  <2>4. ASSUME NEW p \in Process, Exit(p) \/ Die(p)
        PROVE  RealInv'
    <3>1. Forgotten(p)
      BY <2>4 DEF Exit, Die, End
    <3>. QED
      BY <2>0, <3>1 DEF Forgotten, Goto, RealInv, AlgorithmsInv, MismatchReal, KnownHostsTypeOK
  <2>5. CASE Others
    <3>1. \A q \in Process :
            /\ reinstalls' \in Nat /\ reinstalls' >= reinstalls
            /\ (reinstalls' = reinstalls => keys' = keys) /\ (raced[q] => raced'[q])
            /\ step'[q] = step[q] /\ dial'[q] = dial[q] /\ base'[q] = base[q] /\ types'[q] = types[q]
      <4>1. ASSUME NEW l \in Line, OtherProgram(l)
            PROVE  /\ reinstalls' = reinstalls /\ keys' = keys /\ UNCHANGED <<step, dial, base, types>>
                   /\ \A q \in Process : raced[q] => raced'[q]
        BY <4>1 DEF OtherProgram
      <4>2. ASSUME NEW s \in Server, NEW k \in Key, Reinstall(s, k)
            PROVE  reinstalls' = reinstalls + 1 /\ UNCHANGED <<step, dialVars>>
        BY <4>2 DEF Reinstall
      <4>. QED
        BY <2>0, <2>5, <4>1, <4>2 DEF Others, Outside, dialVars
    <3>. QED
      BY <2>0, <3>1, RealSpared DEF RealInv, AlgorithmsInv, MismatchReal
  <2>6. ASSUME NEW p \in Process, Dial(p)
        PROVE  RealInv'
    BY <2>0, <2>6, RealDialling DEF Dial
  <2>7. ASSUME NEW p \in Process, \/ Call(p) \/ Close(p)
                                  \/ \E r \in Sess!Reply, router \in Text \cup {Absent}, local \in Text :
                                          Diff(p, r, router, local)
        PROVE  UNCHANGED khVars
    BY <2>7 DEF Call, Close, Diff
  <2>8. CASE UNCHANGED vars
    BY <2>1, <2>8 DEF vars
  <2>. QED
    BY <2>1, <2>2, <2>3, <2>4, <2>5, <2>6, <2>7, <2>8 DEF Next
<1>3. RealInv => MismatchReal
  BY DEF RealInv
<1>. QED
  BY <1>1, <1>2, <1>3, CommandsInductive, PTL DEF Spec

-----------------------------------------------------------------------------
(* Uploads *)

\* Of all that a client relies on, from the first command to the last.
THEOREM SessionAlways ==
    ASSUME Alone
    PROVE  Spec => [](Sess!SessionTypeOK /\ Sess!SessionInv)
<1>1. Init => Sess!SessionTypeOK /\ Sess!SessionInv
  BY SessionStarts DEF Init
<1>2. CommandsInv /\ Sess!SessionTypeOK /\ Sess!SessionInv /\ [Next]_vars => (Sess!SessionTypeOK /\ Sess!SessionInv)'
  <2>. SUFFICES ASSUME CommandsInv, Sess!SessionTypeOK, Sess!SessionInv, [Next]_vars
                PROVE  Sess!SessionTypeOK' /\ Sess!SessionInv'
    OBVIOUS
  <2>1. ASSUME UNCHANGED callVars
        PROVE  Sess!SessionTypeOK' /\ Sess!SessionInv'
    <3>1. Sess!SessionTypeOK' /\ \A d \in Process : Spared(d)
      BY <2>1 DEF callVars, Sess!SessionTypeOK, Spared
    <3>. QED
      BY <3>1, SparedKeeps DEF Sess!SessionInv, Mine
  <2>2. ASSUME NEW p \in Process, NEW q \in Request, Type(p, q)
        PROVE  UNCHANGED callVars
    BY <2>2 DEF Type
  <2>3. ASSUME NEW p \in Process, ResolveFlags(p)
        PROVE  UNCHANGED callVars
    BY <2>3 DEF ResolveFlags
  <2>4. ASSUME NEW p \in Process, Exit(p) \/ Die(p)
        PROVE  Sess!SessionTypeOK' /\ Sess!SessionInv'
    BY <2>4, GoneKeeps DEF Exit, Die, End
  <2>5. ASSUME NEW p \in Process, Dial(p)
        PROVE  Sess!SessionTypeOK' /\ Sess!SessionInv'
    BY <2>5, DialKeeps DEF CommandsInv
  <2>6. ASSUME NEW p \in Process, Call(p)
        PROVE  Sess!SessionTypeOK' /\ Sess!SessionInv'
    BY <2>6, CallKeeps DEF Call
  <2>7. ASSUME NEW p \in Process, Close(p)
        PROVE  Sess!SessionTypeOK' /\ Sess!SessionInv'
    BY <2>7, CloseKeeps DEF Close
  <2>8. ASSUME NEW p \in Process, NEW r \in Sess!Reply, NEW router \in Text \cup {Absent}, NEW local \in Text,
               Diff(p, r, router, local)
        PROVE  Sess!SessionTypeOK' /\ Sess!SessionInv'
    BY <2>8, DiffKeeps
  <2>9. Others \/ UNCHANGED vars => UNCHANGED callVars
    BY DEF Others, vars
  <2>. QED
    BY <2>1, <2>2, <2>3, <2>4, <2>5, <2>6, <2>7, <2>8, <2>9 DEF Next
<1>. QED
  BY <1>1, <1>2, CommandsInductive, PTL DEF Spec

\* A half-written file never shadows the target, whichever request fails and wherever
\* the connection or the process is lost, for clients that share no path.
THEOREM TargetWholeAlways ==
    ASSUME Alone
    PROVE  Spec => []TargetWhole
<1>1. Sess!SessionInv => TargetWhole
  <2>. SUFFICES ASSUME Sess!SessionInv, NEW t \in Sess!Target, at[<<t, "file">>] # Absent
                PROVE  file[at[<<t, "file">>]].content # Torn /\ file[at[<<t, "file">>]].moded
    BY DEF TargetWhole, Sess!TargetWhole
  <2>1. PICK c \in Process : <<t, "file">> = Sess!File(c)
    BY DEF Sess!Target, Sess!File
  <2>. QED
    BY <2>1 DEF Sess!SessionInv, Sess!FilesInv
<1>. QED
  BY <1>1, SessionAlways, PTL

\* What Remote.tla lets an upload do is all it does, its error included: the uploads
\* that Apply is proved with are those of the client.
THEOREM UploadAsAssumedAlways ==
    ASSUME Alone
    PROVE  Spec => []UploadAsAssumed
<1>1. Sess!SessionInv => UploadAsAssumed
  <2>. SUFFICES ASSUME Sess!SessionInv, NEW c \in Process, op[c] \in {"uploaded", "not uploaded"}
                PROVE  \E r \in Sess!Replies("up") :
                            /\ r.err = (op[c] = "not uploaded")
                            /\ Sess!Held(Sess!File(c)) = Sess!Uploaded(r.eff, c, was[c])
    BY DEF UploadAsAssumed, Sess!UploadAsAssumed
  <2>. DEFINE Answer(err, eff) == [err |-> err, eff |-> eff, conn |-> "up"]
  <2>1. /\ Answer(FALSE, "all") \in Sess!Replies("up")
        /\ \A eff \in {"none", "part", "all"} : Answer(TRUE, eff) \in Sess!Replies("up")
    BY DEF Sess!Replies, Sess!Reply, Sess!Effect, Sess!Conn
  <2>2. /\ Sess!Uploaded("none", c, was[c]) = was[c]
        /\ Sess!Uploaded("part", c, was[c]) = Absent
        /\ Sess!Uploaded("all", c, was[c]) = c
    BY DEF Sess!Uploaded
  <2>3. CASE op[c] = "uploaded"
    BY <2>1, <2>2, <2>3 DEF Sess!SessionInv, Sess!UploadInv
  <2>4. CASE op[c] = "not uploaded"
    <3>1. PICK eff \in {"none", "part", "all"} : Sess!Held(Sess!File(c)) = Sess!Uploaded(eff, c, was[c])
      BY <2>2, <2>4 DEF Sess!SessionInv, Sess!UploadInv
    <3>. QED
      BY <2>1, <2>4, <3>1
  <2>. QED
    BY <2>3, <2>4
<1>. QED
  BY <1>1, SessionAlways, PTL

-----------------------------------------------------------------------------
(* The diff of a file *)

\* A set of numbers up to some bound has a largest one.
LEMMA LargestIsThere ==
    ASSUME NEW n \in Nat, NEW set \in SUBSET (0..n), set # {}
    PROVE  Largest(set) \in set /\ \A m \in set : m <= Largest(set)
<1>. DEFINE gaps == {n - m : m \in set}
            less == OpToRel(<, Nat)
<1>1. \A m \in set : m \in Nat /\ m <= n /\ n - m \in Nat
  OBVIOUS
<1>2. gaps \subseteq Nat /\ gaps # {}
  BY <1>1
<1>3. IsWellFoundedOn(less, Nat)
  BY NatLessThanWellFounded, Zenon
<1>4. \A x, y \in Nat : <<y, x>> \in less <=> y < x
  BY DEF OpToRel
<1>. HIDE DEF gaps, less
<1>5. PICK g \in gaps : \A h \in gaps : ~(<<h, g>> \in less)
  BY <1>2, <1>3, WFMin
<1>. USE DEF gaps
<1>6. PICK k \in set : g = n - k
  BY <1>5
<1>7. \A m \in set : m <= k
  <2>. SUFFICES ASSUME NEW m \in set PROVE m <= k
    OBVIOUS
  <2>1. n - m \in gaps /\ n - m \in Nat /\ g \in Nat
    BY <1>1, <1>6
  <2>2. ~(n - m < g)
    BY <2>1, <1>4, <1>5
  <2>. QED
    BY <1>1, <1>6, <2>2
<1>. QED
  BY <1>6, <1>7 DEF Largest

\* The i-th to the j-th line, i not included.
Part(s, i, j) == SubSeq(s, i + 1, j)

LEMMA PartProperties ==
    ASSUME NEW S, NEW s \in Seq(S), NEW i \in 0..Len(s), NEW j \in i..Len(s)
    PROVE  /\ Part(s, i, j) \in Seq(S) /\ Len(Part(s, i, j)) = j - i
           /\ \A k \in 1..j - i : Part(s, i, j)[k] = s[i + k]
<1>1. Len(s) \in Nat /\ \A k \in i + 1..j : s[k] \in S
  OBVIOUS
<1>2. /\ SubSeq(s, i + 1, j) \in Seq(S)
      /\ Len(SubSeq(s, i + 1, j)) = IF i + 1 <= j THEN j - (i + 1) + 1 ELSE 0
      /\ \A k \in 1..j - (i + 1) + 1 : SubSeq(s, i + 1, j)[k] = s[i + 1 + k - 1]
  <2>1. i + 1 \in Int /\ j \in Int
    OBVIOUS
  <2>. QED
    BY <1>1, <2>1, SubSeqProperties
<1>. QED
  BY <1>2 DEF Part

\* Two adjacent parts make one.
LEMMA PartsJoin ==
    ASSUME NEW S, NEW s \in Seq(S), NEW i \in 0..Len(s), NEW j \in i..Len(s), NEW k \in j..Len(s)
    PROVE  Part(s, i, j) \o Part(s, j, k) = Part(s, i, k)
<1>. DEFINE x == Part(s, i, j)
            y == Part(s, j, k)
            z == Part(s, i, k)
            c == x \o y
<1>0. Len(s) \in Nat /\ i \in Nat /\ j \in Nat /\ k \in Nat
  OBVIOUS
<1>1. x \in Seq(S) /\ Len(x) = j - i /\ \A m \in 1..j - i : x[m] = s[i + m]
  BY PartProperties
<1>2. y \in Seq(S) /\ Len(y) = k - j /\ \A m \in 1..k - j : y[m] = s[j + m]
  BY <1>0, PartProperties
<1>3. z \in Seq(S) /\ Len(z) = k - i /\ \A m \in 1..k - i : z[m] = s[i + m]
  <2>1. k \in i..Len(s)
    BY <1>0
  <2>. QED
    BY <2>1, PartProperties
<1>. HIDE DEF x, y, z
<1>4. /\ c \in Seq(S) /\ Len(c) = Len(x) + Len(y)
      /\ \A m \in 1..Len(x) + Len(y) : c[m] = IF m <= Len(x) THEN x[m] ELSE y[m - Len(x)]
  BY <1>1, <1>2, ConcatProperties, Zenon
<1>. HIDE DEF c
<1>5. \A m \in 1..Len(c) : c[m] = z[m]
  <2>. SUFFICES ASSUME NEW m \in 1..Len(c) PROVE c[m] = z[m]
    OBVIOUS
  <2>1. Len(x) \in Nat /\ Len(y) \in Nat /\ m \in 1..Len(x) + Len(y) /\ m \in Nat /\ m \in 1..k - i
    BY <1>0, <1>1, <1>2, <1>4
  <2>2. z[m] = s[i + m]
    BY <1>3, <2>1
  <2>5. c[m] = IF m <= Len(x) THEN x[m] ELSE y[m - Len(x)]
    BY <1>4, <2>1
  <2>3. CASE m <= Len(x)
    <3>1. m \in 1..j - i
      BY <1>0, <1>1, <2>1, <2>3
    <3>2. x[m] = s[i + m]
      BY <1>1, <3>1
    <3>. QED
      BY ONLY <2>2, <2>3, <2>5, <3>2
  <2>4. CASE ~(m <= Len(x))
    <3>1. m - Len(x) \in 1..k - j /\ j + (m - Len(x)) = i + m
      BY <1>0, <1>1, <1>2, <2>1, <2>4
    <3>2. y[m - Len(x)] = s[i + m]
      BY <1>2, <3>1
    <3>3. c[m] = y[m - Len(x)]
      BY <2>4, <2>5
    <3>. QED
      BY <2>2, <3>2, <3>3
  <2>. QED
    BY <2>3, <2>4
<1>6. Len(c) = Len(z)
  BY <1>0, <1>1, <1>2, <1>3, <1>4
<1>7. c = z
  BY <1>3, <1>4, <1>5, <1>6, SeqEqual
<1>. QED
  BY <1>7 DEF c, x, y, z

\* Parts with the same lines are the same.
SameLines(s, i, t, j, n) == \A k \in 1..n : s[i + k] = t[j + k]

LEMMA PartsEqual ==
    ASSUME NEW S, NEW s \in Seq(S), NEW t \in Seq(S),
           NEW i \in 0..Len(s), NEW e \in i..Len(s), NEW j \in 0..Len(t), NEW f \in j..Len(t),
           NEW n, n = e - i, n = f - j, SameLines(s, i, t, j, n)
    PROVE  Part(s, i, e) = Part(t, j, f)
<1>. DEFINE x == Part(s, i, e)
            y == Part(t, j, f)
<1>1. x \in Seq(S) /\ Len(x) = e - i /\ \A k \in 1..e - i : x[k] = s[i + k]
  BY PartProperties
<1>2. y \in Seq(S) /\ Len(y) = f - j /\ \A k \in 1..f - j : y[k] = t[j + k]
  BY PartProperties
<1>. HIDE DEF x, y
<1>3. x = y
  BY <1>1, <1>2, SeqEqual DEF SameLines
<1>. QED
  BY <1>3 DEF x, y

\* The last line that is not blank.
LEMMA TrimEndProperties ==
    ASSUME NEW S, NEW s \in Seq(S), NEW a, a = TrimEnd(s)
    PROVE  /\ a \in Seq(S) /\ Len(a) \in 0..Len(s) /\ \A i \in 1..Len(a) : a[i] = s[i]
           /\ Len(a) # 0 => s[Len(a)].says # ""
           /\ \A i \in 1..Len(s) : i > Len(a) => s[i].says = ""
<1>. DEFINE l == Len(s)
            Speaks(i) == s[i].says # ""
            set == {0} \cup {i \in 1..l : Speaks(i)}
            n == Largest(set)
<1>1. l \in Nat
  OBVIOUS
<1>2. set \in SUBSET (0..l)
  <2>1. 1..l \subseteq 0..l /\ 0 \in 0..l
    BY <1>1
  <2>. QED
    BY <2>1
<1>3. 0 \in set
  OBVIOUS
<1>. HIDE DEF Speaks
<1>4. \A i \in 1..l : Speaks(i) => i \in set
  BY <1>1
<1>5. \A i \in set : i # 0 => i \in 1..l /\ Speaks(i)
  OBVIOUS
<1>. HIDE DEF set
<1>6. n \in set /\ \A m \in set : m <= n
  BY <1>1, <1>2, <1>3, LargestIsThere
<1>7. TrimEnd(s) = SubSeq(s, 1, n)
  BY Zenon DEF TrimEnd, set, Speaks
<1>. HIDE DEF n, l
<1>8. n \in 0..l /\ (n # 0 => Speaks(n))
  BY <1>1, <1>2, <1>5, <1>6
<1>9. \A i \in 1..l : i > n => ~Speaks(i)
  BY <1>1, <1>4, <1>6, <1>8
<1>10. a \in Seq(S) /\ Len(a) = n - 0 /\ \A k \in 1..n - 0 : a[k] = s[0 + k]
  <2>1. 0 \in 0..l /\ n \in 0..l /\ 0 + 1 = 1
    BY <1>1, <1>8
  <2>2. a = Part(s, 0, n)
    BY <1>7, <2>1 DEF Part
  <2>. DEFINE x == Part(s, 0, n)
  <2>3. x \in Seq(S) /\ Len(x) = n - 0 /\ \A k \in 1..n - 0 : x[k] = s[0 + k]
    BY <2>1, PartProperties DEF l
  <2>. QED
    BY <2>2, <2>3
<1>11. Len(a) = n /\ \A k \in 1..n : a[k] = s[k]
  BY <1>1, <1>8, <1>10
<1>. QED
  BY <1>1, <1>8, <1>9, <1>10, <1>11 DEF l, Speaks

\* All the lines.
LEMMA WholePart ==
    ASSUME NEW S, NEW s \in Seq(S)
    PROVE  Part(s, 0, Len(s)) = s
<1>. DEFINE l == Len(s)
            x == Part(s, 0, l)
<1>1. 0 \in 0..l /\ l \in 0..l /\ l \in Nat
  OBVIOUS
<1>2. x \in Seq(S) /\ Len(x) = l - 0 /\ \A k \in 1..l - 0 : x[k] = s[0 + k]
  BY <1>1, PartProperties
<1>. HIDE DEF x, l
<1>3. Len(x) = l /\ \A k \in 1..l : x[k] = s[k]
  BY <1>1, <1>2
<1>4. x = s
  BY <1>2, <1>3, SeqEqual DEF l
<1>. QED
  BY <1>4 DEF x, l

LEMMA LeastProperties ==
    ASSUME NEW m \in Nat, NEW n \in Nat
    PROVE  Least(m, n) \in Nat /\ Least(m, n) <= m /\ Least(m, n) <= n
BY DEF Least

LEMMA PrefixProperties ==
    ASSUME NEW S, NEW a \in Seq(S), NEW b \in Seq(S), NEW p, p = CommonPrefix(a, b)
    PROVE  /\ p \in 0..Len(a) /\ p \in 0..Len(b)
           /\ \A i \in 1..p : a[i] = b[i]
<1>. DEFINE l == Least(Len(a), Len(b))
            set == {n \in 0..l : SubSeq(a, 1, n) = SubSeq(b, 1, n)}
<1>1. Len(a) \in Nat /\ Len(b) \in Nat
  OBVIOUS
<1>2. l \in Nat /\ l <= Len(a) /\ l <= Len(b)
  BY <1>1, LeastProperties
<1>3. \A n \in 0..l : n \in 0..Len(a) /\ n \in 0..Len(b) /\ 0 \in 0..Len(a) /\ 0 \in 0..Len(b)
  BY <1>1, <1>2
<1>. HIDE DEF l
<1>4. \A n \in 0..l : SubSeq(a, 1, n) = Part(a, 0, n) /\ SubSeq(b, 1, n) = Part(b, 0, n)
  BY DEF Part
<1>5. 0 \in set
  <2>1. Part(a, 0, 0) = Part(b, 0, 0)
    <3>1. 0 \in 0..0 /\ 0 \in 0..Len(a) /\ 0 \in 0..Len(b) /\ SameLines(a, 0, b, 0, 0 - 0)
      BY <1>1 DEF SameLines
    <3>. QED
      BY <3>1, PartsEqual
  <2>2. 0 \in 0..l
    BY <1>2
  <2>. QED
    BY <1>4, <2>1, <2>2
<1>6. set \in SUBSET (0..l) /\ set # {}
  BY <1>5
<1>7. Largest(set) \in set
  BY <1>2, <1>6, LargestIsThere
<1>8. p = Largest(set)
  BY DEF CommonPrefix, l
<1>9. p \in 0..l /\ SubSeq(a, 1, p) = SubSeq(b, 1, p)
  BY <1>7, <1>8
<1>10. p \in 0..Len(a) /\ p \in 0..Len(b) /\ Part(a, 0, p) = Part(b, 0, p) /\ p - 0 = p
  <2>1. p \in 0..Len(a) /\ p \in 0..Len(b) /\ p - 0 = p
    BY <1>2, <1>3, <1>9
  <2>. QED
    BY <1>4, <1>9, <2>1
<1>11. \A i \in 1..p - 0 : Part(a, 0, p)[i] = a[0 + i]
  BY <1>3, <1>9, PartProperties
<1>12. \A i \in 1..p - 0 : Part(b, 0, p)[i] = b[0 + i]
  BY <1>3, <1>9, PartProperties
<1>13. \A i \in 1..p : 0 + i = i
  BY <1>10
<1>. QED
  BY <1>10, <1>11, <1>12, <1>13

\* The last n lines of two texts agree, and the first p are not among them.
SameTail(a, b, p, n) ==
    /\ n \in 0..Len(a) - p /\ n \in 0..Len(b) - p
    /\ \A i \in 1..n : a[Len(a) - n + i] = b[Len(b) - n + i]

LEMMA SuffixProperties ==
    ASSUME NEW S, NEW a \in Seq(S), NEW b \in Seq(S), NEW p, p \in 0..Len(a), p \in 0..Len(b),
           NEW n, n = CommonSuffix(a, b, p)
    PROVE  SameTail(a, b, p, n)
<1>. DEFINE la == Len(a)
            lb == Len(b)
            l == Least(la - p, lb - p)
            set == {m \in 0..l : Suffix(a, m) = Suffix(b, m)}
<1>1. la \in Nat /\ lb \in Nat /\ la - p \in Nat /\ lb - p \in Nat
  OBVIOUS
<1>2. l \in Nat /\ l <= la - p /\ l <= lb - p
  BY <1>1, LeastProperties
<1>. HIDE DEF l
<1>3. \A m \in 0..l : /\ m \in 0..la - p /\ m \in 0..lb - p
                      /\ la - m \in 0..la /\ lb - m \in 0..lb /\ la \in la - m..la /\ lb \in lb - m..lb
                      /\ la - (la - m) = m /\ lb - (lb - m) = m
  BY <1>1, <1>2
<1>4. \A m \in 0..l : Suffix(a, m) = Part(a, la - m, la) /\ Suffix(b, m) = Part(b, lb - m, lb)
  BY DEF Suffix, Part
<1>5. 0 \in set
  <2>1. Part(a, la, la) = Part(b, lb, lb)
    <3>1. la \in la..la /\ lb \in lb..lb /\ la \in 0..la /\ lb \in 0..lb /\ la - la = lb - lb
      BY <1>1
    <3>2. SameLines(a, la, b, lb, la - la)
      BY <1>1 DEF SameLines
    <3>. QED
      BY <3>1, <3>2, PartsEqual
  <2>2. 0 \in 0..l /\ la - 0 = la /\ lb - 0 = lb
    BY <1>1, <1>2
  <2>3. Suffix(a, 0) = Suffix(b, 0)
    BY <1>4, <2>1, <2>2
  <2>. QED
    BY <2>2, <2>3
<1>6. set \in SUBSET (0..l) /\ set # {}
  BY <1>5
<1>7. Largest(set) \in set
  BY <1>2, <1>6, LargestIsThere
<1>8. n = Largest(set)
  BY DEF CommonSuffix, l
<1>9. n \in 0..l /\ Suffix(a, n) = Suffix(b, n)
  BY <1>7, <1>8
<1>. DEFINE i == la - n
            j == lb - n
<1>10. i \in 0..la /\ j \in 0..lb /\ la \in i..la /\ lb \in j..lb /\ la - i = n /\ lb - j = n
  BY <1>3, <1>9
<1>11. Part(a, i, la) = Part(b, j, lb)
  BY <1>4, <1>9
<1>. HIDE DEF i, j
<1>12. \A k \in 1..la - i : Part(a, i, la)[k] = a[i + k]
  BY <1>10, PartProperties
<1>13. \A k \in 1..lb - j : Part(b, j, lb)[k] = b[j + k]
  BY <1>10, PartProperties
<1>14. \A k \in 1..n : a[i + k] = b[j + k]
  BY <1>10, <1>11, <1>12, <1>13
<1>. QED
  BY <1>3, <1>9, <1>14 DEF i, j, SameTail

\* The hunk of two texts turns the first into the second.
LEMMA HunkExplains ==
    ASSUME NEW S, NEW router \in Seq(S), NEW local \in Seq(S)
    PROVE  Explains(WriteLineDiff(router, local), router, local)
<1>. DEFINE a == TrimEnd(router)
            b == TrimEnd(local)
            p == CommonPrefix(a, b)
            n == CommonSuffix(a, b, p)
            la == Len(a)
            lb == Len(b)
            sA == la - n
            sB == lb - n
            k == Least(p, 2)
            m == Least(la - sA, 2)
            i == p - k
            j == sA + m
            h == sB + m
            hunk == WriteLineDiff(router, local)
<1>1. a \in Seq(S) /\ b \in Seq(S)
  BY TrimEndProperties
<1>2. /\ hunk.before = SubSeq(a, p - k + 1, p) /\ hunk.minus = SubSeq(a, p + 1, sA)
      /\ hunk.plus = SubSeq(b, p + 1, sB) /\ hunk.after = SubSeq(a, sA + 1, sA + m)
  BY DEF WriteLineDiff
<1>3. Explains(hunk, router, local) <=>
        LET c == hunk.before \o hunk.minus \o hunk.after IN
        \E x \in 0..la - Len(c) :
            /\ SubSeq(a, x + 1, x + Len(c)) = c
            /\ b = SubSeq(a, 1, x) \o hunk.before \o hunk.plus \o hunk.after \o SubSeq(a, x + Len(c) + 1, la)
  BY Zenon DEF Explains
<1>. HIDE DEF a, b, hunk
<1>4. p \in 0..la /\ p \in 0..lb /\ \A x \in 1..p : a[x] = b[x]
  <2>1. p = CommonPrefix(a, b)
    OBVIOUS
  <2>. HIDE DEF p
  <2>. QED
    BY <1>1, <2>1, PrefixProperties
<1>. HIDE DEF p
<1>5. n \in 0..la - p /\ n \in 0..lb - p /\ \A x \in 1..n : a[la - n + x] = b[lb - n + x]
  <2>1. n = CommonSuffix(a, b, p) /\ p \in 0..Len(a) /\ p \in 0..Len(b)
    BY <1>4
  <2>. HIDE DEF n
  <2>2. SameTail(a, b, p, n)
    BY <1>1, <2>1, SuffixProperties
  <2>. QED
    BY <2>2 DEF SameTail
<1>. HIDE DEF n
<1>6. la \in Nat /\ lb \in Nat
  BY <1>1
<1>7. k \in Nat /\ k <= p
  <2>1. p \in Nat /\ 2 \in Nat
    BY <1>4, <1>6
  <2>. QED
    BY <2>1, LeastProperties
<1>8. sA \in p..la /\ sB \in p..lb /\ la - sA = n /\ lb - sB = n
  BY <1>4, <1>5, <1>6
<1>9. m \in Nat /\ m <= n
  <2>1. la - sA \in Nat /\ 2 \in Nat
    BY <1>5, <1>8
  <2>. QED
    BY <1>8, <2>1, LeastProperties
<1>10. \A x \in 1..n : a[sA + x] = b[sB + x]
  BY <1>5
<1>. HIDE DEF k, m, sA, sB, la, lb
<1>11. /\ i \in 0..la /\ p \in i..la /\ sA \in i..la /\ j \in sA..la /\ j \in i..la /\ la \in j..la
       /\ 0 \in 0..la /\ 0 \in 0..lb /\ i \in 0..p /\ h \in sB..lb /\ h \in 0..lb /\ lb \in h..lb
       /\ p \in 0..lb /\ sB \in 0..lb /\ sA \in 0..la /\ j \in 0..la
  BY <1>4, <1>5, <1>6, <1>7, <1>8, <1>9
<1>12. hunk.before = Part(a, i, p) /\ hunk.minus = Part(a, p, sA) /\ hunk.plus = Part(b, p, sB) /\ hunk.after = Part(a, sA, j)
  BY <1>2 DEF Part
<1>13. \A x \in 0..la : \A y \in x..la : \A u \in 0..lb : \A v \in u..lb :
            \A q : q = y - x /\ q = v - u /\ SameLines(a, x, b, u, q) => Part(a, x, y) = Part(b, u, v)
  <2>. SUFFICES ASSUME NEW x \in 0..la, NEW y \in x..la, NEW u \in 0..lb, NEW v \in u..lb,
                       NEW q, q = y - x, q = v - u, SameLines(a, x, b, u, q)
                PROVE  Part(a, x, y) = Part(b, u, v)
    OBVIOUS
  <2>. QED
    BY <1>1, PartsEqual DEF la, lb
<1>14. Part(a, 0, p) = Part(b, 0, p)
  <2>1. p - 0 = p - 0 /\ SameLines(a, 0, b, 0, p - 0)
    BY <1>4, <1>6 DEF SameLines
  <2>. QED
    BY <1>1, <1>4, <1>11, <2>1, PartsEqual DEF la, lb
<1>15. Part(a, sA, j) = Part(b, sB, h)
  <2>1. j - sA = h - sB /\ j - sA = m
    BY <1>8, <1>9
  <2>2. \A x \in 1..m : x \in 1..n
    BY <1>5, <1>9
  <2>3. SameLines(a, sA, b, sB, j - sA)
    BY <1>10, <2>1, <2>2 DEF SameLines
  <2>. HIDE DEF j, h
  <2>. QED
    BY <1>11, <1>13, <2>1, <2>3
<1>16. Part(a, j, la) = Part(b, h, lb)
  <2>. DEFINE e == n - m
  <2>1. e \in Nat /\ j + e = la /\ h + e = lb
    BY <1>5, <1>6, <1>8, <1>9
  <2>2. \A x \in 1..e : a[j + x] = b[h + x]
    <3>. SUFFICES ASSUME NEW x \in 1..e PROVE a[j + x] = b[h + x]
      OBVIOUS
    <3>1. m + x \in 1..n /\ sA + (m + x) = j + x /\ sB + (m + x) = h + x
      BY <1>5, <1>8, <1>9
    <3>. QED
      BY <1>10, <3>1
  <2>3. la - j = lb - h /\ la - j = e
    BY <1>8, <1>9, <2>1
  <2>. HIDE DEF e, j, h
  <2>4. SameLines(a, j, b, h, la - j)
    BY <2>2, <2>3 DEF SameLines
  <2>5. j \in 0..la /\ la \in j..la /\ h \in 0..lb /\ lb \in h..lb
    BY <1>11
  <2>. QED
    BY <1>13, <2>3, <2>4, <2>5
<1>. HIDE DEF i, j, h
<1>17. \A x \in 0..la : \A y \in x..la : \A z \in y..la : Part(a, x, y) \o Part(a, y, z) = Part(a, x, z)
  BY <1>1, PartsJoin DEF la
<1>18. \A x \in 0..lb : \A y \in x..lb : \A z \in y..lb : Part(b, x, y) \o Part(b, y, z) = Part(b, x, z)
  BY <1>1, PartsJoin DEF lb
<1>19. hunk.before \o hunk.minus \o hunk.after = Part(a, i, j)
  <2>1. Part(a, i, p) \o Part(a, p, sA) = Part(a, i, sA)
    BY <1>8, <1>11, <1>17
  <2>2. Part(a, i, sA) \o Part(a, sA, j) = Part(a, i, j)
    BY <1>11, <1>17
  <2>. QED
    BY <1>12, <2>1, <2>2, Zenon
<1>20. SubSeq(a, 1, i) \o hunk.before \o hunk.plus \o hunk.after \o SubSeq(a, j + 1, la) = b
  <2>1. SubSeq(a, 1, i) = Part(a, 0, i) /\ SubSeq(a, j + 1, la) = Part(a, j, la)
    BY DEF Part
  <2>2. Part(a, 0, i) \o Part(a, i, p) = Part(a, 0, p)
    BY <1>11, <1>17
  <2>3. Part(b, 0, p) \o Part(b, p, sB) = Part(b, 0, sB)
    BY <1>8, <1>11, <1>18
  <2>4. Part(b, 0, sB) \o Part(b, sB, h) = Part(b, 0, h)
    BY <1>11, <1>18
  <2>5. Part(b, 0, h) \o Part(b, h, lb) = Part(b, 0, lb)
    BY <1>11, <1>18
  <2>6. Part(b, 0, lb) = b
    BY <1>1, WholePart DEF lb
  <2>. QED
    BY <1>12, <1>14, <1>15, <1>16, <2>1, <2>2, <2>3, <2>4, <2>5, <2>6, Zenon
<1>21. Len(Part(a, i, j)) = j - i
  BY <1>1, <1>11, PartProperties DEF la
<1>22. i \in 0..la - (j - i) /\ i + (j - i) = j
  BY <1>6, <1>11
<1>23. SubSeq(a, i + 1, j) = Part(a, i, j)
  BY DEF Part
<1>. DEFINE c == hunk.before \o hunk.minus \o hunk.after
<1>24. i \in 0..la - Len(c) /\ SubSeq(a, i + 1, i + Len(c)) = c
  BY <1>19, <1>21, <1>22, <1>23
<1>25. b = SubSeq(a, 1, i) \o hunk.before \o hunk.plus \o hunk.after \o SubSeq(a, i + Len(c) + 1, la)
  BY <1>19, <1>20, <1>21, <1>22
<1>. QED
  BY <1>3, <1>24, <1>25, Zenon DEF hunk

\* A file that is reported, or passed over, as unchanged, is so.
LEMMA VerdictTells ==
    ASSUME NEW S, NEW router \in Seq(S), NEW local \in Seq(S)
    PROVE  Verdict(router, local) = "same" <=> SaySame(router, local)
<1>. DEFINE lr == Len(router)
            ll == Len(local)
            m == Len(TrimEnd(router))
            n == Len(TrimEnd(local))
            X(i) == router[i].says
            Y(i) == local[i].says
            R(i) == IF i <= lr THEN X(i) ELSE ""
            L(i) == IF i <= ll THEN Y(i) ELSE ""
<1>1. lr \in Nat /\ ll \in Nat
  OBVIOUS
<1>2. m \in 0..lr /\ (m # 0 => X(m) # "") /\ \A i \in 1..lr : i > m => X(i) = ""
  BY TrimEndProperties
<1>3. n \in 0..ll /\ (n # 0 => Y(n) # "") /\ \A i \in 1..ll : i > n => Y(i) = ""
  BY TrimEndProperties
<1>4. m \in Nat /\ n \in Nat /\ m <= lr /\ n <= ll
  <2>1. m \in 0..lr /\ n \in 0..ll
    BY <1>2, <1>3
  <2>. HIDE DEF lr, ll, m, n
  <2>. QED
    BY <1>1, <2>1
<1>5. m # 0 => X(m) # ""
  BY <1>2
<1>6. \A i \in 1..lr : i > m => X(i) = ""
  BY <1>2
<1>7. n # 0 => Y(n) # ""
  BY <1>3
<1>8. \A i \in 1..ll : i > n => Y(i) = ""
  BY <1>3
<1>9. SaySame(router, local) <=> \A i \in 1..lr + ll : R(i) = L(i)
  BY Zenon DEF SaySame
<1>10. Verdict(router, local) = "same" <=> [i \in 1..m |-> X(i)] = [i \in 1..n |-> Y(i)]
  BY Zenon DEF Verdict, Normalize
<1>. HIDE DEF lr, ll, m, n, X, Y
<1>11. ASSUME [i \in 1..m |-> X(i)] = [i \in 1..n |-> Y(i)]
      PROVE  \A i \in 1..lr + ll : R(i) = L(i)
  <2>1. 1..m = 1..n
    BY <1>11, Zenon
  <2>2. m = n
    <3>1. m \in Nat /\ n \in Nat
      BY <1>4
    <3>2. m < n => n \in 1..n /\ n \notin 1..m
      BY <3>1
    <3>3. n < m => m \in 1..m /\ m \notin 1..n
      BY <3>1
    <3>. QED
      BY <2>1, <3>1, <3>2, <3>3
  <2>3. \A i \in 1..m : X(i) = Y(i)
    BY <1>11, <2>2
  <2>. SUFFICES ASSUME NEW i \in 1..lr + ll PROVE R(i) = L(i)
    OBVIOUS
  <2>4. i \in Nat /\ i > 0
    BY <1>1
  <2>5. CASE i <= m
    <3>1. i \in 1..m /\ i <= lr /\ i <= ll
      BY <1>1, <1>4, <2>2, <2>4, <2>5
    <3>. QED
      BY <2>3, <3>1
  <2>6. CASE ~(i <= m)
    <3>1. i <= lr => X(i) = ""
      <4>1. i <= lr => i \in 1..lr /\ i > m
        BY <1>1, <1>4, <2>4, <2>6
      <4>. QED
        BY <4>1, <1>6, Zenon
    <3>2. i <= ll => Y(i) = ""
      <4>1. i <= ll => i \in 1..ll /\ i > n
        BY <1>1, <1>4, <2>2, <2>4, <2>6
      <4>. QED
        BY <4>1, <1>8, Zenon
    <3>. QED
      BY <3>1, <3>2
  <2>. QED
    BY <2>5, <2>6
<1>12. ASSUME \A i \in 1..lr + ll : R(i) = L(i)
      PROVE  [i \in 1..m |-> X(i)] = [i \in 1..n |-> Y(i)]
  <2>1. ~(m < n)
    <3>. SUFFICES ASSUME m < n PROVE FALSE
      OBVIOUS
    <3>1. n \in 1..lr + ll /\ n # 0 /\ n <= ll /\ n > m
      BY <1>1, <1>4
    <3>2. L(n) # ""
      BY <1>7, <3>1
    <3>3. n <= lr => X(n) = ""
      <4>1. n <= lr => n \in 1..lr /\ n > m
        BY <1>1, <1>4, <3>1
      <4>. QED
        BY <4>1, <1>6, Zenon
    <3>. QED
      BY <1>12, <3>1, <3>2, <3>3
  <2>2. ~(n < m)
    <3>. SUFFICES ASSUME n < m PROVE FALSE
      OBVIOUS
    <3>1. m \in 1..lr + ll /\ m # 0 /\ m <= lr /\ m > n
      BY <1>1, <1>4
    <3>2. R(m) # ""
      BY <1>5, <3>1
    <3>3. m <= ll => Y(m) = ""
      <4>1. m <= ll => m \in 1..ll /\ m > n
        BY <1>1, <1>4, <3>1
      <4>. QED
        BY <4>1, <1>8, Zenon
    <3>. QED
      BY <1>12, <3>1, <3>2, <3>3
  <2>3. m = n
    BY <1>4, <2>1, <2>2
  <2>4. \A i \in 1..m : X(i) = Y(i)
    <3>. SUFFICES ASSUME NEW i \in 1..m PROVE X(i) = Y(i)
      OBVIOUS
    <3>1. i \in 1..lr + ll /\ i <= lr /\ i <= ll
      BY <1>1, <1>4, <2>3
    <3>2. R(i) = X(i) /\ L(i) = Y(i)
      BY <3>1
    <3>. QED
      BY <1>12, <3>1, <3>2
  <2>. QED
    BY <2>3, <2>4
<1>. QED
  BY <1>9, <1>10, <1>11, <1>12

\* diff prints what apply would change, and passes over nothing else, for every pair
\* of texts.
THEOREM DiffCompleteAlways == Spec => []DiffComplete
<1>1. CommandsInv => DiffComplete
  <2>. SUFFICES ASSUME DeskInv, NEW p \in Process, report[p].verdict \in {"changed", "same"}
                PROVE  LET d == report[p] IN
                       /\ Explains(d.hunk, d.router, d.local)
                       /\ d.verdict = "same" <=> SaySame(d.router, d.local)
    BY DEF CommandsInv, DiffComplete
  <2>. DEFINE r == report[p].router
              l == report[p].local
              S == [says : STRING, blanks : STRING]
  <2>1. /\ r \in Text /\ l \in Text
        /\ report[p].verdict = Verdict(r, l) /\ report[p].hunk = WriteLineDiff(r, l)
    BY DEF DeskInv
  <2>2. r \in Seq(S) /\ l \in Seq(S)
    BY <2>1, WorkstationAssumption
  <2>. HIDE DEF r, l, S
  <2>3. Explains(WriteLineDiff(r, l), r, l) /\ (Verdict(r, l) = "same" <=> SaySame(r, l))
    BY <2>2, HunkExplains, VerdictTells
  <2>. QED
    BY <2>1, <2>3 DEF r, l
<1>. QED
  BY <1>1, CommandsInductive, PTL
=============================================================================
