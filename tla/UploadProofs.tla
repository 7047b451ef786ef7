---------------------------- MODULE UploadProofs ----------------------------
(***************************************************************************)
(* Why an upload never leaves half a file at its path, and does what       *)
(* Remote.tla says of it, whichever of its requests fails and wherever the *)
(* connection or the process is lost: SessionInv is inductive for clients  *)
(* that share no path.                                                     *)
(***************************************************************************)
EXTENDS Workstation, TLAPS

\* One upload of a path at a time.
Alone == \A p, q \in Process : PathOf[p] = PathOf[q] => p = q

Names == Sess!Target \X {"file", "tmp"}

-----------------------------------------------------------------------------
(* Names, inodes and replies *)

\* The names and inodes of a client are its own.
LEMMA OwnNames ==
    ASSUME Alone, NEW c \in Process
    PROVE  /\ Sess!File(c) \in Names /\ Sess!Tmp(c) \in Names /\ Sess!File(c) # Sess!Tmp(c)
           /\ Sess!Own(c) = {c, PathOf[c]} /\ c # PathOf[c]
           /\ Sess!Own(c) \subseteq Sess!Inode /\ Absent \notin Sess!Own(c)
           /\ \A d \in Process : d # c =>
                /\ {Sess!File(d), Sess!Tmp(d)} \cap {Sess!File(c), Sess!Tmp(c)} = {}
                /\ Sess!Own(d) \cap Sess!Own(c) = {}
           /\ \A name \in Names : \E d \in Process : name \in {Sess!File(d), Sess!Tmp(d)}
<1>1. PathOf[c] \in Sess!Target /\ \A t \in Sess!Target : \E d \in Process : t = PathOf[d]
  BY DEF Sess!Target
<1>2. \A d \in Process : Sess!Own(d) = {d, PathOf[d]} /\ Sess!Own(d) \subseteq Sess!Inode
  BY DEF Alone, Sess!Own, Sess!Inode, Sess!Target
<1>3. \A d \in Process : d # c => Sess!Own(d) \cap Sess!Own(c) = {} /\ PathOf[d] # PathOf[c]
  BY <1>2, WorkstationAssumption DEF Alone
<1>4. Absent \notin Sess!Own(c) /\ c # PathOf[c]
  BY <1>2, WorkstationAssumption
<1>. QED
  BY <1>1, <1>2, <1>3, <1>4 DEF Names, Sess!File, Sess!Tmp

\* A request succeeds over a connection only, and as a whole; a lost connection
\* carries nothing out.
LEMMA AnswerCases ==
    ASSUME NEW c \in Process, link[c] \in {"up", "down"}, NEW r \in Sess!Answers(c)
    PROVE  /\ r.err \in BOOLEAN /\ r.eff \in {"none", "part", "all"} /\ r.conn \in {"up", "down"}
           /\ ~r.err => r.eff = "all" /\ r.conn = "up"
           /\ r.err /\ r.conn = "up" => r.eff # "all"
           /\ link[c] = "down" => r.err /\ r.eff = "none" /\ r.conn = "down"
BY DEF Sess!Answers, Sess!Replies, Sess!Reply, Sess!Effect, Sess!Conn

Mine(c) == Sess!FilesInv(c) /\ Sess!UploadInv(c)

\* Nothing of d is touched, except that a client without a call may be connected.
Spared(d) ==
    /\ at'[Sess!File(d)] = at[Sess!File(d)] /\ at'[Sess!Tmp(d)] = at[Sess!Tmp(d)]
    /\ \A i \in Sess!Own(d) : file'[i] = file[i]
    /\ op'[d] = op[d] /\ fd'[d] = fd[d] /\ was'[d] = was[d]
    /\ link'[d] = link[d] \/ op[d] = "none"

LEMMA SparedKeeps ==
    ASSUME Alone, NEW d \in Process, Mine(d), Spared(d)
    PROVE  Mine(d)'
<1>. DEFINE f == at[Sess!File(d)]
            t == at[Sess!Tmp(d)]
<1>1. f \in Sess!Own(d) \cup {Absent} /\ t \in Sess!Own(d) \cup {Absent}
  BY DEF Mine, Sess!FilesInv
<1>2. Sess!FilesInv(d)'
  BY <1>1 DEF Mine, Sess!FilesInv, Spared
<1>3. Sess!Held(Sess!File(d))' = Sess!Held(Sess!File(d)) /\ Sess!Held(Sess!Tmp(d))' = Sess!Held(Sess!Tmp(d))
  BY <1>1 DEF Sess!Held, Spared
<1>4. (Sess!Complete(d)' <=> Sess!Complete(d)) /\ (Sess!Untouched(d)' <=> Sess!Untouched(d))
  BY DEF Sess!Complete, Sess!Untouched, Spared
<1>5. t # Absent => file'[t] = file[t]
  BY <1>1 DEF Spared
<1>6. Sess!Complete(d) => t # Absent
  BY WorkstationAssumption DEF Mine, Sess!UploadInv, Sess!Held
<1>. QED
  BY <1>2, <1>3, <1>4, <1>5, <1>6 DEF Mine, Sess!UploadInv, Spared

-----------------------------------------------------------------------------
(* The requests of an upload *)

\* What every request does to the client itself.
LEMMA ThenCases ==
    ASSUME Sess!SessionTypeOK, NEW c \in Process, NEW r \in Sess!Answers(c),
           NEW ok \in Sess!SftpRequest \cup {"uploaded", "not uploaded"},
           NEW failed \in Sess!SftpRequest \cup {"not uploaded"},
           Sess!Then(c, r, ok, failed)
    PROVE  /\ op' \in [Process -> Sess!SftpRequest \cup Sess!Returned \cup {"none", "select", "closed"}]
           /\ link' \in [Process -> Sess!Conn]
           /\ queued' \in [Process -> {"none", "ok", "failed"}]
           /\ op'[c] = (IF r.err THEN failed ELSE ok) /\ link'[c] = r.conn
           /\ \A d \in Process : d # c => op'[d] = op[d] /\ link'[d] = link[d]
<1>1. r.conn \in Sess!Conn /\ (IF r.err THEN failed ELSE ok) \in Sess!SftpRequest \cup Sess!Returned
  BY DEF Sess!Answers, Sess!Replies, Sess!Reply, Sess!Returned
<1>. DEFINE next == IF r.err THEN failed ELSE ok
<1>2. op' = [op EXCEPT ![c] = next] /\ link' = [link EXCEPT ![c] = r.conn] /\ queued' = queued
  BY DEF Sess!Then, Sess!runVars
<1>. HIDE DEF next
<1>. QED
  BY <1>1, <1>2 DEF Sess!SessionTypeOK, next

\* The other clients notice nothing when only names and inodes of c change.
LEMMA SpareOthers ==
    ASSUME Alone, NEW c \in Process,
           \A name \in Names : name \notin {Sess!File(c), Sess!Tmp(c)} => at'[name] = at[name],
           \A i \in Sess!Inode : i \notin Sess!Own(c) => file'[i] = file[i],
           \A d \in Process : d # c => op'[d] = op[d] /\ link'[d] = link[d] /\ fd'[d] = fd[d] /\ was'[d] = was[d]
    PROVE  \A d \in Process : d # c => Spared(d)
<1>. SUFFICES ASSUME NEW d \in Process, d # c PROVE Spared(d)
  OBVIOUS
<1>1. /\ Sess!File(d) \in Names /\ Sess!Tmp(d) \in Names
      /\ {Sess!File(d), Sess!Tmp(d)} \cap {Sess!File(c), Sess!Tmp(c)} = {}
      /\ Sess!Own(d) \subseteq Sess!Inode /\ Sess!Own(d) \cap Sess!Own(c) = {}
  BY OwnNames
<1>. QED
  BY <1>1 DEF Spared

LEMMA MkdirKeeps ==
    ASSUME Alone, Sess!SessionTypeOK, NEW c \in Process, Mine(c), NEW r \in Sess!Answers(c), Sess!Mkdir(c, r)
    PROVE  Sess!SessionTypeOK' /\ Mine(c)' /\ \A d \in Process : d # c => Spared(d)
<1>1. op[c] = "mkdir" /\ at' = at /\ file' = file /\ fd' = fd /\ was' = was
  BY DEF Sess!Mkdir, Sess!Sends, Sess!uploadVars
<1>2. /\ op' \in [Process -> Sess!SftpRequest \cup Sess!Returned \cup {"none", "select", "closed"}]
      /\ link' \in [Process -> Sess!Conn]
      /\ queued' \in [Process -> {"none", "ok", "failed"}]
      /\ op'[c] = (IF r.err THEN "not uploaded" ELSE "create")
      /\ \A d \in Process : d # c => op'[d] = op[d] /\ link'[d] = link[d]
  BY ThenCases DEF Sess!Mkdir, Sess!SftpRequest
<1>3. Sess!SessionTypeOK'
  BY <1>1, <1>2 DEF Sess!SessionTypeOK
<1>4. Mine(c)'
  BY <1>1, <1>2 DEF Mine, Sess!FilesInv, Sess!UploadInv, Sess!Complete, Sess!Untouched, Sess!Held
<1>. QED
  BY <1>1, <1>2, <1>3, <1>4, SpareOthers

\* The inode of a new temporary file is neither the target's nor open.
LEMMA FreeInode ==
    ASSUME Alone, Sess!SessionTypeOK, Sess!SessionInv, NEW c \in Process,
           at[Sess!Tmp(c)] = Absent, op[c] = "create"
    PROVE  Sess!Free(c) \in Sess!Own(c) /\ Sess!Free(c) # at[Sess!File(c)]
<1>. DEFINE Fits(i) == (\A name \in DOMAIN at : at[name] # i) /\ \A d \in Process : fd[d] # i
<1>1. \A d \in Process : /\ {at[Sess!File(d)], at[Sess!Tmp(d)]} \subseteq Sess!Own(d) \cup {Absent}
                         /\ fd[d] \in Sess!Own(d) \cup {Absent}
  BY DEF Sess!SessionInv, Sess!FilesInv
<1>2. \A i \in Sess!Own(c) : i # at[Sess!File(c)] => Fits(i)
  <2>. SUFFICES ASSUME NEW i \in Sess!Own(c), i # at[Sess!File(c)] PROVE Fits(i)
    OBVIOUS
  <2>0. i # Absent
    BY OwnNames
  <2>1. \A d \in Process : at[Sess!File(d)] # i /\ at[Sess!Tmp(d)] # i
    <3>. SUFFICES ASSUME NEW d \in Process PROVE at[Sess!File(d)] # i /\ at[Sess!Tmp(d)] # i
      OBVIOUS
    <3>1. CASE d = c
      BY <2>0, <3>1
    <3>2. CASE d # c
      <4>1. i \notin Sess!Own(d) \cup {Absent}
        BY <2>0, <3>2, OwnNames
      <4>. QED
        BY <1>1, <4>1
    <3>. QED
      BY <3>1, <3>2
  <2>2. \A name \in DOMAIN at : at[name] # i
    <3>1. DOMAIN at = Names
      BY DEF Sess!SessionTypeOK, Names
    <3>. SUFFICES ASSUME NEW name \in Names PROVE at[name] # i
      BY <3>1
    <3>2. PICK d \in Process : name \in {Sess!File(d), Sess!Tmp(d)}
      BY OwnNames
    <3>. QED
      BY <2>1, <3>2
  <2>3. fd[c] = Absent
    BY DEF Sess!SessionInv, Sess!FilesInv
  <2>4. \A d \in Process : fd[d] # i
    BY <1>1, <2>0, <2>3, OwnNames
  <2>. QED
    BY <2>2, <2>4
<1>3. \E i \in Sess!Own(c) : Fits(i)
  <2>. HIDE DEF Fits
  <2>. QED
    BY <1>2, OwnNames
<1>4. Sess!Free(c) \in Sess!Own(c) /\ Fits(Sess!Free(c))
  <2>. HIDE DEF Fits
  <2>1. Sess!Free(c) = CHOOSE i \in Sess!Own(c) : Fits(i)
    BY DEF Sess!Free, Fits
  <2>. QED
    BY <1>3, <2>1
<1>5. Sess!File(c) \in DOMAIN at
  BY OwnNames DEF Sess!SessionTypeOK, Names
<1>. QED
  BY <1>4, <1>5

LEMMA CreateKeeps ==
    ASSUME Alone, Sess!SessionTypeOK, Sess!SessionInv, NEW c \in Process, NEW r \in Sess!Answers(c), Sess!Create(c, r)
    PROVE  Sess!SessionTypeOK' /\ Mine(c)' /\ \A d \in Process : d # c => Spared(d)
<1>. DEFINE f == at[Sess!File(c)]
            t == at[Sess!Tmp(c)]
            inode == IF t = Absent THEN Sess!Free(c) ELSE t
<1>0. Mine(c) /\ link[c] \in {"up", "down"}
  BY DEF Sess!SessionInv, Mine, Sess!SessionTypeOK, Sess!Conn
<1>1. /\ op' \in [Process -> Sess!SftpRequest \cup Sess!Returned \cup {"none", "select", "closed"}]
      /\ link' \in [Process -> Sess!Conn]
      /\ queued' \in [Process -> {"none", "ok", "failed"}]
      /\ op'[c] = (IF r.err THEN "not uploaded" ELSE "write")
      /\ \A d \in Process : d # c => op'[d] = op[d] /\ link'[d] = link[d]
  <2>. DEFINE ok == "write"
              failed == "not uploaded"
  <2>1. Sess!Then(c, r, ok, failed) /\ ok \in Sess!SftpRequest /\ failed \in Sess!SftpRequest \cup {"not uploaded"}
    BY DEF Sess!Create, Sess!SftpRequest
  <2>. HIDE DEF ok, failed
  <2>2. /\ op' \in [Process -> Sess!SftpRequest \cup Sess!Returned \cup {"none", "select", "closed"}]
        /\ link' \in [Process -> Sess!Conn]
        /\ queued' \in [Process -> {"none", "ok", "failed"}]
        /\ op'[c] = (IF r.err THEN failed ELSE ok) /\ link'[c] = r.conn
        /\ \A d \in Process : d # c => op'[d] = op[d] /\ link'[d] = link[d]
    BY <2>1, ThenCases
  <2>. QED
    BY ONLY <2>2 DEF ok, failed
<1>2. op[c] = "create" /\ was' = was /\ fd[c] = Absent
  BY <1>0 DEF Sess!Create, Sess!Sends, Mine, Sess!FilesInv
<1>3. Sess!File(c) \in Names /\ Sess!Tmp(c) \in Names /\ Sess!File(c) # Sess!Tmp(c)
      /\ Sess!Own(c) \subseteq Sess!Inode /\ Absent \notin Sess!Own(c)
  BY OwnNames
<1>4. f \in Sess!Own(c) \cup {Absent} /\ t \in Sess!Own(c) \cup {Absent}
  BY <1>0 DEF Mine, Sess!FilesInv
<1>5. inode \in Sess!Own(c) /\ inode # f
  <2>1. CASE t = Absent
    BY <1>2, <2>1, FreeInode
  <2>2. CASE t # Absent
    BY <1>0, <1>4, <2>2 DEF Mine, Sess!FilesInv
  <2>. QED
    BY <2>1, <2>2
<1>6. CASE r.eff = "all"
  <2>. DEFINE new == [content |-> Torn, moded |-> t # Absent /\ file[inode].moded]
  <2>1. /\ at' = [at EXCEPT ![Sess!Tmp(c)] = inode] /\ fd' = [fd EXCEPT ![c] = inode]
        /\ file' = [file EXCEPT ![inode] = new]
    BY <1>6 DEF Sess!Create, Sess!Put
  <2>2. new \in [content : Process \cup {Stock, Torn}, moded : BOOLEAN]
    BY <1>3, <1>5 DEF Sess!SessionTypeOK
  <2>. HIDE DEF inode, new
  <2>3. Sess!SessionTypeOK'
    <3>1. at' \in [Names -> Sess!Inode \cup {Absent}] /\ fd' \in [Process -> Sess!Inode \cup {Absent}]
      BY <1>3, <1>5, <2>1 DEF Sess!SessionTypeOK, Names
    <3>2. file' \in [Sess!Inode -> [content : Process \cup {Stock, Torn}, moded : BOOLEAN]]
      BY <2>1, <2>2 DEF Sess!SessionTypeOK
    <3>. QED
      BY <1>1, <1>2, <3>1, <3>2 DEF Sess!SessionTypeOK, Names
  <2>4. at'[Sess!File(c)] = f /\ at'[Sess!Tmp(c)] = inode /\ fd'[c] = inode /\ was'[c] = was[c]
    BY <1>2, <1>3, <2>1 DEF Sess!SessionTypeOK, Names
  <2>5. f # Absent => file'[f] = file[f]
    BY <1>3, <1>4, <1>5, <2>1 DEF Sess!SessionTypeOK
  <2>6. Sess!Held(Sess!File(c))' = Sess!Held(Sess!File(c))
    BY <2>4, <2>5 DEF Sess!Held
  <2>7. Sess!FilesInv(c)'
    <3>1. inode \in Sess!Own(c) /\ inode # f /\ inode # Absent
      BY <1>3, <1>5
    <3>2. f # Absent => file[f].content # Torn /\ file[f].moded
      BY <1>0 DEF Mine, Sess!FilesInv
    <3>3. op'[c] \in {"write", "not uploaded"}
      BY <1>1
    <3>. HIDE DEF f
    <3>. QED
      BY <1>4, <2>4, <2>5, <3>1, <3>2, <3>3 DEF Sess!FilesInv
  <2>8. Sess!UploadInv(c)'
    <3>1. op'[c] \in {"write", "not uploaded"} /\ ~Sess!Complete(c)'
      BY <1>1 DEF Sess!Complete
    <3>2. Sess!Held(Sess!File(c)) = was[c]
      BY <1>0, <1>2 DEF Mine, Sess!UploadInv, Sess!Untouched
    <3>3. fd'[c] # Absent
      BY <1>3, <1>5, <2>4
    <3>. QED
      BY <2>4, <2>6, <3>1, <3>2, <3>3 DEF Sess!UploadInv
  <2>9. \A d \in Process : d # c => Spared(d)
    <3>1. \A name \in Names : name \notin {Sess!File(c), Sess!Tmp(c)} => at'[name] = at[name]
      BY <2>1 DEF Sess!SessionTypeOK, Names
    <3>2. \A i \in Sess!Inode : i \notin Sess!Own(c) => file'[i] = file[i]
      BY <1>5, <2>1 DEF Sess!SessionTypeOK
    <3>3. \A d \in Process : d # c => fd'[d] = fd[d] /\ was'[d] = was[d]
      BY <1>2, <2>1 DEF Sess!SessionTypeOK
    <3>. QED
      BY <1>1, <3>1, <3>2, <3>3, SpareOthers
  <2>. QED
    BY <2>3, <2>7, <2>8, <2>9 DEF Mine
<1>7. CASE r.eff # "all"
  <2>1. at' = at /\ file' = file /\ fd' = fd /\ r.err
    BY <1>0, <1>7, AnswerCases DEF Sess!Create
  <2>2. Sess!SessionTypeOK'
    BY <1>1, <1>2, <2>1 DEF Sess!SessionTypeOK
  <2>3. Mine(c)'
    BY <1>0, <1>1, <1>2, <2>1 DEF Mine, Sess!FilesInv, Sess!UploadInv, Sess!Complete, Sess!Untouched, Sess!Held
  <2>. QED
    BY <1>1, <1>2, <2>1, <2>2, <2>3, SpareOthers
<1>. QED
  BY <1>6, <1>7

LEMMA WriteKeeps ==
    ASSUME Alone, Sess!SessionTypeOK, NEW c \in Process, Mine(c), NEW r \in Sess!Answers(c), Sess!Write(c, r)
    PROVE  Sess!SessionTypeOK' /\ Mine(c)' /\ \A d \in Process : d # c => Spared(d)
<1>. DEFINE f == at[Sess!File(c)]
            t == at[Sess!Tmp(c)]
            i == fd[c]
            text == CASE r.eff = "none" -> file[i].content [] r.eff = "part" -> Torn [] r.eff = "all" -> c
<1>1. /\ op' \in [Process -> Sess!SftpRequest \cup Sess!Returned \cup {"none", "select", "closed"}]
      /\ link' \in [Process -> Sess!Conn]
      /\ queued' \in [Process -> {"none", "ok", "failed"}]
      /\ op'[c] = (IF r.err THEN "abandon" ELSE "close")
      /\ \A d \in Process : d # c => op'[d] = op[d] /\ link'[d] = link[d]
  <2>. DEFINE ok == "close"
              failed == "abandon"
  <2>1. Sess!Then(c, r, ok, failed) /\ ok \in Sess!SftpRequest /\ failed \in Sess!SftpRequest \cup {"not uploaded"}
    BY DEF Sess!Write, Sess!SftpRequest
  <2>. HIDE DEF ok, failed
  <2>2. /\ op' \in [Process -> Sess!SftpRequest \cup Sess!Returned \cup {"none", "select", "closed"}]
        /\ link' \in [Process -> Sess!Conn]
        /\ queued' \in [Process -> {"none", "ok", "failed"}]
        /\ op'[c] = (IF r.err THEN failed ELSE ok) /\ link'[c] = r.conn
        /\ \A d \in Process : d # c => op'[d] = op[d] /\ link'[d] = link[d]
    BY <2>1, ThenCases
  <2>. QED
    BY ONLY <2>2 DEF ok, failed
<1>2. op[c] = "write" /\ at' = at /\ fd' = fd /\ was' = was
  BY DEF Sess!Write, Sess!Sends
<1>3. f \in Sess!Own(c) \cup {Absent} /\ i = t /\ t \in Sess!Own(c) /\ t # f /\ t # Absent /\ t \in Sess!Inode
  BY <1>2, OwnNames DEF Mine, Sess!FilesInv, Sess!UploadInv
<1>4. r.err \in BOOLEAN /\ r.eff \in {"none", "part", "all"} /\ (~r.err => r.eff = "all")
  BY AnswerCases DEF Sess!SessionTypeOK, Sess!Conn
<1>5. text \in Process \cup {Stock, Torn} /\ (~r.err => text = c)
  <2>1. CASE r.eff = "none"
    BY <1>3, <1>4, <2>1 DEF Sess!SessionTypeOK
  <2>2. CASE r.eff = "part"
    BY <1>4, <2>2
  <2>3. CASE r.eff = "all"
    BY <1>4, <2>3
  <2>. QED
    BY <1>4, <2>1, <2>2, <2>3
<1>6. file' = [file EXCEPT ![i].content = text]
  BY DEF Sess!Write
<1>. HIDE DEF text
<1>7. /\ file' \in [Sess!Inode -> [content : Process \cup {Stock, Torn}, moded : BOOLEAN]]
      /\ file'[i].content = text /\ \A j \in Sess!Inode : j # i => file'[j] = file[j]
  BY <1>3, <1>5, <1>6 DEF Sess!SessionTypeOK
<1>8. Sess!SessionTypeOK'
  BY <1>1, <1>2, <1>7 DEF Sess!SessionTypeOK
<1>9. f # Absent => file'[f] = file[f]
  BY <1>3, <1>7, OwnNames
<1>10. Sess!Held(Sess!File(c))' = Sess!Held(Sess!File(c)) /\ (~r.err => Sess!Held(Sess!Tmp(c))' = c)
  BY <1>2, <1>3, <1>5, <1>7, <1>9 DEF Sess!Held
<1>11. Mine(c)'
  BY <1>1, <1>2, <1>3, <1>9, <1>10 DEF Mine, Sess!FilesInv, Sess!UploadInv, Sess!Complete, Sess!Untouched
<1>12. \A d \in Process : d # c => Spared(d)
  BY <1>1, <1>2, <1>3, <1>7, SpareOthers
<1>. QED
  BY <1>8, <1>11, <1>12

LEMMA CloseFileKeeps ==
    ASSUME Alone, Sess!SessionTypeOK, NEW c \in Process, Mine(c), NEW r \in Sess!Answers(c), Sess!CloseFile(c, r)
    PROVE  Sess!SessionTypeOK' /\ Mine(c)' /\ \A d \in Process : d # c => Spared(d)
<1>1. op[c] \in {"close", "abandon"} /\ at' = at /\ file' = file /\ was' = was /\ fd' = [fd EXCEPT ![c] = Absent]
  BY DEF Sess!CloseFile, Sess!Sends
<1>. DEFINE next == IF op[c] = "close" THEN "chmod" ELSE "cleanup"
<1>2. next \in {"chmod", "cleanup"} /\ Sess!Then(c, r, next, "cleanup")
  BY DEF Sess!CloseFile
<1>. HIDE DEF next
<1>3. /\ op' \in [Process -> Sess!SftpRequest \cup Sess!Returned \cup {"none", "select", "closed"}]
      /\ link' \in [Process -> Sess!Conn]
      /\ queued' \in [Process -> {"none", "ok", "failed"}]
      /\ op'[c] = (IF r.err THEN "cleanup" ELSE next)
      /\ \A d \in Process : d # c => op'[d] = op[d] /\ link'[d] = link[d]
  BY <1>2, ThenCases DEF Sess!SftpRequest
<1>4. fd' \in [Process -> Sess!Inode \cup {Absent}] /\ fd'[c] = Absent /\ \A d \in Process : d # c => fd'[d] = fd[d]
  BY <1>1 DEF Sess!SessionTypeOK
<1>5. Sess!SessionTypeOK'
  BY <1>1, <1>3, <1>4 DEF Sess!SessionTypeOK
<1>6. Sess!Held(Sess!File(c))' = Sess!Held(Sess!File(c)) /\ Sess!Held(Sess!Tmp(c))' = Sess!Held(Sess!Tmp(c))
  BY <1>1 DEF Sess!Held
<1>7. Mine(c)'
  <2>1. Sess!FilesInv(c)'
    BY <1>1, <1>2, <1>3, <1>4 DEF Mine, Sess!FilesInv
  <2>2. Sess!UploadInv(c)'
    BY <1>1, <1>2, <1>3, <1>6 DEF Mine, Sess!UploadInv, Sess!Complete, Sess!Untouched, next
  <2>. QED
    BY <2>1, <2>2 DEF Mine
<1>8. \A d \in Process : d # c => Spared(d)
  BY <1>1, <1>3, <1>4, SpareOthers
<1>. QED
  BY <1>5, <1>7, <1>8

LEMMA ChmodKeeps ==
    ASSUME Alone, Sess!SessionTypeOK, NEW c \in Process, Mine(c), NEW r \in Sess!Answers(c), Sess!Chmod(c, r)
    PROVE  Sess!SessionTypeOK' /\ Mine(c)' /\ \A d \in Process : d # c => Spared(d)
<1>. DEFINE f == at[Sess!File(c)]
            t == at[Sess!Tmp(c)]
<1>1. op[c] = "chmod" /\ at' = at /\ fd' = fd /\ was' = was
  BY DEF Sess!Chmod, Sess!Sends
<1>2. /\ op' \in [Process -> Sess!SftpRequest \cup Sess!Returned \cup {"none", "select", "closed"}]
      /\ link' \in [Process -> Sess!Conn]
      /\ queued' \in [Process -> {"none", "ok", "failed"}]
      /\ op'[c] = (IF r.err THEN "cleanup" ELSE "posix rename")
      /\ \A d \in Process : d # c => op'[d] = op[d] /\ link'[d] = link[d]
  <2>. DEFINE ok == "posix rename"
              failed == "cleanup"
  <2>1. Sess!Then(c, r, ok, failed) /\ ok \in Sess!SftpRequest /\ failed \in Sess!SftpRequest \cup {"not uploaded"}
    BY DEF Sess!Chmod, Sess!SftpRequest
  <2>. HIDE DEF ok, failed
  <2>2. /\ op' \in [Process -> Sess!SftpRequest \cup Sess!Returned \cup {"none", "select", "closed"}]
        /\ link' \in [Process -> Sess!Conn]
        /\ queued' \in [Process -> {"none", "ok", "failed"}]
        /\ op'[c] = (IF r.err THEN failed ELSE ok) /\ link'[c] = r.conn
        /\ \A d \in Process : d # c => op'[d] = op[d] /\ link'[d] = link[d]
    BY <2>1, ThenCases
  <2>. QED
    BY ONLY <2>2 DEF ok, failed
<1>3. t # Absent
  <2>1. Sess!Held(Sess!Tmp(c)) = c
    BY <1>1 DEF Mine, Sess!UploadInv, Sess!Complete
  <2>. QED
    BY <2>1, WorkstationAssumption DEF Sess!Held
<1>4. f \in Sess!Own(c) \cup {Absent} /\ t \in Sess!Own(c) /\ t # f /\ t \in Sess!Inode
  <2>1. f \in Sess!Own(c) \cup {Absent} /\ t \in Sess!Own(c) \cup {Absent} /\ (f # Absent => f # t)
    BY DEF Mine, Sess!FilesInv
  <2>2. Sess!Own(c) \subseteq Sess!Inode
    BY OwnNames
  <2>. QED
    BY <1>3, <2>1, <2>2
<1>5. ~r.err => r.eff = "all"
  BY AnswerCases DEF Sess!SessionTypeOK, Sess!Conn
<1>6. file' = [file EXCEPT ![t].moded = TRUE] \/ (file' = file /\ r.err)
  BY <1>5 DEF Sess!Chmod
<1>7. /\ file' \in [Sess!Inode -> [content : Process \cup {Stock, Torn}, moded : BOOLEAN]]
      /\ file'[t].content = file[t].content /\ (~r.err => file'[t].moded)
      /\ \A j \in Sess!Inode : j # t => file'[j] = file[j]
  <2>1. CASE file' = [file EXCEPT ![t].moded = TRUE]
    <3>. DEFINE new == [file[t] EXCEPT !.moded = TRUE]
    <3>1. new \in [content : Process \cup {Stock, Torn}, moded : BOOLEAN] /\ new.moded /\ new.content = file[t].content
      BY <1>4 DEF Sess!SessionTypeOK
    <3>2. file' = [file EXCEPT ![t] = new]
      BY <2>1
    <3>. HIDE DEF new
    <3>. QED
      BY <1>4, <3>1, <3>2 DEF Sess!SessionTypeOK
  <2>2. CASE file' = file /\ r.err
    BY <2>2 DEF Sess!SessionTypeOK
  <2>. QED
    BY <1>6, <2>1, <2>2
<1>8. Sess!SessionTypeOK'
  BY <1>1, <1>2, <1>7 DEF Sess!SessionTypeOK
<1>9. f # Absent => file'[f] = file[f]
  BY <1>4, <1>7, OwnNames
<1>10. Sess!Held(Sess!File(c))' = Sess!Held(Sess!File(c)) /\ Sess!Held(Sess!Tmp(c))' = Sess!Held(Sess!Tmp(c))
  BY <1>1, <1>7, <1>9 DEF Sess!Held
<1>11. Mine(c)'
  BY <1>1, <1>2, <1>4, <1>7, <1>9, <1>10 DEF Mine, Sess!FilesInv, Sess!UploadInv, Sess!Complete, Sess!Untouched
<1>12. \A d \in Process : d # c => Spared(d)
  BY <1>1, <1>2, <1>4, <1>7, SpareOthers
<1>. QED
  BY <1>8, <1>11, <1>12

\* Moving the complete temporary file over the path.
LEMMA MovedFile ==
    ASSUME Alone, Sess!SessionTypeOK, NEW c \in Process, Mine(c), Sess!Moved(c), file' = file,
           at[Sess!Tmp(c)] # Absent, Sess!Held(Sess!Tmp(c)) = c, file[at[Sess!Tmp(c)]].moded
    PROVE  /\ at' \in [Names -> Sess!Inode \cup {Absent}]
           /\ \A name \in Names : name \notin {Sess!File(c), Sess!Tmp(c)} => at'[name] = at[name]
           /\ at'[Sess!File(c)] \in Sess!Own(c) /\ at'[Sess!Tmp(c)] = Absent
           /\ file'[at'[Sess!File(c)]].content # Torn /\ file'[at'[Sess!File(c)]].moded
           /\ Sess!Held(Sess!File(c))' = c
<1>. DEFINE t == at[Sess!Tmp(c)]
<1>1. Sess!File(c) \in Names /\ Sess!Tmp(c) \in Names /\ Sess!File(c) # Sess!Tmp(c)
  BY OwnNames
<1>2. t \in Sess!Own(c) /\ t \in Sess!Inode
  BY OwnNames DEF Mine, Sess!FilesInv
<1>3. at \in [Names -> Sess!Inode \cup {Absent}]
  BY DEF Sess!SessionTypeOK, Names
<1>4. at' = [at EXCEPT ![Sess!File(c)] = t, ![Sess!Tmp(c)] = Absent]
  BY DEF Sess!Moved
<1>5. /\ at' \in [Names -> Sess!Inode \cup {Absent}]
      /\ at'[Sess!File(c)] = t /\ at'[Sess!Tmp(c)] = Absent
      /\ \A name \in Names : name \notin {Sess!File(c), Sess!Tmp(c)} => at'[name] = at[name]
  BY <1>1, <1>2, <1>3, <1>4
<1>6. file[t].content = c /\ c # Torn
  BY WorkstationAssumption DEF Sess!Held
<1>. QED
  BY <1>2, <1>5, <1>6 DEF Sess!Held

\* Both ways of renaming: the file is there, or nothing has happened.
LEMMA RenamingKeeps ==
    ASSUME Alone, Sess!SessionTypeOK, NEW c \in Process, Mine(c), NEW r \in Sess!Answers(c),
           NEW failed \in {"remove", "cleanup"}, Sess!Then(c, r, "uploaded", failed),
           \/ op[c] = "posix rename" /\ failed = "remove"
           \/ op[c] = "rename" /\ failed = "cleanup",
           r.eff = "all" => at[Sess!Tmp(c)] # Absent,
           IF r.eff = "all" THEN Sess!Moved(c) ELSE UNCHANGED at,
           file' = file, fd' = fd, was' = was
    PROVE  Sess!SessionTypeOK' /\ Mine(c)' /\ \A d \in Process : d # c => Spared(d)
<1>0. link[c] \in {"up", "down"}
  BY DEF Sess!SessionTypeOK, Sess!Conn
<1>1. /\ op' \in [Process -> Sess!SftpRequest \cup Sess!Returned \cup {"none", "select", "closed"}]
      /\ link' \in [Process -> Sess!Conn]
      /\ queued' \in [Process -> {"none", "ok", "failed"}]
      /\ op'[c] = (IF r.err THEN failed ELSE "uploaded") /\ link'[c] = r.conn
      /\ \A d \in Process : d # c => op'[d] = op[d] /\ link'[d] = link[d]
  BY ThenCases DEF Sess!SftpRequest
<1>2. fd[c] = Absent
  BY DEF Mine, Sess!FilesInv
<1>3. /\ ~r.err => r.eff = "all"
      /\ r.err /\ r.conn = "up" => r.eff # "all" /\ link[c] = "up"
      /\ r.eff = "all" => link[c] = "up"
  BY <1>0, AnswerCases
<1>4. CASE r.eff = "all"
  <2>1. Sess!Held(Sess!Tmp(c)) = c /\ file[at[Sess!Tmp(c)]].moded
    BY <1>3, <1>4 DEF Mine, Sess!UploadInv, Sess!Complete
  <2>2. /\ at' \in [Names -> Sess!Inode \cup {Absent}]
        /\ \A name \in Names : name \notin {Sess!File(c), Sess!Tmp(c)} => at'[name] = at[name]
        /\ at'[Sess!File(c)] \in Sess!Own(c) /\ at'[Sess!Tmp(c)] = Absent
        /\ file'[at'[Sess!File(c)]].content # Torn /\ file'[at'[Sess!File(c)]].moded
        /\ Sess!Held(Sess!File(c))' = c
    BY <1>4, <2>1, MovedFile
  <2>3. Sess!SessionTypeOK'
    BY <1>1, <2>2 DEF Sess!SessionTypeOK, Names
  <2>4. Absent \notin Sess!Own(c) /\ Sess!Own(c)' = Sess!Own(c)
    BY OwnNames DEF Sess!Own
  <2>5. op'[c] \in {"uploaded", failed} /\ (op'[c] = failed => r.conn # "up")
    BY <1>1, <1>3, <1>4
  <2>6. Mine(c)'
    BY <1>1, <1>2, <2>2, <2>4, <2>5 DEF Mine, Sess!FilesInv, Sess!UploadInv, Sess!Complete, Sess!Untouched
  <2>7. \A d \in Process : d # c => Spared(d)
    BY <1>1, <2>2, SpareOthers
  <2>. QED
    BY <2>3, <2>6, <2>7
<1>5. CASE r.eff # "all"
  <2>1. at' = at /\ r.err
    BY <1>3, <1>5
  <2>2. Sess!SessionTypeOK'
    BY <1>1, <2>1 DEF Sess!SessionTypeOK
  <2>3. Sess!Held(Sess!File(c))' = Sess!Held(Sess!File(c)) /\ Sess!Held(Sess!Tmp(c))' = Sess!Held(Sess!Tmp(c))
    BY <2>1 DEF Sess!Held
  <2>4. Mine(c)'
    BY <1>1, <1>2, <1>3, <2>1, <2>3 DEF Mine, Sess!FilesInv, Sess!UploadInv, Sess!Complete, Sess!Untouched
  <2>5. \A d \in Process : d # c => Spared(d)
    BY <1>1, <2>1, SpareOthers
  <2>. QED
    BY <2>2, <2>4, <2>5
<1>. QED
  BY <1>4, <1>5

LEMMA PosixRenameKeeps ==
    ASSUME Alone, Sess!SessionTypeOK, NEW c \in Process, Mine(c), NEW r \in Sess!Answers(c), Sess!PosixRename(c, r)
    PROVE  Sess!SessionTypeOK' /\ Mine(c)' /\ \A d \in Process : d # c => Spared(d)
BY RenamingKeeps DEF Sess!PosixRename, Sess!Sends

LEMMA RenameKeeps ==
    ASSUME Alone, Sess!SessionTypeOK, NEW c \in Process, Mine(c), NEW r \in Sess!Answers(c), Sess!Rename(c, r)
    PROVE  Sess!SessionTypeOK' /\ Mine(c)' /\ \A d \in Process : d # c => Spared(d)
BY RenamingKeeps DEF Sess!Rename, Sess!Sends

LEMMA RemoveTargetKeeps ==
    ASSUME Alone, Sess!SessionTypeOK, NEW c \in Process, Mine(c), NEW r \in Sess!Answers(c), Sess!RemoveTarget(c, r)
    PROVE  Sess!SessionTypeOK' /\ Mine(c)' /\ \A d \in Process : d # c => Spared(d)
<1>0. link[c] \in {"up", "down"} /\ op[c] = "remove" /\ file' = file /\ fd' = fd /\ was' = was
  BY DEF Sess!SessionTypeOK, Sess!Conn, Sess!RemoveTarget, Sess!Sends
<1>1. /\ op' \in [Process -> Sess!SftpRequest \cup Sess!Returned \cup {"none", "select", "closed"}]
      /\ link' \in [Process -> Sess!Conn]
      /\ queued' \in [Process -> {"none", "ok", "failed"}]
      /\ op'[c] = "rename" /\ link'[c] = r.conn
      /\ \A d \in Process : d # c => op'[d] = op[d] /\ link'[d] = link[d]
  <2>. DEFINE ok == "rename"
              failed == "rename"
  <2>1. Sess!Then(c, r, ok, failed) /\ ok \in Sess!SftpRequest /\ failed \in Sess!SftpRequest \cup {"not uploaded"}
    BY DEF Sess!RemoveTarget, Sess!SftpRequest
  <2>. HIDE DEF ok, failed
  <2>2. /\ op' \in [Process -> Sess!SftpRequest \cup Sess!Returned \cup {"none", "select", "closed"}]
        /\ link' \in [Process -> Sess!Conn]
        /\ queued' \in [Process -> {"none", "ok", "failed"}]
        /\ op'[c] = (IF r.err THEN failed ELSE ok) /\ link'[c] = r.conn
        /\ \A d \in Process : d # c => op'[d] = op[d] /\ link'[d] = link[d]
    BY <2>1, ThenCases
  <2>. QED
    BY ONLY <2>2 DEF ok, failed
<1>2. link'[c] = "up" => link[c] = "up"
  BY <1>0, <1>1, AnswerCases
<1>3. fd[c] = Absent
  BY <1>0 DEF Mine, Sess!FilesInv
<1>4. Sess!File(c) \in Names /\ Sess!Tmp(c) \in Names /\ Sess!File(c) # Sess!Tmp(c)
  BY OwnNames
<1>5. /\ at' \in [Names -> Sess!Inode \cup {Absent}]
      /\ at'[Sess!File(c)] \in {at[Sess!File(c)], Absent}
      /\ \A name \in Names : name # Sess!File(c) => at'[name] = at[name]
  BY <1>4 DEF Sess!RemoveTarget, Sess!Put, Sess!SessionTypeOK, Names
<1>6. Sess!SessionTypeOK'
  BY <1>0, <1>1, <1>5 DEF Sess!SessionTypeOK, Names
<1>7. /\ Sess!Held(Sess!File(c))' \in {Sess!Held(Sess!File(c)), Absent}
      /\ Sess!Held(Sess!Tmp(c))' = Sess!Held(Sess!Tmp(c)) /\ at'[Sess!Tmp(c)] = at[Sess!Tmp(c)]
  BY <1>0, <1>4, <1>5 DEF Sess!Held
<1>8. Mine(c)'
  BY <1>0, <1>1, <1>2, <1>3, <1>5, <1>7 DEF Mine, Sess!FilesInv, Sess!UploadInv, Sess!Complete, Sess!Untouched
<1>9. \A d \in Process : d # c => Spared(d)
  BY <1>0, <1>1, <1>5, SpareOthers
<1>. QED
  BY <1>6, <1>8, <1>9

LEMMA CleanupKeeps ==
    ASSUME Alone, Sess!SessionTypeOK, NEW c \in Process, Mine(c), NEW r \in Sess!Answers(c), Sess!Cleanup(c, r)
    PROVE  Sess!SessionTypeOK' /\ Mine(c)' /\ \A d \in Process : d # c => Spared(d)
<1>0. op[c] = "cleanup" /\ file' = file /\ fd' = fd /\ was' = was
  BY DEF Sess!Cleanup, Sess!Sends
<1>1. /\ op' \in [Process -> Sess!SftpRequest \cup Sess!Returned \cup {"none", "select", "closed"}]
      /\ link' \in [Process -> Sess!Conn]
      /\ queued' \in [Process -> {"none", "ok", "failed"}]
      /\ op'[c] = "not uploaded"
      /\ \A d \in Process : d # c => op'[d] = op[d] /\ link'[d] = link[d]
  <2>. DEFINE ok == "not uploaded"
              failed == "not uploaded"
  <2>1. Sess!Then(c, r, ok, failed) /\ ok \in {"uploaded", "not uploaded"} /\ failed \in {"not uploaded"}
    BY DEF Sess!Cleanup
  <2>. HIDE DEF ok, failed
  <2>2. /\ op' \in [Process -> Sess!SftpRequest \cup Sess!Returned \cup {"none", "select", "closed"}]
        /\ link' \in [Process -> Sess!Conn]
        /\ queued' \in [Process -> {"none", "ok", "failed"}]
        /\ op'[c] = (IF r.err THEN failed ELSE ok) /\ link'[c] = r.conn
        /\ \A d \in Process : d # c => op'[d] = op[d] /\ link'[d] = link[d]
    BY <2>1, ThenCases
  <2>. QED
    BY ONLY <2>2 DEF ok, failed
<1>3. fd[c] = Absent
  BY <1>0 DEF Mine, Sess!FilesInv
<1>4. Sess!File(c) \in Names /\ Sess!Tmp(c) \in Names /\ Sess!File(c) # Sess!Tmp(c)
  BY OwnNames
<1>5. /\ at' \in [Names -> Sess!Inode \cup {Absent}]
      /\ at'[Sess!Tmp(c)] \in {at[Sess!Tmp(c)], Absent}
      /\ \A name \in Names : name # Sess!Tmp(c) => at'[name] = at[name]
  BY <1>4 DEF Sess!Cleanup, Sess!Put, Sess!SessionTypeOK, Names
<1>6. Sess!SessionTypeOK'
  BY <1>0, <1>1, <1>5 DEF Sess!SessionTypeOK, Names
<1>7. Sess!Held(Sess!File(c))' = Sess!Held(Sess!File(c)) /\ at'[Sess!File(c)] = at[Sess!File(c)]
  BY <1>0, <1>4, <1>5 DEF Sess!Held
<1>8. Mine(c)'
  <2>1. Sess!FilesInv(c)'
    BY <1>0, <1>1, <1>3, <1>5, <1>7 DEF Mine, Sess!FilesInv
  <2>2. Sess!UploadInv(c)'
    BY <1>0, <1>1, <1>5, <1>7 DEF Mine, Sess!UploadInv, Sess!Complete, Sess!Untouched
  <2>. QED
    BY <2>1, <2>2 DEF Mine
<1>9. \A d \in Process : d # c => Spared(d)
  BY <1>0, <1>1, <1>5, SpareOthers
<1>. QED
  BY <1>6, <1>8, <1>9

-----------------------------------------------------------------------------
(* Steps of a client *)

\* A client that begins or ends a call leaves the files alone.
LEMMA QuietKeeps ==
    ASSUME Alone, Sess!SessionTypeOK, Sess!SessionInv, NEW c \in Process, at' = at, file' = file,
           op' \in [Process -> Sess!SftpRequest \cup Sess!Returned \cup {"none", "select", "closed"}],
           link' \in [Process -> Sess!Conn], queued' \in [Process -> {"none", "ok", "failed"}],
           fd' \in [Process -> Sess!Inode \cup {Absent}],
           was' \in [Process -> Process \cup {Stock, Torn, Absent}],
           \A d \in Process : d # c => op'[d] = op[d] /\ link'[d] = link[d] /\ fd'[d] = fd[d] /\ was'[d] = was[d],
           \/ op'[c] \in {"none", "select", "ok", "failed", "cancelled", "closed"}
           \/ op'[c] = "mkdir" /\ was'[c] = Sess!Held(Sess!File(c)),
           fd'[c] = Absent \/ (fd'[c] = fd[c] /\ op'[c] = "closed") \/ (fd'[c] = fd[c] /\ fd[c] = Absent)
    PROVE  Sess!SessionTypeOK' /\ Sess!SessionInv'
<1>1. Sess!SessionTypeOK'
  BY DEF Sess!SessionTypeOK
<1>2. Mine(c)'
  <2>1. Sess!FilesInv(c)'
    BY DEF Sess!SessionInv, Sess!FilesInv
  <2>2. Sess!Held(Sess!File(c))' = Sess!Held(Sess!File(c))
    BY DEF Sess!Held
  <2>3. Sess!UploadInv(c)'
    BY <2>2 DEF Sess!UploadInv, Sess!Complete, Sess!Untouched
  <2>. QED
    BY <2>1, <2>3 DEF Mine
<1>3. \A d \in Process : d # c => Mine(d)'
  BY SparedKeeps, SpareOthers DEF Sess!SessionInv, Mine
<1>. QED
  BY <1>1, <1>2, <1>3 DEF Sess!SessionInv, Mine

LEMMA UploadKeeps ==
    ASSUME Alone, Sess!SessionTypeOK, Sess!SessionInv, NEW c \in Process, Sess!Upload(c)
    PROVE  Sess!SessionTypeOK' /\ Sess!SessionInv'
<1>1. PICK r \in Sess!Answers(c) :
        \/ Sess!Mkdir(c, r) \/ Sess!Create(c, r) \/ Sess!Write(c, r) \/ Sess!CloseFile(c, r) \/ Sess!Chmod(c, r)
        \/ Sess!PosixRename(c, r) \/ Sess!RemoveTarget(c, r) \/ Sess!Rename(c, r) \/ Sess!Cleanup(c, r)
  BY DEF Sess!Upload
<1>2. \A d \in Process : Mine(d)
  BY DEF Mine, Sess!SessionInv
<1>3. Sess!SessionTypeOK' /\ Mine(c)' /\ \A d \in Process : d # c => Spared(d)
  BY <1>1, <1>2, MkdirKeeps, CreateKeeps, WriteKeeps, CloseFileKeeps, ChmodKeeps, PosixRenameKeeps,
     RemoveTargetKeeps, RenameKeeps, CleanupKeeps
<1>4. \A d \in Process : Mine(d)'
  BY <1>2, <1>3, SparedKeeps
<1>. QED
  BY <1>3, <1>4 DEF Mine, Sess!SessionInv

\* What the commands of Workstation do to the files: nothing, but for an upload's
\* requests.
LEMMA CallKeeps ==
    ASSUME Alone, Sess!SessionTypeOK, Sess!SessionInv, NEW c \in Process,
           \/ Sess!StartUpload(c) \/ Sess!Upload(c)
           \/ \E ok, deadline \in BOOLEAN : Sess!StartRun(c, ok, deadline)
           \/ Sess!Run(c)
    PROVE  Sess!SessionTypeOK' /\ Sess!SessionInv'
<1>1. CASE Sess!StartUpload(c)
  <2>1. /\ op[c] = "none" /\ at' = at /\ file' = file /\ link' = link /\ fd' = fd /\ queued' = queued
        /\ op' = [op EXCEPT ![c] = "mkdir"] /\ was' = [was EXCEPT ![c] = Sess!Held(Sess!File(c))]
    BY <1>1 DEF Sess!StartUpload, Sess!runVars
  <2>2. Sess!Held(Sess!File(c)) \in Process \cup {Stock, Torn, Absent}
    BY OwnNames DEF Sess!Held, Sess!SessionTypeOK, Names
  <2>3. fd[c] = Absent
    BY <2>1 DEF Sess!SessionInv, Sess!FilesInv
  <2>4. /\ op' \in [Process -> Sess!SftpRequest \cup Sess!Returned \cup {"none", "select", "closed"}]
        /\ op'[c] = "mkdir" /\ \A d \in Process : d # c => op'[d] = op[d]
    BY <2>1 DEF Sess!SessionTypeOK, Sess!SftpRequest
  <2>5. /\ was' \in [Process -> Process \cup {Stock, Torn, Absent}]
        /\ was'[c] = Sess!Held(Sess!File(c)) /\ \A d \in Process : d # c => was'[d] = was[d]
    BY <2>1, <2>2 DEF Sess!SessionTypeOK
  <2>. QED
    BY <2>1, <2>3, <2>4, <2>5, QuietKeeps DEF Sess!SessionTypeOK
<1>2. CASE \E ok, deadline \in BOOLEAN : Sess!StartRun(c, ok, deadline)
  <2>1. /\ op[c] = "none" /\ at' = at /\ file' = file /\ link' = link /\ fd' = fd /\ queued' = queued /\ was' = was
        /\ op' = [op EXCEPT ![c] = "select"] \/ op' = [op EXCEPT ![c] = "failed"]
    BY <1>2 DEF Sess!StartRun, Sess!uploadVars
  <2>2. fd[c] = Absent
    BY <2>1 DEF Sess!SessionInv, Sess!FilesInv
  <2>3. PICK next \in {"select", "failed"} : op' = [op EXCEPT ![c] = next]
    BY <2>1
  <2>4. /\ op' \in [Process -> Sess!SftpRequest \cup Sess!Returned \cup {"none", "select", "closed"}]
        /\ op'[c] = next /\ \A d \in Process : d # c => op'[d] = op[d]
    BY <2>3 DEF Sess!SessionTypeOK, Sess!Returned
  <2>. QED
    BY <2>1, <2>2, <2>4, QuietKeeps DEF Sess!SessionTypeOK
<1>3. CASE Sess!SelectDone(c) \/ Sess!SelectCtx(c)
  <2>1. /\ op[c] = "select" /\ at' = at /\ file' = file /\ link' = link /\ fd' = fd /\ queued' = queued /\ was' = was
        /\ \/ op' = [op EXCEPT ![c] = queued[c]] /\ queued[c] # "none"
           \/ op' = [op EXCEPT ![c] = "cancelled"]
    BY <1>3 DEF Sess!SelectDone, Sess!SelectCtx, Sess!uploadVars, Sess!runVars
  <2>2. fd[c] = Absent
    BY <2>1 DEF Sess!SessionInv, Sess!FilesInv
  <2>3. PICK end \in {"ok", "failed", "cancelled"} : op' = [op EXCEPT ![c] = end]
    BY <2>1 DEF Sess!SessionTypeOK
  <2>4. /\ op' \in [Process -> Sess!SftpRequest \cup Sess!Returned \cup {"none", "select", "closed"}]
        /\ op'[c] = end /\ \A d \in Process : d # c => op'[d] = op[d]
    BY <2>3 DEF Sess!SessionTypeOK, Sess!Returned
  <2>. QED
    BY <2>1, <2>2, <2>4, QuietKeeps DEF Sess!SessionTypeOK
<1>4. CASE Sess!CommandReturns(c) \/ \E result \in {"ok", "failed"} : Sess!Send(c, result)
  <2>1. /\ at' = at /\ file' = file /\ op' = op /\ link' = link /\ fd' = fd /\ was' = was
        /\ queued' \in [Process -> {"none", "ok", "failed"}]
    BY <1>4 DEF Sess!CommandReturns, Sess!Send, Sess!uploadVars, Sess!SessionTypeOK
  <2>2. Sess!SessionTypeOK' /\ \A d \in Process : Spared(d)
    BY <2>1 DEF Sess!SessionTypeOK, Spared
  <2>. QED
    BY <2>2, SparedKeeps DEF Sess!SessionInv, Mine
<1>. QED
  BY <1>1, <1>2, <1>3, <1>4, UploadKeeps DEF Sess!Run

LEMMA CloseKeeps ==
    ASSUME Alone, Sess!SessionTypeOK, Sess!SessionInv, NEW c \in Process, Sess!Close(c)
    PROVE  Sess!SessionTypeOK' /\ Sess!SessionInv'
<1>1. /\ at' = at /\ file' = file /\ fd' = fd /\ queued' = queued /\ was' = was
      /\ op' = [op EXCEPT ![c] = "closed"] /\ link' = [link EXCEPT ![c] = "down"]
  BY DEF Sess!Close, Sess!uploadVars, Sess!runVars
<1>. QED
  BY <1>1, QuietKeeps DEF Sess!SessionTypeOK, Sess!Conn

LEMMA GoneKeeps ==
    ASSUME Alone, Sess!SessionTypeOK, Sess!SessionInv, NEW c \in Process, Sess!Gone(c)
    PROVE  Sess!SessionTypeOK' /\ Sess!SessionInv'
<1>1. /\ at' = at /\ file' = file
      /\ op' = [op EXCEPT ![c] = "none"] /\ link' = [link EXCEPT ![c] = "down"]
      /\ queued' = [queued EXCEPT ![c] = "none"]
      /\ fd' = [fd EXCEPT ![c] = Absent] /\ was' = [was EXCEPT ![c] = Absent]
  BY DEF Sess!Gone
<1>. QED
  BY <1>1, QuietKeeps DEF Sess!SessionTypeOK, Sess!Conn

LEMMA DialKeeps ==
    ASSUME Alone, Sess!SessionTypeOK, Sess!SessionInv, DeskInv, NEW c \in Process, Dial(c)
    PROVE  Sess!SessionTypeOK' /\ Sess!SessionInv'
<1>1. /\ at' = at /\ file' = file /\ op' = op /\ fd' = fd /\ queued' = queued /\ was' = was
      /\ link' = [link EXCEPT ![c] = IF step'[c] = "up" THEN "up" ELSE @]
  BY DEF Dial
<1>2. op[c] = "none"
  BY DEF Dial, Dialling, MakeCallback, Connect, ReadAlgorithms, Handshake, HandshakeFails, TrustInVain, DeskInv
<1>3. link' \in [Process -> Sess!Conn] /\ \A d \in Process : d # c => link'[d] = link[d]
  BY <1>1 DEF Sess!SessionTypeOK, Sess!Conn
<1>4. Sess!SessionTypeOK'
  BY <1>1, <1>3 DEF Sess!SessionTypeOK
<1>5. \A d \in Process : Spared(d)
  BY <1>1, <1>2, <1>3 DEF Spared
<1>. QED
  BY <1>4, <1>5, SparedKeeps DEF Sess!SessionInv, Mine

LEMMA DiffKeeps ==
    ASSUME Alone, Sess!SessionTypeOK, Sess!SessionInv, NEW c \in Process, NEW r \in Sess!Reply,
           NEW router, NEW local, Diff(c, r, router, local)
    PROVE  Sess!SessionTypeOK' /\ Sess!SessionInv'
<1>1. /\ op[c] = "none" /\ at' = at /\ file' = file /\ fd' = fd /\ queued' = queued /\ was' = was
      /\ op' = [op EXCEPT ![c] = "ok"] /\ link' = [link EXCEPT ![c] = r.conn]
  BY DEF Diff
<1>2. fd[c] = Absent /\ r.conn \in Sess!Conn
  BY <1>1 DEF Sess!SessionInv, Sess!FilesInv, Sess!Reply
<1>. QED
  BY <1>1, <1>2, QuietKeeps DEF Sess!SessionTypeOK, Sess!Returned

LEMMA SessionStarts ==
    ASSUME Alone, Sess!SInit
    PROVE  Sess!SessionTypeOK /\ Sess!SessionInv
<1>1. Sess!SessionTypeOK
  BY DEF Sess!SInit, Sess!SessionTypeOK, Sess!Inode, Sess!Conn
<1>. SUFFICES ASSUME NEW c \in Process PROVE Sess!FilesInv(c) /\ Sess!UploadInv(c)
  BY <1>1 DEF Sess!SessionInv
<1>2. at[Sess!File(c)] \in {PathOf[c], Absent} /\ at[Sess!Tmp(c)] = Absent /\ fd[c] = Absent /\ op[c] = "none"
  BY DEF Sess!SInit, Sess!Target, Sess!File, Sess!Tmp
<1>3. PathOf[c] \in Sess!Own(c) /\ PathOf[c] \in Sess!Inode /\ PathOf[c] \in Sess!Target
  BY OwnNames DEF Sess!Target
<1>4. file[PathOf[c]].content = Stock /\ file[PathOf[c]].moded
  BY <1>3 DEF Sess!SInit
<1>5. Sess!FilesInv(c)
  BY <1>2, <1>3, <1>4, WorkstationAssumption DEF Sess!FilesInv
<1>6. Sess!UploadInv(c)
  BY <1>2 DEF Sess!UploadInv, Sess!Complete, Sess!Untouched
<1>. QED
  BY <1>5, <1>6
=============================================================================
