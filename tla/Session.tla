------------------------------ MODULE Session -------------------------------
(***************************************************************************)
(* What ssh.Client does once it is connected: the sftp requests of Upload, *)
(* and Run with its goroutine and its deadline.  A client uploads its own  *)
(* data to one path; several may use the same path.                        *)
(***************************************************************************)
EXTENDS Remote, FiniteSets

CONSTANTS
    Client,
    PathOf,     \* PathOf[c]: the path that client c uploads to
    Stock       \* what a path holds at first

VARIABLES
    (* the router *)
    at,         \* the inode of each name, or Absent
    file,       \* content and mode of each inode
    (* the client *)
    op,         \* its next request, or how its last call ended
    link,       \* its ssh connection
    fd,         \* the inode it has open
    worker,     \* the goroutine of Run
    queued,     \* what the channel `done` holds
    timed,      \* the context has a deadline
    was         \* history: what its path held when the upload began

uploadVars == <<at, file, fd, was>>
runVars == <<worker, queued, timed>>
svars == <<at, file, op, link, fd, worker, queued, timed, was>>

Target == {PathOf[c] : c \in Client}
Inode == Client \cup Target
Returned == {"uploaded", "not uploaded", "ok", "failed", "cancelled"}

\* What is at a name: the data of a client, Stock, Torn or Absent.
Held(name) == IF at[name] = Absent THEN Absent ELSE file[at[name]].content

File(c) == <<PathOf[c], "file">>

\* Mutant: the upload writes the target itself.
TmpInPlace(c) == File(c)

Tmp(c) == <<PathOf[c], "tmp">>

SInit ==
    /\ at \in [Target \X {"file", "tmp"} -> Inode \cup {Absent}]
    /\ \A t \in Target : at[<<t, "file">>] \in {t, Absent} /\ at[<<t, "tmp">>] = Absent
    /\ file = [i \in Inode |-> [content |-> Stock, moded |-> i \in Target]]
    /\ op = [c \in Client |-> "none"] /\ link = [c \in Client |-> "down"]
    /\ fd = [c \in Client |-> Absent] /\ was = [c \in Client |-> Absent]
    /\ worker = [c \in Client |-> "none"] /\ queued = [c \in Client |-> "none"]
    /\ timed = [c \in Client |-> FALSE]

-----------------------------------------------------------------------------
(* Upload *)

\* A request the server answers with an error was not carried out; Write is
\* several requests.
Answers(c) == {r \in Replies(link[c]) : r.err /\ r.conn = "up" => r.eff # "all"}

Then(c, r, ok, failed) ==
    /\ op' = [op EXCEPT ![c] = IF r.err THEN failed ELSE ok]
    /\ link' = [link EXCEPT ![c] = r.conn]
    /\ UNCHANGED runVars

Sends(c, step, r) == op[c] = step /\ (step # "write" => r.eff # "part")

Put(name, inode) == at' = [at EXCEPT ![name] = inode]

StartUpload(c) ==
    /\ op[c] = "none" /\ link[c] = "up"
    /\ op' = [op EXCEPT ![c] = "mkdir"]
    /\ was' = [was EXCEPT ![c] = Held(File(c))]
    /\ UNCHANGED <<at, file, link, fd, runVars>>

Mkdir(c, r) ==
    /\ Sends(c, "mkdir", r)
    /\ Then(c, r, "create", "not uploaded")
    /\ UNCHANGED uploadVars

\* The inodes that stand for the files at the path of c: one more than its clients.
Own(c) == {PathOf[c]} \cup {d \in Client : PathOf[d] = PathOf[c]}

Free(c) == CHOOSE i \in Own(c) : (\A name \in DOMAIN at : at[name] # i) /\ \A d \in Client : fd[d] # i

\* sftp.Create truncates the file that is there.
Create(c, r) ==
    LET inode == IF at[Tmp(c)] = Absent THEN Free(c) ELSE at[Tmp(c)] IN
    /\ Sends(c, "create", r)
    /\ IF r.eff = "all" THEN /\ Put(Tmp(c), inode) /\ fd' = [fd EXCEPT ![c] = inode]
                             /\ file' = [file EXCEPT ![inode] =
                                    [content |-> Torn, moded |-> at[Tmp(c)] # Absent /\ @.moded]]
                        ELSE UNCHANGED <<at, file, fd>>
    /\ Then(c, r, "write", "not uploaded")
    /\ UNCHANGED was

Write(c, r) ==
    /\ Sends(c, "write", r)
    /\ file' = [file EXCEPT ![fd[c]].content =
                    CASE r.eff = "none" -> @ [] r.eff = "part" -> Torn [] r.eff = "all" -> c]
    /\ Then(c, r, "close", "abandon")
    /\ UNCHANGED <<at, fd, was>>

CloseFile(c, r) ==
    /\ Sends(c, "close", r) \/ Sends(c, "abandon", r)
    /\ fd' = [fd EXCEPT ![c] = Absent]
    /\ Then(c, r, IF op[c] = "close" THEN "chmod" ELSE "cleanup", "cleanup")
    /\ UNCHANGED <<at, file, was>>

Chmod(c, r) ==
    /\ Sends(c, "chmod", r)
    /\ r.eff = "all" => at[Tmp(c)] # Absent
    /\ file' = IF r.eff = "all" THEN [file EXCEPT ![at[Tmp(c)]].moded = TRUE] ELSE file
    /\ Then(c, r, "posix rename", "cleanup")
    /\ UNCHANGED <<at, fd, was>>

Moved(c) == at' = [at EXCEPT ![File(c)] = at[Tmp(c)], ![Tmp(c)] = Absent]

PosixRename(c, r) ==
    /\ Sends(c, "posix rename", r)
    /\ r.eff = "all" => at[Tmp(c)] # Absent
    /\ IF r.eff = "all" THEN Moved(c) ELSE UNCHANGED at
    /\ Then(c, r, "uploaded", "remove")
    /\ UNCHANGED <<file, fd, was>>

\* The fallback: the error of Remove is ignored, Rename does not replace a file.
RemoveTarget(c, r) ==
    /\ Sends(c, "remove", r)
    /\ IF r.eff = "all" THEN Put(File(c), Absent) ELSE UNCHANGED at
    /\ Then(c, r, "rename", "rename")
    /\ UNCHANGED <<file, fd, was>>

\* Mutant: the error of the fallback is ignored as well.
RenameLenient(c, r) ==
    /\ Sends(c, "rename", r)
    /\ r.eff = "all" => at[Tmp(c)] # Absent /\ at[File(c)] = Absent
    /\ IF r.eff = "all" THEN Moved(c) ELSE UNCHANGED at
    /\ Then(c, r, "uploaded", "uploaded")
    /\ UNCHANGED <<file, fd, was>>

Rename(c, r) ==
    /\ Sends(c, "rename", r)
    /\ r.eff = "all" => at[Tmp(c)] # Absent /\ at[File(c)] = Absent
    /\ IF r.eff = "all" THEN Moved(c) ELSE UNCHANGED at
    /\ Then(c, r, "uploaded", "cleanup")
    /\ UNCHANGED <<file, fd, was>>

Cleanup(c, r) ==
    /\ Sends(c, "cleanup", r)
    /\ IF r.eff = "all" THEN Put(Tmp(c), Absent) ELSE UNCHANGED at
    /\ Then(c, r, "not uploaded", "not uploaded")
    /\ UNCHANGED <<file, fd, was>>

Upload(c) ==
    \E r \in Answers(c) :
        \/ Mkdir(c, r) \/ Create(c, r) \/ Write(c, r) \/ CloseFile(c, r) \/ Chmod(c, r)
        \/ PosixRename(c, r) \/ RemoveTarget(c, r) \/ Rename(c, r) \/ Cleanup(c, r)

-----------------------------------------------------------------------------
(* Run *)

\* NewSession, then the goroutine; only `wrtbox detect` has a deadline.
StartRun(c, ok, deadline) ==
    /\ op[c] = "none" /\ link[c] = "up"
    /\ timed' = [timed EXCEPT ![c] = deadline]
    /\ op' = [op EXCEPT ![c] = IF ok THEN "select" ELSE "failed"]
    /\ worker' = [worker EXCEPT ![c] = IF ok THEN "command" ELSE @]
    /\ UNCHANGED <<link, queued, uploadVars>>

\* sess.Run returns: the command has ended, the connection is lost or closed.
CommandReturns(c) ==
    /\ worker[c] = "command"
    /\ worker' = [worker EXCEPT ![c] = "sending"]
    /\ UNCHANGED <<op, link, queued, timed, uploadVars>>

\* The channel has room for one result: the goroutine does not wait for the select.
Send(c, result) ==
    /\ worker[c] = "sending" /\ queued[c] = "none"
    /\ queued' = [queued EXCEPT ![c] = result]
    /\ worker' = [worker EXCEPT ![c] = "gone"]
    /\ UNCHANGED <<op, link, timed, uploadVars>>

SelectDone(c) ==
    /\ op[c] = "select" /\ queued[c] # "none"
    /\ op' = [op EXCEPT ![c] = queued[c]]
    /\ UNCHANGED <<link, runVars, uploadVars>>

\* Mutant: after the kill it waits for the goroutine.
SelectCtxWaits(c) ==
    /\ op[c] = "select" /\ timed[c] /\ worker[c] # "command"
    /\ op' = [op EXCEPT ![c] = "cancelled"]
    /\ UNCHANGED <<link, runVars, uploadVars>>

\* The deadline is over: kill and close the session, return what was read so far.
SelectCtx(c) ==
    /\ op[c] = "select" /\ timed[c]
    /\ op' = [op EXCEPT ![c] = "cancelled"]
    /\ UNCHANGED <<link, runVars, uploadVars>>

\* Client.Close, deferred by every command.
Close(c) ==
    /\ op[c] \in Returned
    /\ op' = [op EXCEPT ![c] = "closed"]
    /\ link' = [link EXCEPT ![c] = "down"]
    /\ UNCHANGED <<runVars, uploadVars>>

Run(c) ==
    \/ SelectDone(c) \/ SelectCtx(c) \/ CommandReturns(c)
    \/ \E result \in {"ok", "failed"} : Send(c, result)

\* The process is gone, and its connection with it.
Gone(c) ==
    /\ op' = [op EXCEPT ![c] = "none"] /\ link' = [link EXCEPT ![c] = "down"]
    /\ worker' = [worker EXCEPT ![c] = "none"] /\ queued' = [queued EXCEPT ![c] = "none"]
    /\ timed' = [timed EXCEPT ![c] = FALSE]
    /\ fd' = [fd EXCEPT ![c] = Absent] /\ was' = [was EXCEPT ![c] = Absent]
    /\ UNCHANGED <<at, file>>

-----------------------------------------------------------------------------
(* Properties *)

\* client.go on Upload: "a half-written file never shadows the target".  Whatever
\* fails, a path holds a whole file with its mode set, or none.  One upload of a
\* path at a time.
TargetWhole ==
    \A t \in Target : at[<<t, "file">>] # Absent =>
        file[at[<<t, "file">>]].content # Torn /\ file[at[<<t, "file">>]].moded

\* An upload that returned did to its path what Remote.tla lets an upload do, with
\* the error it returned: what apply.Run takes an upload for.
UploadAsAssumed ==
    \A c \in Client : op[c] \in {"uploaded", "not uploaded"} =>
        \E r \in Replies("up") :
            r.err = (op[c] = "not uploaded") /\ Held(File(c)) = Uploaded(r.eff, c, was[c])

-----------------------------------------------------------------------------
(* Why they hold: what a client relies on, when nobody shares its path *)

SftpRequest == {"mkdir", "create", "write", "close", "abandon", "chmod", "posix rename", "remove",
                "rename", "cleanup"}

\* The temporary file is complete, and so it stays while the connection does.
Complete(c) == \/ op[c] \in {"close", "chmod", "posix rename"}
               \/ op[c] \in {"remove", "rename"} /\ link[c] = "up"

\* The path has not been touched yet.
Untouched(c) == \/ op[c] \in {"mkdir", "create", "write", "close", "abandon", "chmod", "posix rename"}
                \/ op[c] = "remove" /\ link[c] = "up"

SessionTypeOK ==
    /\ at \in [Target \X {"file", "tmp"} -> Inode \cup {Absent}]
    /\ file \in [Inode -> [content : Client \cup {Stock, Torn}, moded : BOOLEAN]]
    /\ op \in [Client -> SftpRequest \cup Returned \cup {"none", "select", "closed"}]
    /\ link \in [Client -> Conn]
    /\ fd \in [Client -> Inode \cup {Absent}]
    /\ queued \in [Client -> {"none", "ok", "failed"}]
    /\ was \in [Client -> Client \cup {Stock, Torn, Absent}]

FilesInv(c) ==
    /\ {at[File(c)], at[Tmp(c)]} \subseteq Own(c) \cup {Absent}
    /\ at[File(c)] # Absent => /\ at[File(c)] # at[Tmp(c)]
                               /\ file[at[File(c)]].content # Torn /\ file[at[File(c)]].moded
    /\ fd[c] # Absent => fd[c] = at[Tmp(c)] /\ op[c] \in {"write", "close", "abandon", "not uploaded", "closed"}

UploadInv(c) ==
    /\ op[c] \in {"write", "close", "abandon"} => fd[c] # Absent
    /\ Complete(c) => /\ Held(Tmp(c)) = c
                      /\ op[c] \in {"posix rename", "remove", "rename"} => file[at[Tmp(c)]].moded
    /\ Untouched(c) => Held(File(c)) = was[c]
    /\ op[c] = "rename" /\ link[c] = "up" => Held(File(c)) \in {was[c], Absent}
    /\ op[c] \in {"remove", "rename", "cleanup", "not uploaded"} => Held(File(c)) \in {was[c], Absent, c}
    /\ op[c] = "uploaded" => Held(File(c)) = c

SessionInv == \A c \in Client : FilesInv(c) /\ UploadInv(c)

-----------------------------------------------------------------------------
(* What the code does not promise *)

\* detect.go prints the error output of a command that was cut off, while the
\* goroutine of Run may still write to it.
NoLateWrite == \A c \in Client : op[c] = "cancelled" => worker[c] # "command"
=============================================================================
