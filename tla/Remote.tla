------------------------------- MODULE Remote -------------------------------
(***************************************************************************)
(* One remote call, as the callers of ssh.Client see it.  eff is how much  *)
(* of it took place, err what the caller is told, conn the ssh connection  *)
(* afterwards.  Success means all of it took place.  A failure tells       *)
(* nothing about the effect: the connection may be lost after the command  *)
(* has run.  On a lost connection NewSession (or the sftp request) fails   *)
(* and nothing happens.                                                    *)
(***************************************************************************)
EXTENDS Integers

CONSTANTS
    Torn,       \* content of a file whose copy stopped half-way
    Absent      \* no file at a path

Conn == {"up", "down"}
Effect == {"none", "part", "all"}
Reply == [err : BOOLEAN, eff : Effect, conn : Conn]

Replies(conn) ==
    {r \in Reply : /\ ~r.err => r.eff = "all" /\ r.conn = "up"
                   /\ conn = "down" => r.err /\ r.eff = "none" /\ r.conn = "down"}

\* `[ -e src ] && cp -a src dst`: the content of dst afterwards.
Copied(eff, src, dst) ==
    CASE src = Absent \/ eff = "none" -> dst
      [] src # Absent /\ eff = "part" -> Torn
      [] src # Absent /\ eff = "all"  -> src

\* An upload writes path.wrtbox.tmp and renames it over path: the path has
\* its old content or the new one.  The fallback for servers without
\* posix-rename removes path first, and may stop there.
Uploaded(eff, c, dst) ==
    CASE eff = "none" -> dst
      [] eff = "part" -> Absent
      [] eff = "all"  -> c
=============================================================================
