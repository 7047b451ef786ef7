------------------------------ MODULE Services ------------------------------
(***************************************************************************)
(* The reload step: a line of shell commands, run from left to right with  *)
(* && and || of equal precedence and ; between lists, and which service    *)
(* re-reads its configuration on the way.                                  *)
(***************************************************************************)
EXTENDS Integers, Sequences

CONSTANTS
    Services,   \* the services whose loaded configuration is tracked
    ConfigOf    \* ConfigOf[s]: the managed path service s reads

\* The commands of reloadCmds joined with " && ".  The entry for xray is itself
\* `restart || start || true`, and the joined text has no parentheses.
ReloadCmds ==
    << [op |-> "&&", cmd |-> "network"],
       [op |-> "&&", cmd |-> "firewall"],
       [op |-> "&&", cmd |-> "xray restart"],
       [op |-> "||", cmd |-> "xray start"],
       [op |-> "||", cmd |-> "true"],
       [op |-> "&&", cmd |-> "wifi"] >>

\* Mutant: rollback.go without the parentheses.
BareRollbackReload == ReloadCmds

\* rollback.go writes the same list with the xray commands in parentheses.
RollbackReload ==
    << [op |-> "&&", cmd |-> "network"],
       [op |-> "&&", cmd |-> "firewall"],
       [op |-> "&&", cmd |-> "xray group"],
       [op |-> "&&", cmd |-> "wifi"] >>

\* What the commands of a list may do: succeed or fail.
Exits(list) == [1..Len(list) -> BOOLEAN]

\* Entries with status 0 whatever they do: `true`, and the xray group of
\* rollback.go, which ends in `|| true`.
Infallible == {"true", "xray group"}

\* Whether an entry is executed, by the status before it.
Runs(entry, before) == entry.op = ";" \/ (entry.op = "&&") = before

\* Status(list, ok)[n]: the status of the list after its first n entries.  An
\* entry that is skipped leaves the status as it is.
Status(list, ok) ==
    LET st[n \in 0..Len(list)] ==
            IF n = 0 THEN TRUE
            ELSE IF Runs(list[n], st[n - 1]) THEN ok[n] \/ list[n].cmd \in Infallible
                                             ELSE st[n - 1]
    IN  st

Ran(list, ok, n) == Runs(list[n], Status(list, ok)[n - 1])

\* The service a command acts on.
Target(cmd) ==
    IF cmd \in {"xray restart", "xray start", "xray group"} THEN "xray" ELSE cmd

\* The services of the commands that succeeded if the list did: those with only &&
\* after them that are not alternatives themselves and can fail.
Vouched(list) ==
    {Target(list[i].cmd) : i \in {n \in 1..Len(list) :
        /\ list[n].op # "||" /\ list[n].cmd \notin Infallible
        /\ \A m \in (n + 1)..Len(list) : list[m].op = "&&"}}

\* The services that re-read their configuration when the first n entries of
\* the list are executed.
Reloaded(list, ok, n) ==
    {s \in Services : \E i \in 1..n : /\ Target(list[i].cmd) = s
                                      /\ Ran(list, ok, i)
                                      /\ ok[i]}

\* What each service has loaded after that.
LoadedAfter(loaded, tree, list, ok, n) ==
    [s \in Services |-> IF s \in Reloaded(list, ok, n) THEN tree[ConfigOf[s]]
                                                       ELSE loaded[s]]

\* Executions of a list the caller may have got reply r for, as exit statuses and
\* number of entries.  A connection lost under way cuts the list short; on one
\* that stays up the caller is told the list's status.
Executions(list, r) ==
    {x \in [ok : Exits(list), n : 0..Len(list)] :
        /\ r.eff = "none" <=> x.n = 0
        /\ r.eff = "all" <=> x.n = Len(list)
        /\ r.eff = "part" => r.conn = "down"
        /\ ~r.err => Status(list, x.ok)[x.n]
        /\ r.err /\ r.conn = "up" /\ x.n > 0 => ~Status(list, x.ok)[x.n]}

\* What the services may have loaded then.
ReloadOutcomes(loaded, tree, list, r) ==
    {LoadedAfter(loaded, tree, list, x.ok, x.n) : x \in Executions(list, r)}
=============================================================================
