----------------------------- MODULE XrayRules ------------------------------
(***************************************************************************)
(* The scripts that divert traffic to xray: etc/init.d/xray-rules,         *)
(* root/rollback.sh and the hotplug script that netifd runs when an        *)
(* interface comes up.  They share the nft table inet xray, the ip rule    *)
(* for mark 1 and the route in table 100, each step is a command, and a    *)
(* hotplug event may come between any two.                                 *)
(***************************************************************************)
EXTENDS Integers, Sequences

CONSTANT Enabled    \* xray-rules is started at boot

VARIABLES
    table,      \* inet xray: "absent", "empty" or "loaded"
    rule,       \* ip rule fwmark 1 lookup 100
    route,      \* ip route local default, table 100
    job, at,    \* job[p], at[p]: the script p runs, and its next command
    ifup,       \* an interface came up, its hotplug event is queued
    asked       \* history: what the last of the operator's scripts to end was for

vars == <<table, rule, route, job, at, ifup, asked>>

\* The operator (or init), who runs one script at a time, and netifd, which runs
\* hotplug events one by one.
Process == {"operator", "netifd"}

Start == <<"table?", "table+", "load", "rule?", "rule+", "route?", "route+">>
Stop == <<"table-", "rule-", "route-">>

\* Mutant: the hotplug script does not restore the route.
HotplugNoRoute == <<"rule?", "rule+", "table?", "load">>

\* Mutant: it does not restore the rule.
HotplugNoRule == <<"route?", "route+", "table?", "load">>

Hotplug == <<"rule?", "rule+", "route?", "route+", "table?", "load">>

\* Mutant: stop leaves the table.
ScriptLeaky ==
    [idle     |-> <<>>,
     start    |-> Start,
     stop     |-> Tail(Stop),
     restart  |-> Tail(Stop) \o Start,
     rollback |-> Stop,
     hotplug  |-> Hotplug]

\* The commands of each script.  "x?" looks whether x is there and, if so, skips
\* the next command.
Script ==
    [idle     |-> <<>>,
     start    |-> Start,
     stop     |-> Stop,
     restart  |-> Stop \o Start,
     rollback |-> Stop,
     hotplug  |-> Hotplug]

TypeOK ==
    /\ table \in {"absent", "empty", "loaded"}
    /\ rule \in BOOLEAN /\ route \in BOOLEAN /\ ifup \in BOOLEAN
    /\ job \in [Process -> DOMAIN Script] /\ at \in [Process -> Nat]
    /\ \A p \in Process : IF job[p] = "idle" THEN at[p] = 1 ELSE at[p] \in 1..Len(Script[job[p]])
    /\ asked \in {"nothing", "start", "stop", "restart", "rollback"}

Init ==
    /\ table = "absent" /\ rule = FALSE /\ route = FALSE
    /\ job = [p \in Process |-> "idle"] /\ at = [p \in Process |-> 1]
    /\ ifup = FALSE /\ asked = "nothing"

-----------------------------------------------------------------------------
There(cmd) == CASE cmd = "table?" -> table # "absent"
                [] cmd = "rule?"  -> rule
                [] cmd = "route?" -> route

\* What the load may leave.  It is one transaction, begins with `flush table inet
\* xray`, which needs the table, and may fail over the file, too; the scripts go on.
Loaded == IF table = "absent" THEN {"absent"} ELSE {table, "loaded"}

\* What a command may leave of the table.
Table(cmd) == CASE cmd = "table+" -> {IF table = "absent" THEN "empty" ELSE table}
                [] cmd = "table-" -> {"absent"}
                [] cmd = "load"   -> Loaded
                [] OTHER          -> {table}

\* Mutant: one command too many.
OverLate(next, script) == next > Len(script) + 1

\* The script has no more commands.
Over(next, script) == next > Len(script)

Step(p) ==
    LET script == Script[job[p]]
        cmd == script[at[p]]
        next == at[p] + (IF cmd \in {"table?", "rule?", "route?"} /\ There(cmd) THEN 2 ELSE 1)
    IN  /\ job[p] # "idle"
        /\ table' \in Table(cmd)
        /\ rule' = (cmd = "rule+" \/ (rule /\ cmd # "rule-"))
        /\ route' = (cmd = "route+" \/ (route /\ cmd # "route-"))
        /\ IF Over(next, script)
           THEN /\ job' = [job EXCEPT ![p] = "idle"] /\ at' = [at EXCEPT ![p] = 1]
                /\ asked' = IF p = "operator" THEN job[p] ELSE asked
           ELSE at' = [at EXCEPT ![p] = next] /\ UNCHANGED <<job, asked>>
        /\ UNCHANGED ifup

\* The operator runs a script.
Run(s) ==
    /\ job["operator"] = "idle"
    /\ job' = [job EXCEPT !["operator"] = s]
    /\ UNCHANGED <<table, rule, route, at, ifup, asked>>

\* netifd runs the hotplug script for wan, lan or pppoe-wan.
Ifup ==
    /\ ifup /\ job["netifd"] = "idle"
    /\ ifup' = FALSE
    /\ job' = [job EXCEPT !["netifd"] = "hotplug"]
    /\ UNCHANGED <<table, rule, route, at, asked>>

\* A reload of the network, as an apply does, may take rule and route away, and
\* brings interfaces up afterwards.
NetworkReload ==
    /\ rule' \in {FALSE, rule} /\ route' \in {FALSE, route}
    /\ ifup' = TRUE
    /\ UNCHANGED <<table, job, at, asked>>

Reboot ==
    /\ table' = "absent" /\ rule' = FALSE /\ route' = FALSE
    /\ job' = [operator |-> IF Enabled THEN "start" ELSE "idle", netifd |-> "idle"]
    /\ at' = [p \in Process |-> 1]
    /\ ifup' = TRUE /\ asked' = "nothing"

Next ==
    \/ \E p \in Process : Step(p)
    \/ \E s \in {"start", "stop", "restart", "rollback"} : Run(s)
    \/ Ifup \/ NetworkReload \/ Reboot

Spec == Init /\ [][Next]_vars

\* Scripts go on, queued events are handled.
FairSpec == Spec /\ WF_vars(Ifup) /\ \A p \in Process : WF_vars(Step(p))

-----------------------------------------------------------------------------
(* Properties *)

Quiet == ~ifup /\ \A p \in Process : job[p] = "idle"

\* When no script runs and no event is queued, traffic that the table marks has
\* the rule and the route that take it to xray; it is not lost on the way,
\* whatever the order of starts, stops, network reloads and hotplug events.
MarkedIsRouted == Quiet /\ table = "loaded" => rule /\ route

\* After a stop or rollback.sh nothing is marked any more, also when a hotplug
\* event that began before it ends after it.
StopSticks == job["operator"] = "idle" /\ asked \in {"stop", "rollback"} => table = "absent"

\* A rule that a network reload takes away while traffic is marked comes back.
RuleHeals == (table = "loaded" /\ ~rule) ~> (rule \/ table # "loaded")

-----------------------------------------------------------------------------
(* Why they hold: what the scripts under way still have before them *)

Starts == {"start", "restart"}
Stops == {"stop", "rollback"}

\* The commands that script p is at or before.
Ahead(p) == {Script[job[p]][i] : i \in at[p]..Len(Script[job[p]])}

\* Rule or route is there, or an event or a script is about to add it.
Coming(there, add) == there \/ ifup \/ \E p \in Process : add \in Ahead(p)

\* Whatever is marked has its rule and route, now or soon, and a stop takes the table
\* away first, for good: no event brings it back.
RulesInv ==
    /\ job["operator"] # "hotplug" /\ job["netifd"] \in {"idle", "hotplug"}
    /\ table # "absent" => Coming(rule, "rule+") /\ Coming(route, "route+")
    /\ job["operator"] \in Stops /\ "table-" \notin Ahead("operator") => table = "absent"
    /\ job["operator"] = "idle" /\ asked \in Stops => table = "absent"

-----------------------------------------------------------------------------
(* What the scripts say and do not do *)

\* The hotplug script: "Interface ... is up, restoring rules..."; when it is done
\* and nothing else runs, they are loaded.
HotplugRestores == [][job["netifd"] = "hotplug" /\ Quiet' => table' = "loaded"]_vars

\* The init script: "xray-rules started".  It says so, too, when the load failed.
StartLoads == Quiet /\ asked \in Starts => table = "loaded"

\* rollback.sh: "Roll back wrtbox changes".  Nothing of them is there until the
\* operator starts them again.
RollbackSticks == Quiet /\ asked = "rollback" => ~rule /\ ~route
=============================================================================
