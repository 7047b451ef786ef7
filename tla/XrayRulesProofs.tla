-------------------------- MODULE XrayRulesProofs ---------------------------
(***************************************************************************)
(* Why the scripts keep table, rule and route together, whatever order     *)
(* starts, stops, reloads of the network, hotplug events and reboots come  *)
(* in: RulesInv is inductive.                                              *)
(***************************************************************************)
EXTENDS XrayRules, SequenceTheorems, TLAPS

Scripts == {"idle", "start", "stop", "restart", "rollback", "hotplug"}
Command == {"table?", "table+", "table-", "load", "rule?", "rule+", "rule-",
            "route?", "route+", "route-"}

-----------------------------------------------------------------------------
(* What the scripts look like *)

LEMMA ScriptTexts ==
    /\ DOMAIN Script = Scripts
    /\ Script["idle"] = <<>>
    /\ Script["start"] = <<"table?", "table+", "load", "rule?", "rule+", "route?", "route+">>
    /\ Script["stop"] = <<"table-", "rule-", "route-">>
    /\ Script["rollback"] = <<"table-", "rule-", "route-">>
    /\ Script["hotplug"] = <<"rule?", "rule+", "route?", "route+", "table?", "load">>
    /\ Script["restart"] = <<"table-", "rule-", "route-", "table?", "table+", "load",
                             "rule?", "rule+", "route?", "route+">>
<1>1. DOMAIN Script = Scripts
  BY DEF Script, Scripts
<1>2. /\ Script["idle"] = <<>> /\ Script["start"] = Start /\ Script["stop"] = Stop
      /\ Script["rollback"] = Stop /\ Script["hotplug"] = Hotplug
      /\ Script["restart"] = Stop \o Start
  BY DEF Script
<1>3. Stop \o Start = <<"table-", "rule-", "route-", "table?", "table+", "load",
                        "rule?", "rule+", "route?", "route+">>
  <2>. DEFINE c == Stop \o Start
  <2>1. Stop \in Seq(Command) /\ Len(Stop) = 3 /\ Start \in Seq(Command) /\ Len(Start) = 7
    BY DEF Stop, Start, Command
  <2>2. /\ c \in Seq(Command) /\ Len(c) = Len(Stop) + Len(Start)
        /\ \A i \in 1..Len(Stop) + Len(Start) :
                c[i] = IF i <= Len(Stop) THEN Stop[i] ELSE Start[i - Len(Stop)]
    BY <2>1, ConcatProperties, Zenon
  <2>. HIDE DEF c
  <2>3. c = <<Stop[1], Stop[2], Stop[3], Start[1], Start[2], Start[3], Start[4], Start[5],
              Start[6], Start[7]>>
    BY <2>1, <2>2
  <2>4. c = <<"table-", "rule-", "route-", "table?", "table+", "load", "rule?", "rule+",
              "route?", "route+">>
    BY <2>3 DEF Stop, Start
  <2>. QED
    BY <2>4 DEF c
<1>. QED
  BY <1>1, <1>2, <1>3 DEF Start, Stop, Hotplug

\* Every look at something is followed by what it may spare, and nothing is done
\* twice.
LEMMA ScriptOrder ==
    ASSUME NEW s \in Scripts, NEW i \in 1..Len(Script[s])
    PROVE  /\ Len(Script[s]) \in Nat
           /\ Script[s][i] = "table?" /\ s # "hotplug" => i < Len(Script[s]) /\ Script[s][i + 1] = "table+"
           /\ Script[s][i] = "table?" /\ s = "hotplug" => i < Len(Script[s]) /\ Script[s][i + 1] = "load"
           /\ Script[s][i] = "rule?" => i < Len(Script[s]) /\ Script[s][i + 1] = "rule+"
           /\ Script[s][i] = "route?" => i < Len(Script[s]) /\ Script[s][i + 1] = "route+"
           /\ \A j \in 1..Len(Script[s]) : Script[s][j] = Script[s][i] => j = i
           /\ Script[s][i] \in Command
<1>1. CASE s = "idle"
  BY <1>1, ScriptTexts
<1>2. CASE s = "start"
  BY <1>2, ScriptTexts DEF Command
<1>3. CASE s \in {"stop", "rollback"}
  BY <1>3, ScriptTexts DEF Command
<1>4. CASE s = "restart"
  <2>1. Len(Script["restart"]) = 10 /\ \A j \in 1..10 : Script["restart"][j] \in Command
    BY ScriptTexts DEF Command
  <2>2. \A j, n \in 1..10 : Script["restart"][j] = Script["restart"][n] => j = n
    BY ScriptTexts
  <2>3. \A n \in 1..10 : /\ Script["restart"][n] = "table?" => n < 10 /\ Script["restart"][n + 1] = "table+"
                         /\ Script["restart"][n] = "rule?" => n < 10 /\ Script["restart"][n + 1] = "rule+"
                         /\ Script["restart"][n] = "route?" => n < 10 /\ Script["restart"][n + 1] = "route+"
    BY ScriptTexts
  <2>. QED
    BY <1>4, <2>1, <2>2, <2>3
<1>5. CASE s = "hotplug"
  BY <1>5, ScriptTexts DEF Command
<1>. QED
  BY <1>1, <1>2, <1>3, <1>4, <1>5 DEF Scripts

Takes == {"table-", "rule-", "route-"}
Gives == {"table+", "load", "rule+", "route+"}

\* What a script takes away it gives back later, unless it is there to stop.
LEMMA ScriptPurpose ==
    ASSUME NEW s \in Scripts, NEW i \in 1..Len(Script[s])
    PROVE  /\ s \in Starts /\ Script[s][i] \in Takes =>
                \A add \in Gives : \E j \in i + 1..Len(Script[s]) : Script[s][j] = add
           /\ s # "hotplug" /\ Script[s][i] = "table+" =>
                \A add \in {"rule+", "route+"} : \E j \in i + 1..Len(Script[s]) : Script[s][j] = add
           /\ s \in Stops => /\ Script[s][i] \in Takes
                             /\ Script[s][i] # "table-" => \A j \in i..Len(Script[s]) : Script[s][j] # "table-"
           /\ s = "hotplug" => Script[s][i] \notin Takes \cup {"table+"}
<1>1. CASE s = "idle"
  BY <1>1, ScriptTexts DEF Starts, Stops
<1>2. CASE s = "start"
  BY <1>2, ScriptTexts DEF Starts, Stops, Takes
<1>3. CASE s \in {"stop", "rollback"}
  BY <1>3, ScriptTexts DEF Starts, Stops, Takes
<1>4. CASE s = "restart"
  <2>1. \A add \in Gives : \E j \in 4..10 : Script["restart"][j] = add
    BY ScriptTexts DEF Gives
  <2>2. /\ Script["restart"][i] \in Takes => i <= 3
        /\ Script["restart"][i] = "table+" => i = 5
    BY <1>4, ScriptTexts DEF Takes
  <2>3. Script["restart"][8] = "rule+" /\ Script["restart"][10] = "route+" /\ Len(Script["restart"]) = 10
    BY ScriptTexts
  <2>. QED
    BY <1>4, <2>1, <2>2, <2>3 DEF Starts, Stops
<1>5. CASE s = "hotplug"
  BY <1>5, ScriptTexts DEF Starts, Stops, Takes
<1>. QED
  BY <1>1, <1>2, <1>3, <1>4, <1>5 DEF Scripts

-----------------------------------------------------------------------------
(* Steps *)

\* TypeOK with the jobs each process may have.
Types == TypeOK /\ job["operator"] # "hotplug" /\ job["netifd"] \in {"idle", "hotplug"}

\* A step leaves of a script what comes after its command, but for the one it may
\* have spared because there was no need for it.
LEMMA StepAhead ==
    ASSUME Types, NEW p \in Process, Step(p)
    PROVE  LET cmd == Script[job[p]][at[p]] IN
           /\ job[p] \in Scripts /\ at[p] \in 1..Len(Script[job[p]])
           /\ \A q \in Process : q # p => Ahead(q)' = Ahead(q) /\ job'[q] = job[q]
           /\ Ahead(p)' \subseteq Ahead(p)
           /\ cmd \notin Ahead(p)'
           /\ \A c \in Ahead(p) : \/ c \in Ahead(p)' \cup {cmd}
                                  \/ cmd = "rule?" /\ rule /\ c = "rule+"
                                  \/ cmd = "route?" /\ route /\ c = "route+"
                                  \/ cmd = "table?" /\ table # "absent" /\ c = "table+" /\ job[p] # "hotplug"
                                  \/ cmd = "table?" /\ table # "absent" /\ c = "load" /\ job[p] = "hotplug"
           /\ \/ job' = job
              \/ job'[p] = "idle" /\ Ahead(p)' = {}
<1>. DEFINE s == Script[job[p]]
            i == at[p]
            cmd == s[i]
            skip == cmd \in {"table?", "rule?", "route?"} /\ There(cmd)
            next == i + (IF skip THEN 2 ELSE 1)
            rest == {s[j] : j \in next..Len(s)}
<1>1. job[p] \in Scripts /\ job[p] # "idle" /\ i \in 1..Len(s) /\ Len(s) \in Nat
  <2>1. job[p] \in Scripts /\ job[p] # "idle" /\ i \in 1..Len(s)
    BY ScriptTexts DEF Types, TypeOK, Step
  <2>. QED
    BY <2>1, ScriptOrder
<1>2. \A q \in Process : q # p => job'[q] = job[q] /\ at'[q] = at[q]
  BY DEF Step, Types, TypeOK
<1>3. \/ next <= Len(s) /\ job' = job /\ at'[p] = next
      \/ next > Len(s) /\ job'[p] = "idle" /\ at'[p] = 1
  BY <1>1 DEF Step, Over, Types, TypeOK
<1>4. Ahead(p)' = rest
  <2>1. CASE next <= Len(s) /\ job' = job /\ at'[p] = next
    BY <2>1 DEF Ahead
  <2>2. CASE next > Len(s) /\ job'[p] = "idle" /\ at'[p] = 1
    BY <1>1, <2>2, ScriptTexts DEF Ahead
  <2>. QED
    BY <1>3, <2>1, <2>2
<1>5. \A j \in 1..Len(s) : s[j] = cmd => j = i
  BY <1>1, ScriptOrder
<1>6. skip => \/ cmd = "rule?" /\ rule /\ i < Len(s) /\ s[i + 1] = "rule+"
              \/ cmd = "route?" /\ route /\ i < Len(s) /\ s[i + 1] = "route+"
              \/ cmd = "table?" /\ table # "absent" /\ job[p] # "hotplug" /\ i < Len(s) /\ s[i + 1] = "table+"
              \/ cmd = "table?" /\ table # "absent" /\ job[p] = "hotplug" /\ i < Len(s) /\ s[i + 1] = "load"
  BY <1>1, ScriptOrder DEF There
<1>7. \A c \in Ahead(p) : c \in rest \/ c = cmd \/ (skip /\ c = s[i + 1])
  BY <1>1 DEF Ahead
<1>8. rest \subseteq Ahead(p) /\ cmd \notin rest
  BY <1>1, <1>5 DEF Ahead
<1>. HIDE DEF skip, rest
<1>9. job' = job \/ (job'[p] = "idle" /\ Ahead(p)' = {})
  BY <1>1, <1>3, <1>4 DEF rest
<1>10. \A q \in Process : q # p => Ahead(q)' = Ahead(q) /\ job'[q] = job[q]
  BY <1>2 DEF Ahead
<1>. QED
  BY <1>1, <1>4, <1>6, <1>7, <1>8, <1>9, <1>10

\* What a command does to the three things, and by whom.
LEMMA StepEffect ==
    ASSUME Types, NEW p \in Process, Step(p)
    PROVE  LET cmd == Script[job[p]][at[p]] IN
           /\ cmd \in Command
           /\ table' \in Table(cmd) /\ ifup' = ifup
           /\ rule' = (cmd = "rule+" \/ (rule /\ cmd # "rule-"))
           /\ route' = (cmd = "route+" \/ (route /\ cmd # "route-"))
           /\ asked' = IF p = "operator" /\ job' # job THEN job[p] ELSE asked
           /\ p = "netifd" => job[p] = "hotplug"
           /\ p = "operator" => job[p] \in Starts \cup Stops
           /\ p \in {"operator", "netifd"}
<1>1. job[p] \in Scripts /\ at[p] \in 1..Len(Script[job[p]]) /\ job[p] # "idle"
  BY StepAhead DEF Step
<1>2. Script[job[p]][at[p]] \in Command
  BY <1>1, ScriptOrder
<1>3. CASE job' = job
  BY <1>1, <1>2, <1>3 DEF Step, Types, TypeOK, Process, Starts, Stops, Scripts
<1>4. CASE job' # job
  BY <1>1, <1>2, <1>4 DEF Step, Types, TypeOK, Process, Starts, Stops, Scripts
<1>. QED
  BY <1>3, <1>4

LEMMA StepTypes ==
    ASSUME Types, NEW p \in Process, Step(p)
    PROVE  TypeOK' /\ (job["operator"] # "hotplug")' /\ (job["netifd"] \in {"idle", "hotplug"})'
<1>. DEFINE s == Script[job[p]]
            i == at[p]
            next == i + (IF s[i] \in {"table?", "rule?", "route?"} /\ There(s[i]) THEN 2 ELSE 1)
<1>1. /\ job \in [Process -> Scripts] /\ at \in [Process -> Nat]
      /\ job[p] # "idle" /\ i \in 1..Len(s) /\ Len(s) \in Nat
  BY StepAhead, ScriptOrder, ScriptTexts DEF Step, Types, TypeOK
<1>2. \/ next <= Len(s) /\ job' = job /\ at' = [at EXCEPT ![p] = next]
      \/ next > Len(s) /\ job' = [job EXCEPT ![p] = "idle"] /\ at' = [at EXCEPT ![p] = 1]
  BY <1>1 DEF Step, Over
<1>3. next \in Nat /\ next # 0
  BY <1>1
<1>. HIDE DEF next
<1>4. job' \in [Process -> DOMAIN Script] /\ at' \in [Process -> Nat]
  <2>1. "idle" \in DOMAIN Script
    BY ScriptTexts DEF Scripts
  <2>2. job' \in [Process -> DOMAIN Script]
    BY <1>1, <1>2, <2>1, ScriptTexts
  <2>3. at' \in [Process -> Nat]
    BY <1>1, <1>2, <1>3
  <2>. QED
    BY <2>2, <2>3
<1>5. \A q \in Process : IF job'[q] = "idle" THEN at'[q] = 1 ELSE at'[q] \in 1..Len(Script[job'[q]])
  BY <1>1, <1>2, <1>3 DEF Types, TypeOK
<1>6. table' \in {"absent", "empty", "loaded"} /\ rule' \in BOOLEAN /\ route' \in BOOLEAN /\ ifup' \in BOOLEAN
  BY StepEffect DEF Table, Loaded, Types, TypeOK
<1>7. asked' \in {"nothing", "start", "stop", "restart", "rollback"}
  BY StepEffect DEF Types, TypeOK, Starts, Stops
<1>8. (job["operator"] # "hotplug")' /\ (job["netifd"] \in {"idle", "hotplug"})'
  BY <1>1, <1>2 DEF Types, Process
<1>. QED
  BY <1>4, <1>5, <1>6, <1>7, <1>8 DEF TypeOK

\* A command that looks at nothing leaves all that comes after it.
LEMMA StepRest ==
    ASSUME Types, NEW p \in Process, Step(p),
           Script[job[p]][at[p]] \notin {"table?", "rule?", "route?"},
           NEW j \in at[p] + 1..Len(Script[job[p]])
    PROVE  Script[job[p]][j] \in Ahead(p)'
<1>. DEFINE s == job[p]
            i == at[p]
            cmd == Script[s][i]
            c == Script[s][j]
<1>1. s \in Scripts /\ i \in 1..Len(Script[s]) /\ Len(Script[s]) \in Nat
  BY StepAhead, ScriptOrder
<1>2. c \in Ahead(p)
  BY <1>1 DEF Ahead
<1>3. c # cmd
  BY <1>1, ScriptOrder
<1>. HIDE DEF c
<1>4. c \in Ahead(p)'
  BY <1>2, <1>3, StepAhead
<1>. QED
  BY <1>4 DEF c

\* A step neither takes rule or route from what is marked nor marks anything
\* without them, unless its script has yet to add them.
LEMMA StepComing ==
    ASSUME Types, RulesInv, NEW p \in Process, Step(p), table' # "absent"
    PROVE  Coming(rule, "rule+")' /\ Coming(route, "route+")'
<1>. DEFINE s == job[p]
            i == at[p]
            cmd == Script[s][i]
<1>1. s \in Scripts /\ i \in 1..Len(Script[s]) /\ Len(Script[s]) \in Nat
  BY StepAhead, ScriptOrder
<1>2. cmd \notin {"rule?", "route?", "table?"} => \A j \in i + 1..Len(Script[s]) : Script[s][j] \in Ahead(p)'
  BY StepRest
<1>3. CASE table = "absent"
  <2>1. cmd = "table+" /\ s # "hotplug"
    BY <1>1, <1>3, StepEffect, ScriptPurpose DEF Table, Loaded
  <2>2. "rule+" \in Ahead(p)' /\ "route+" \in Ahead(p)'
    BY <1>1, <1>2, <2>1, ScriptPurpose
  <2>. QED
    BY <2>2 DEF Coming
<1>4. CASE table # "absent"
  <2>1. \A add \in {"rule+", "route+"} : \A q \in Process :
            add \in Ahead(q) => \/ add \in Ahead(q)'
                                \/ add = cmd
                                \/ add = "rule+" /\ cmd = "rule?" /\ rule
                                \/ add = "route+" /\ cmd = "route?" /\ route
    BY StepAhead
  <2>2. ASSUME cmd \in {"rule-", "route-"}
        PROVE  "rule+" \in Ahead(p)' /\ "route+" \in Ahead(p)'
    <3>1. s \in Starts \cup Stops /\ p = "operator"
      BY <1>1, <2>2, StepEffect, ScriptPurpose DEF Takes
    <3>2. s \notin Stops
      <4>1. s \in Stops => \A j \in i..Len(Script[s]) : Script[s][j] # "table-"
        BY <1>1, <2>2, ScriptPurpose
      <4>2. s \in Stops => "table-" \notin Ahead(p)
        BY <4>1 DEF Ahead
      <4>. QED
        BY <1>4, <3>1, <4>2 DEF RulesInv
    <3>3. \A add \in Gives : \E j \in i + 1..Len(Script[s]) : Script[s][j] = add
      BY <1>1, <2>2, <3>1, <3>2, ScriptPurpose DEF Takes
    <3>4. cmd \notin {"rule?", "route?", "table?"}
      BY <2>2
    <3>. HIDE DEF cmd, s, i
    <3>. QED
      BY <1>2, <3>3, <3>4 DEF Gives
  <2>3. Coming(rule, "rule+") /\ Coming(route, "route+")
    BY <1>4 DEF RulesInv
  <2>4. /\ ifup' = ifup
        /\ rule' = (cmd = "rule+" \/ (rule /\ cmd # "rule-"))
        /\ route' = (cmd = "route+" \/ (route /\ cmd # "route-"))
    BY StepEffect
  <2>5. Coming(rule, "rule+")'
    BY <2>1, <2>2, <2>3, <2>4 DEF Coming
  <2>6. Coming(route, "route+")'
    BY <2>1, <2>2, <2>3, <2>4 DEF Coming
  <2>. QED
    BY <2>5, <2>6
<1>. QED
  BY <1>3, <1>4

\* The table that a stop has taken away stays away, whichever script goes on.
LEMMA StepOperator ==
    ASSUME Types, RulesInv, NEW p \in Process, Step(p)
    PROVE  /\ job["operator"] \in Stops /\ "table-" \notin Ahead("operator")' => table' = "absent"
           /\ job["operator"] = "idle" /\ asked \in Stops => table' = "absent"
<1>. DEFINE s == job[p]
            i == at[p]
            cmd == Script[s][i]
<1>1. s \in Scripts /\ i \in 1..Len(Script[s]) /\ Len(Script[s]) \in Nat
  BY StepAhead, ScriptOrder
<1>2. table' \in Table(cmd)
  BY StepEffect
<1>3. CASE p = "netifd"
  <2>1. table = "absent" => table' = "absent"
    BY <1>1, <1>2, <1>3, StepEffect, ScriptPurpose DEF Table, Loaded, Takes
  <2>2. Ahead("operator")' = Ahead("operator")
    BY <1>3, StepAhead DEF Process
  <2>. QED
    BY <2>1, <2>2 DEF RulesInv
<1>4. CASE p = "operator"
  <2>1. s \in Starts \cup Stops
    BY <1>4, StepEffect
  <2>2. "table-" \in Ahead(p) => "table-" \in Ahead(p)' \/ cmd = "table-"
    BY <1>4, StepAhead DEF Types
  <2>3. s \in Stops => cmd \in Takes
    BY <1>1, ScriptPurpose
  <2>4. ASSUME s \in Stops, "table-" \notin Ahead(p)'
        PROVE  table' = "absent"
    BY <1>2, <1>4, <2>2, <2>3, <2>4 DEF Table, Takes, RulesInv
  <2>. QED
    BY <1>4, <2>1, <2>4 DEF Starts, Stops
<1>. QED
  BY <1>3, <1>4, StepEffect

LEMMA StepInv ==
    ASSUME TypeOK, RulesInv, NEW p \in Process, Step(p)
    PROVE  TypeOK' /\ RulesInv'
<1>. Types
  BY DEF Types, RulesInv
<1>1. TypeOK' /\ (job["operator"] # "hotplug")' /\ (job["netifd"] \in {"idle", "hotplug"})'
  BY StepTypes
<1>2. (table # "absent" => Coming(rule, "rule+") /\ Coming(route, "route+"))'
  BY StepComing
<1>3. \/ job'["operator"] = job["operator"] /\ asked' = asked
      \/ job'["operator"] = "idle" /\ asked' = job["operator"] /\ Ahead("operator")' = {}
  <2>1. CASE p = "netifd"
    BY <2>1, StepAhead, StepEffect DEF Process
  <2>2. CASE p = "operator"
    BY <2>2, StepAhead, StepEffect
  <2>. QED
    BY <2>1, <2>2, StepEffect
<1>4. (job["operator"] \in Stops /\ "table-" \notin Ahead("operator") => table = "absent")'
  BY <1>3, StepOperator DEF Stops
<1>5. (job["operator"] = "idle" /\ asked \in Stops => table = "absent")'
  BY <1>3, StepOperator, StepEffect
<1>. QED
  BY <1>1, <1>2, <1>4, <1>5 DEF RulesInv

-----------------------------------------------------------------------------
(* The other actions *)

\* A script that begins is as a whole ahead.
LEMMA BeginAhead ==
    ASSUME TypeOK, NEW p \in Process, NEW s \in Scripts \ {"idle"}, job[p] = "idle",
           job' = [job EXCEPT ![p] = s], at' = at
    PROVE  /\ at'[p] = 1 /\ job'[p] = s /\ 1 \in 1..Len(Script[s])
           /\ job' \in [Process -> DOMAIN Script]
           /\ \A q \in Process : Ahead(q) \subseteq Ahead(q)'
           /\ s \in Stops => "table-" \in Ahead(p)'
           /\ s = "hotplug" => "rule+" \in Ahead(p)' /\ "route+" \in Ahead(p)'
<1>1. at'[p] = 1 /\ job'[p] = s /\ \A q \in Process : q # p => job'[q] = job[q] /\ at'[q] = at[q]
  BY DEF TypeOK
<1>2. job' \in [Process -> DOMAIN Script]
  BY ScriptTexts DEF TypeOK
<1>3. Ahead(p) = {}
  BY ScriptTexts DEF Ahead, TypeOK
<1>4. \A q \in Process : Ahead(q) \subseteq Ahead(q)'
  BY <1>1, <1>3 DEF Ahead
<1>5. Ahead(p)' = {Script[s][j] : j \in 1..Len(Script[s])}
  BY <1>1 DEF Ahead
<1>6. CASE s = "start"
  BY <1>1, <1>2, <1>4, <1>5, <1>6, ScriptTexts DEF Starts, Stops
<1>7. CASE s = "restart"
  BY <1>1, <1>2, <1>4, <1>5, <1>7, ScriptTexts DEF Starts, Stops
<1>8. CASE s \in {"stop", "rollback"}
  <2>1. Script[s] = <<"table-", "rule-", "route-">>
    BY <1>8, ScriptTexts
  <2>2. Script[s][1] = "table-" /\ 1 \in 1..Len(Script[s])
    BY <2>1
  <2>3. "table-" \in Ahead(p)'
    BY <1>5, <2>2
  <2>. QED
    BY <1>1, <1>2, <1>4, <1>8, <2>2, <2>3 DEF Starts, Stops
<1>9. CASE s = "hotplug"
  BY <1>1, <1>2, <1>4, <1>5, <1>9, ScriptTexts DEF Starts, Stops
<1>. QED
  BY <1>6, <1>7, <1>8, <1>9 DEF Scripts

LEMMA RunInv ==
    ASSUME TypeOK, RulesInv, NEW s \in {"start", "stop", "restart", "rollback"}, Run(s)
    PROVE  TypeOK' /\ RulesInv'
<1>. DEFINE o == "operator"
<1>1. /\ o \in Process /\ s \in Scripts \ {"idle"} /\ job[o] = "idle" /\ job' = [job EXCEPT ![o] = s]
      /\ at' = at /\ table' = table /\ rule' = rule /\ route' = route /\ ifup' = ifup /\ asked' = asked
  BY DEF Process, Scripts, Run
<1>2. /\ at'[o] = 1 /\ job'[o] = s /\ 1 \in 1..Len(Script[s])
      /\ job' \in [Process -> DOMAIN Script]
      /\ \A q \in Process : Ahead(q) \subseteq Ahead(q)'
      /\ s \in Stops => "table-" \in Ahead(o)'
  BY <1>1, BeginAhead
<1>3. TypeOK'
  BY <1>1, <1>2 DEF TypeOK
<1>4. (table # "absent" => Coming(rule, "rule+") /\ Coming(route, "route+"))'
  BY <1>1, <1>2 DEF RulesInv, Coming
<1>. QED
  BY <1>1, <1>2, <1>3, <1>4 DEF RulesInv, TypeOK, Process

LEMMA IfupInv ==
    ASSUME TypeOK, RulesInv, Ifup
    PROVE  TypeOK' /\ RulesInv'
<1>. DEFINE n == "netifd"
<1>1. /\ n \in Process /\ "hotplug" \in Scripts \ {"idle"} /\ job[n] = "idle"
      /\ job' = [job EXCEPT ![n] = "hotplug"]
      /\ at' = at /\ table' = table /\ rule' = rule /\ route' = route /\ ifup' = FALSE /\ asked' = asked
  BY DEF Process, Scripts, Ifup
<1>2. /\ at'[n] = 1 /\ job'[n] = "hotplug" /\ 1 \in 1..Len(Script["hotplug"])
      /\ job' \in [Process -> DOMAIN Script]
      /\ "rule+" \in Ahead(n)' /\ "route+" \in Ahead(n)'
  BY <1>1, BeginAhead
<1>3. TypeOK'
  BY <1>1, <1>2 DEF TypeOK
<1>4. (Coming(rule, "rule+") /\ Coming(route, "route+"))'
  BY <1>1, <1>2 DEF Coming
<1>5. job'["operator"] = job["operator"] /\ Ahead("operator")' = Ahead("operator")
  BY <1>1 DEF Ahead, TypeOK, Process
<1>. QED
  BY <1>1, <1>2, <1>3, <1>4, <1>5 DEF RulesInv

LEMMA NetworkReloadInv ==
    ASSUME TypeOK, RulesInv, NetworkReload
    PROVE  TypeOK' /\ RulesInv'
<1>1. /\ table' = table /\ job' = job /\ at' = at /\ asked' = asked /\ ifup' = TRUE
      /\ rule' \in {FALSE, rule} /\ route' \in {FALSE, route}
  BY DEF NetworkReload
<1>2. TypeOK'
  BY <1>1 DEF TypeOK
<1>3. Ahead("operator")' = Ahead("operator")
  BY <1>1 DEF Ahead
<1>4. (Coming(rule, "rule+") /\ Coming(route, "route+"))'
  BY <1>1 DEF Coming
<1>. QED
  BY <1>1, <1>2, <1>3, <1>4 DEF RulesInv

LEMMA RebootInv ==
    ASSUME TypeOK, RulesInv, Reboot
    PROVE  TypeOK' /\ RulesInv'
<1>. DEFINE o == "operator"
            boot == IF Enabled THEN "start" ELSE "idle"
<1>1. /\ table' = "absent" /\ rule' = FALSE /\ route' = FALSE /\ ifup' = TRUE /\ asked' = "nothing"
      /\ job' = [operator |-> boot, netifd |-> "idle"] /\ at' = [p \in Process |-> 1]
  BY DEF Reboot
<1>2. boot \in {"start", "idle"}
  OBVIOUS
<1>. HIDE DEF boot
<1>3. job' \in [Process -> {"start", "idle"}] /\ job'[o] = boot /\ job'["netifd"] = "idle"
  BY <1>1, <1>2 DEF Process
<1>4. TypeOK'
  <2>1. job' \in [Process -> DOMAIN Script]
    BY <1>3, ScriptTexts DEF Scripts
  <2>2. at' \in [Process -> Nat] /\ \A p \in Process : at'[p] = 1
    BY <1>1
  <2>3. \A p \in Process : IF job'[p] = "idle" THEN at'[p] = 1 ELSE at'[p] \in 1..Len(Script[job'[p]])
    BY <1>3, <2>2, ScriptTexts
  <2>. QED
    BY <1>1, <2>1, <2>2, <2>3 DEF TypeOK
<1>. QED
  BY <1>1, <1>2, <1>3, <1>4 DEF RulesInv, Starts, Stops

-----------------------------------------------------------------------------
(* The theorems *)

\* What the scripts under way have yet to do makes up for what is missing, at any
\* moment: RulesInv is inductive.
THEOREM RulesInductive == Spec => [](TypeOK /\ RulesInv)
<1>1. Init => TypeOK /\ RulesInv
  <2>. SUFFICES ASSUME Init PROVE TypeOK /\ RulesInv
    OBVIOUS
  <2>1. TypeOK
    BY ScriptTexts DEF Init, TypeOK, Scripts
  <2>. QED
    BY <2>1 DEF Init, RulesInv, Process, Starts, Stops
<1>2. TypeOK /\ RulesInv /\ [Next]_vars => (TypeOK /\ RulesInv)'
  <2>. SUFFICES ASSUME TypeOK, RulesInv, [Next]_vars PROVE TypeOK' /\ RulesInv'
    OBVIOUS
  <2>1. CASE UNCHANGED vars
    BY <2>1 DEF vars, TypeOK, RulesInv, Coming, Ahead
  <2>. QED
    BY <2>1, StepInv, RunInv, IfupInv, NetworkReloadInv, RebootInv DEF Next
<1>. QED
  BY <1>1, <1>2, PTL DEF Spec

\* With nothing under way, nothing is ahead.
LEMMA QuietNothingAhead ==
    ASSUME TypeOK, Quiet
    PROVE  \A p \in Process : Ahead(p) = {}
BY ScriptTexts DEF TypeOK, Quiet, Ahead

\* Marked traffic has the rule and the route that take it to xray, whenever
\* xray-rules, rollback.sh and the hotplug script are done.
THEOREM MarkedIsRoutedAlways == Spec => []MarkedIsRouted
<1>1. TypeOK /\ RulesInv => MarkedIsRouted
  BY QuietNothingAhead DEF RulesInv, MarkedIsRouted, Coming, Quiet
<1>. QED
  BY <1>1, RulesInductive, PTL

\* After a stop or a rollback.sh nothing is marked.
THEOREM StopSticksAlways == Spec => []StopSticks
<1>1. RulesInv => StopSticks
  BY DEF RulesInv, StopSticks, Stops
<1>. QED
  BY <1>1, RulesInductive, PTL
=============================================================================
