----------------------------- MODULE Antifilter -----------------------------
(***************************************************************************)
(* usr/bin/update-antifilter.sh, which cron runs on the router: download   *)
(* the list of blocked networks, store it, insert a rule for it into       *)
(* xray's config, test the result and move it into place.  An apply saves, *)
(* replaces and may restore the same config file.  One action per step of  *)
(* the script that another process or a power cut can come between.        *)
(***************************************************************************)
EXTENDS Integers, Sequences, FiniteSets

CONSTANTS
    List,       \* the contents ipsum.lst may have
    Version,    \* the rendered configs an apply may put in place
    Rendered,   \* Rendered[v]: .routing.rules of version v
    GeoipRu,    \* the .ip of a rule that contains "geoip:ru"
    NoEntries,  \* the empty array as the .ip of a rule
    OtherIp,    \* the .ip of the other rules
    Torn,       \* a file that is missing or cut short
    NoDir,      \* no list, and no directory /etc/xray/lists to put it in
    MaxCuts,    \* bound on the number of power cuts
    MaxApplies, \* bound on the number of applies
    MaxUpdates  \* bound on the number of runs of the script

Ip == List \cup {GeoipRu, NoEntries} \cup OtherIp

\* A rule as the jq program sees it: its .ip, and whether it has the marker
\* "_antifilter".  No rule in a file has it.
Rule == [ip : Ip, mark : BOOLEAN]
Filed == [ip : Ip, mark : {FALSE}]
Entries(rules) == {rules[i].ip : i \in 1..Len(rules)}

ASSUME AntifilterAssumption ==
    /\ \A v \in Version : Rendered[v] \in Seq(Filed) /\ NoEntries \notin Entries(Rendered[v])
    /\ NoEntries \notin List /\ GeoipRu \notin List \cup {NoEntries}
    /\ Torn \notin List /\ NoDir \notin List
    /\ MaxCuts \in Nat /\ MaxApplies \in Nat /\ MaxUpdates \in Nat

VARIABLES
    config,     \* /etc/xray/config.json: its rules, or Torn
    list,       \* /etc/xray/lists/antifilter.txt
    pc,         \* the script's next step
    listTmp,    \* /tmp/antifilter.tmp
    configTmp,  \* /tmp/xray.config.new
    exit,       \* how the last run of the script ended
    applying,   \* an apply is between its snapshot and its end
    saved,      \* its snapshot of config
    base,       \* history: the rules the last apply left behind
    overlapped, \* history: the script ran beside an apply, and none succeeded since
    updates, applies, cuts

scriptVars == <<pc, listTmp, configTmp, exit, updates>>
applyVars == <<applying, saved, base, overlapped, applies>>
vars == <<config, list, scriptVars, applyVars, cuts>>

TypeOK ==
    /\ \A c \in {config, configTmp, saved, base} : c = Torn \/ c \in Seq(Filed)
    /\ list \in List \cup {Torn, NoDir}
    /\ listTmp \in List \cup {Torn}
    /\ pc \in {"idle", "compare", "store", "rewrite", "test", "unlink", "copy"}
    /\ configTmp # Torn => pc \in {"test", "unlink", "copy"}
    /\ exit \in {"none", "failed", "unchanged", "refused", "updated", "cut"}
    /\ applying \in BOOLEAN /\ overlapped \in BOOLEAN
    /\ updates \in Nat /\ applies \in Nat /\ cuts \in Nat

\* A config has been applied, no update has run yet.
Init ==
    /\ \E v \in Version : config = Rendered[v] /\ base = Rendered[v]
    /\ list \in {Torn, NoDir}
    /\ pc = "idle" /\ listTmp = Torn /\ configTmp = Torn /\ exit = "none"
    /\ applying = FALSE /\ saved = config /\ overlapped = FALSE
    /\ updates = 0 /\ applies = 0 /\ cuts = 0

-----------------------------------------------------------------------------
(* The jq program *)

Marked(rules) == \E i \in 1..Len(rules) : rules[i].mark

\* Mutant: the rule is appended after the one for geoip:ru.
AddedAfter(acc, r, cidrs) ==
    IF r.mark THEN acc
    ELSE IF r.ip = GeoipRu /\ ~Marked(acc)
         THEN acc \o <<r, [ip |-> cidrs, mark |-> TRUE]>>
         ELSE Append(acc, r)

\* Mutant: the rule for geoip:ru is replaced.
AddedInstead(acc, r, cidrs) ==
    IF r.mark THEN acc
    ELSE IF r.ip = GeoipRu /\ ~Marked(acc)
         THEN Append(acc, [ip |-> cidrs, mark |-> TRUE])
         ELSE Append(acc, r)

\* One step of the `reduce`: a marked rule is dropped, the new one comes right
\* before the first that has geoip:ru.
Added(acc, r, cidrs) ==
    IF r.mark THEN acc
    ELSE IF r.ip = GeoipRu /\ ~Marked(acc)
         THEN acc \o <<[ip |-> cidrs, mark |-> TRUE], r>>
         ELSE Append(acc, r)

\* Mutant: the marker stays.
RefreshedMarked(rules, cidrs) ==
    LET acc[n \in 0..Len(rules)] ==
            IF n = 0 THEN <<>> ELSE Added(acc[n - 1], rules[n], cidrs)
    IN  acc[Len(rules)]

\* The whole program; del() takes the marker off again.
Refreshed(rules, cidrs) ==
    LET acc[n \in 0..Len(rules)] ==
            IF n = 0 THEN <<>> ELSE Added(acc[n - 1], rules[n], cidrs)
        new == acc[Len(rules)]
    IN  [i \in 1..Len(new) |-> [new[i] EXCEPT !.mark = FALSE]]

-----------------------------------------------------------------------------
Exit(result) ==
    /\ pc' = "idle" /\ exit' = result
    /\ listTmp' = Torn /\ configTmp' = Torn
    /\ UNCHANGED updates

Goto(step) == pc' = step /\ UNCHANGED <<exit, updates>>

\* cron starts the script, and curl downloads the list whole.
Fetch(l) ==
    /\ pc = "idle" /\ updates < MaxUpdates
    /\ updates' = updates + 1 /\ exit' = "none"
    /\ listTmp' = l /\ pc' = "compare"
    /\ overlapped' = (overlapped \/ applying)
    /\ UNCHANGED <<config, list, configTmp, applying, saved, base, applies, cuts>>

\* The download fails, is too small or does not begin like a list.
FetchFails ==
    /\ pc = "idle" /\ updates < MaxUpdates
    /\ updates' = updates + 1 /\ exit' = "failed"
    /\ UNCHANGED <<config, list, pc, listTmp, configTmp, applyVars, cuts>>

\* [ -f "$LIST_FILE" ] && cmp -s
Compare ==
    /\ pc = "compare"
    /\ IF list = listTmp THEN Exit("unchanged")
                         ELSE Goto("store") /\ UNCHANGED <<listTmp, configTmp>>
    /\ UNCHANGED <<config, list, applyVars, cuts>>

\* mv "$LIST_TMP" "$LIST_FILE"; without the directory it fails, and the script
\* goes on.
Store ==
    /\ pc = "store"
    /\ list' = IF list = NoDir THEN NoDir ELSE listTmp
    /\ Goto("rewrite")
    /\ UNCHANGED <<config, listTmp, configTmp, applyVars, cuts>>

\* jq reads the list (an empty array if there is none) and the config (an
\* empty result if it cannot be parsed).
Rewrite ==
    /\ pc = "rewrite"
    /\ configTmp' = IF config = Torn THEN Torn
                    ELSE Refreshed(config, IF list \in List THEN list ELSE NoEntries)
    /\ Goto("test")
    /\ UNCHANGED <<config, list, listTmp, applyVars, cuts>>

\* `xray -test` refuses what it cannot parse, and a rule that matches nothing.
Passes(c) == c # Torn /\ NoEntries \notin Entries(c)

\* Mutant: the test's exit status is not looked at.
TestIgnored(ok) ==
    /\ pc = "test"
    /\ Goto("unlink")
    /\ UNCHANGED <<config, list, listTmp, configTmp, applyVars, cuts>>

\* It may refuse a config for reasons of its own, too.
Test(ok) ==
    /\ pc = "test"
    /\ ok => Passes(configTmp)
    /\ IF ok THEN Goto("unlink") /\ UNCHANGED <<listTmp, configTmp>> ELSE Exit("refused")
    /\ UNCHANGED <<config, list, applyVars, cuts>>

\* mv "$CONFIG_TMP" "$CONFIG" from the tmpfs to the flash: mv removes the old
\* file and then copies.
Unlink ==
    /\ pc = "unlink"
    /\ config' = Torn
    /\ Goto("copy")
    /\ UNCHANGED <<list, listTmp, configTmp, applyVars, cuts>>

CopyOver ==
    /\ pc = "copy"
    /\ config' = configTmp
    /\ Exit("updated")
    /\ UNCHANGED <<list, applyVars, cuts>>

-----------------------------------------------------------------------------
\* An apply's snapshot.
Save ==
    /\ ~applying /\ applies < MaxApplies
    /\ applying' = TRUE /\ saved' = config /\ applies' = applies + 1
    /\ overlapped' = (overlapped \/ pc # "idle")
    /\ UNCHANGED <<config, list, scriptVars, base, cuts>>

\* Its swap, and it succeeds.
SwapIn(v) ==
    /\ applying
    /\ config' = Rendered[v] /\ base' = Rendered[v]
    /\ applying' = FALSE /\ overlapped' = (pc # "idle")
    /\ UNCHANGED <<list, scriptVars, saved, applies, cuts>>

\* It fails and restores the snapshot, if that has the file (which may be cut
\* short there).
Undo ==
    /\ applying
    /\ config' \in IF saved = Torn THEN {config, Torn} ELSE {saved}
    /\ applying' = FALSE
    /\ UNCHANGED <<list, scriptVars, saved, base, overlapped, applies, cuts>>

\* The router loses power: /tmp is empty, cron starts anew.
PowerCut ==
    /\ cuts < MaxCuts /\ cuts' = cuts + 1
    /\ list' \in IF pc = "store" /\ list # NoDir THEN {list, Torn} ELSE {list}
    /\ Exit(IF pc = "idle" THEN exit ELSE "cut")
    /\ applying' = FALSE
    /\ UNCHANGED <<config, saved, base, overlapped, applies>>

Script ==
    \/ (\E l \in List : Fetch(l)) \/ FetchFails
    \/ Compare \/ Store \/ Rewrite \/ (\E ok \in BOOLEAN : Test(ok)) \/ Unlink \/ CopyOver

Next ==
    \/ Script
    \/ Save \/ (\E v \in Version : SwapIn(v)) \/ Undo
    \/ PowerCut

Spec == Init /\ [][Next]_vars

-----------------------------------------------------------------------------
(* Properties *)

\* Nothing that `xray -test` refuses is moved into place, whatever runs next to
\* the script: a list that could not be stored does not reach the config.
OnlyTested == config = Torn \/ Passes(config)

WithoutLists(rules) ==
    LET kept[n \in 0..Len(rules)] ==
            IF n = 0 THEN <<>>
            ELSE IF rules[n].ip \in List THEN kept[n - 1] ELSE Append(kept[n - 1], rules[n])
    IN  kept[Len(rules)]

\* Updates, applies and undone applies in any number leave all rules of the
\* config last applied in place and in their order, unless an update ran beside
\* an apply; only rules for lists are added.
RulesKept ==
    ~overlapped /\ config # Torn => WithoutLists(config) = WithoutLists(base)

Before(rules, ip) ==
    \A i \in 1..Len(rules) :
        rules[i].ip = GeoipRu /\ (\A j \in 1..i - 1 : rules[j].ip # GeoipRu)
        => i > 1 /\ rules[i - 1].ip = ip

\* A run that reports an update has put the stored list right before the first
\* rule for geoip:ru, which would otherwise send its networks direct.
ListBeforeGeoip ==
    [][exit # "updated" /\ exit' = "updated" => Before(config', list')]_vars

\* OnlyTested needs the snapshot and the tested file to be sound as well.
SoundInv ==
    /\ OnlyTested
    /\ saved = Torn \/ Passes(saved)
    /\ pc \in {"unlink", "copy"} => Passes(configTmp)

\* Why RulesKept holds: what an apply saves and what the script has made of the
\* config agree with the rules last applied, too, unless the script ran beside it.
KeptInv ==
    ~overlapped =>
        /\ config # Torn => WithoutLists(config) = WithoutLists(base)
        /\ applying /\ saved # Torn => WithoutLists(saved) = WithoutLists(base)
        /\ pc \in {"test", "unlink", "copy"} /\ Passes(configTmp) =>
                WithoutLists(configTmp) = WithoutLists(base)

\* Why ListBeforeGeoip holds: the list does not change once the config has it.
OrderInv == pc \in {"test", "unlink", "copy"} /\ Passes(configTmp) => Before(configTmp, list)

-----------------------------------------------------------------------------
(* What the documentation says and the code does not do *)

\* Header of the script: it rewrites config.json "with the new CIDR set".  The
\* sets of earlier updates are no longer there.
OneSet ==
    config # Torn =>
        Cardinality({i \in 1..Len(config) : config[i].ip \in List})
            <= Cardinality({i \in 1..Len(base) : base[i].ip \in List}) + 1

\* Header of the script: it refreshes the list "and" rewrites the config.  When it
\* finds no changes, the config has the list.
NoChangesMeansInForce ==
    /\ exit = "unchanged" /\ pc = "idle" /\ ~applying /\ config # Torn
    /\ GeoipRu \in Entries(config)
    => list \in Entries(config)

\* apply.go: Run "returns nil when the new config is in place".  It is there until
\* the next apply, lists aside.
AppliedConfigStays ==
    ~applying /\ pc = "idle" /\ config # Torn => WithoutLists(config) = WithoutLists(base)
=============================================================================
