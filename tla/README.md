# wrtbox in TLA+

Specifications of [wrtbox](https://github.com/itslavrov/wrtbox), the tool that
renders a `wrtbox.yaml` into OpenWrt and xray configuration and pushes it to a
router over ssh: what `wrtbox apply` and `wrtbox rollback` do to the router when
calls fail, connections drop and workstations die, what the scripts it installs
there do next to it, how the commands find and reach the router they are meant
for, and what a document becomes on its way to xray's routing rules: checked
with TLC on small instances and for the most part proved with TLAPS for all of
them.

Paths below are relative to the repository. `PROJECT.json` lists the runs, the
source lines behind every definition, the hazards and the theorems.

## 1. The system

wrtbox is a set of one-shot commands on a workstation. There is no daemon: what
runs without an operator are the scripts it installs on the router.

| part | state | operations | hard because |
|---|---|---|---|
| **apply pipeline** `internal/apply`, `cmd/apply.go` | on the router: live files, `/root/wrtbox-staging/<ts>`, `/root/wrtbox-backups/<ts>`; in the run: stage, timestamp | render, probe, install packages, upload, validate, snapshot, swap, reload, post-check, prune, undo | some 40 remote calls in sequence, each of which may fail, half happen, or happen and be reported as failed; the run may die between any two |
| **rollback command** `cmd/rollback.go` | the same directories | list, choose, restore, reload | shares the files with apply without a lock; what "latest" is depends on what applies and prunes left |
| **ssh executor** `internal/ssh/client.go` | one connection, one sftp session | Run, Upload, Download, MkdirAll, Close | tmp-and-rename with a fallback; cancellation against a goroutine that writes the buffers |
| **dialling, known_hosts** `ssh/client.go`, `cmd/remote.go` | the known_hosts file | Dial, trust on first use | file read once, judged later, appended to by others |
| **hosts inventory** `internal/hosts` | hosts.yaml, ~/.ssh/config | Load, Resolve, Override | four sources, precedence per field |
| **config** `internal/config`, `internal/device` | the parsed document | Parse, Validate, two passes of defaults, adapters | zero values that stand for "unset"; defaults that validation makes unreachable |
| **renderer** `internal/render`, `internal/uci` | none | Render: the twelve managed files | sections that must agree with one another and with xray's rules |
| **xray config, nft** `internal/transport/xray` | none | buildRules, BuildNFT | first match wins among eleven groups of rules |
| **scripts on the router** `internal/render/scripts.go` | xray's config and list, nft table, ip rule, route | init.d, hotplug, cron updaters, rollback.sh | run at any time, next to an apply and to one another |
| **lists, diff, detect, other CLI** | none | read and print | pure functions and single calls |

How they interact. `cmd/apply.go` loads a config, resolves and dials a router
and calls `apply.Run`, which renders and then talks to the router through
`ssh.Executor` alone, one call at a time. `cmd/rollback.go` uses `ListBackups`
and `Restore` of the same package. The commands share no state on the
workstation except known_hosts, and all their state on the router: nothing
there locks. The cron scripts rewrite `etc/xray/config.json`, a managed path.

What makes each part correct:

* apply: whatever fails, what a run overwrote can be restored; its result tells
  what is on the router; nothing goes live that was refused; it ends; pruning
  takes only what is old enough.
* rollback: it installs the snapshot it names, and by default undoes the last
  apply; success means the services have read the restored files.
* executor: a target file is the old one or the new one, and a result is
  complete when it is returned.
* known_hosts: a known host's key never changes silently.
* config: the layers take precedence as documented, defaults are idempotent.
* renderer, xray: interface, DHCP pool, firewall and routing rules agree; private
  addresses never leave through the tunnel.
* scripts: an update keeps the rest of the config, the table, rule and route come
  and go together.

## 2. Modules

What happens on the router during an apply or a rollback:

| module | models | correspondence |
|---|---|---|
| `Remote` | one remote call as its callers see it | `Replies`, `Copied`, `Uploaded` are `Client.Run`, the `cp -a` commands, `Client.Upload` |
| `Router` | the router's files | a file is the version it was rendered from, `Stock`, `Torn` or `Absent`; `Removed` is `rm -rf` |
| `Services` | the reload step | `ReloadCmds` is `reloadCmds` joined with `&&`, `RollbackReload` the list of rollback.go; a list is a sequence of commands, each with the `&&`, `\|\|` or `;` before it, and `Status` evaluates it as the shell does; `Vouched` are the services its success says something about |
| `Apply` | `apply.Run` | `pc` is the stage, `k` the loop index, one action per remote call; `live`, `staging`, `backup`, `snaps` are the directories, `loaded` what each service has read; `pre` and `restored` are history |
| `AtomicRouter` | what an operator relies on: seen between runs, an apply is one step | refined by `Apply` with `tree <- RouterView`, `busy <- pc # "idle"` |
| `Rollback` | the rollback command | one action per remote call; `RShow` is `--list`, `RTo` is `--to`, `RLatest` the default |
| `Wrtbox` | applies and rollbacks on one router | `Apply` extended, `Rollback` instantiated over the same files; `Exclusive` is an operator who runs one command at a time |
| `Operators` | two applies at once | `Apply` extended and instantiated a second time: the directories are shared, program counter, connection and history are not; `Distinct`: they start in different seconds |

The scripts on the router:

| module | models | correspondence |
|---|---|---|
| `Antifilter` | update-antifilter.sh, next to applies and power cuts | `pc` is the script's next step; `config`, `list`, `listTmp`, `configTmp` are its files; `Added` and `Refreshed` are the jq program; `Save`, `SwapIn`, `Undo` are what an apply does to the same file |
| `XrayRules` | xray-rules start, stop, restart; the hotplug script; rollback.sh | a script is a sequence of commands, `"x?"` a test that skips the next one; `job` and `at` say what the operator and netifd run and where; `table`, `rule`, `route` are what the commands change |

From a document to the router's behaviour:

| module | models | correspondence |
|---|---|---|
| `Config` | validation and defaults | `Valid` is `Validate` with the tags, `ParseDefaults` is `applyDefaults`, `DeviceDefaults` is `device.ApplyDefaults`, `Lookup` the adapters |
| `Uci` | the four UCI files | `Network`, `Firewall`, `Dhcp`, `WirelessFile` are the `build...` functions, a section a record with the options that refer to others; `Leasable`, `Reachable`, `OnAir` are what OpenWrt makes of them |
| `XrayRouting` | xray's routing rules | `Rules` is `buildRules`, group by group; `RuleFromMap` is what is left of a raw rule; `Decision` is the first rule that matches; `Prerouting` is the chain of nft.conf, rule by rule, and `Fate` what becomes of a connection by both; `WithAntifilter` is what the cron script does to the rules |
| `Render` | a document loaded, rendered any number of times, updated | `cfg` is the config in memory, which `Render` changes; `files` what it returned |

From a command line to the router:

| module | models | correspondence |
|---|---|---|
| `Hosts` | `hosts.Registry` | `Resolve`, `Override`, `Fill`, `SplitTarget` are the functions of these names; `EndpointOf` is `remoteFlags.dial` up to `ssh.Dial` |
| `KnownHosts` | `ssh.Dial` | `step` is how far each command is; `base` the lines the callback was made from, `types` the HostKeyAlgorithms; `TrustInVain` is a host whose line is written before authentication fails; `OtherProgram` and `Reinstall` are the world outside |
| `Session` | `Client.Upload`, `Client.Run`, `Client.Close` | one action per sftp request; `at` and `file` are the names and inodes on the router; `worker` and `queued` are Run's goroutine and channel |
| `LineDiff` | `diff.Run` on one file | `Normalize`, `WriteLineDiff` are the functions of these names |
| `Workstation` | whole commands, from their flags to `Close` | composes the four above |

`MC...` modules are instances for TLC, `...Proofs` hold the theorems. `Antifilter` and
`LineDiff` write a loop over a sequence as a recursive function rather than with an
operator of `SequencesExt` where something is proved about it.

One remote call is one action. A reply (`Remote!Replies`) is an error flag, an
effect and the state of the connection. Success means the whole effect. An
error says nothing about the effect: none, part or all of the command may have
happened, and the connection may be gone, after which every further call fails
without effect. That is what `Client.Run` and the sftp calls give their
callers: the error of a non-zero exit, of a lost channel and of a session that
cannot be opened are not told apart by `apply`. A copy that stops in the
middle leaves `Torn`; an upload does not, since it renames, but its fallback
may leave nothing. `Session` models the upload request by request, and
`UploadAsAssumed` says that what comes out is what `Apply` assumes.

A run's timestamp is chosen freely (`time.Now` with a resolution of a second):
with `MonotoneClock` it grows from run to run, without it two runs may use the
same directories and a later run an older name.

Abstractions in `Apply`, `Rollback` and `Operators`:

* A config is a version with the list of paths it renders; `Rejected` says which
  files `uci show` and `xray -test` refuse. All rendered paths are managed paths,
  as `render.go:55-93` and `apply.go:45-58` list the same twelve.
* A command cut off by a lost connection does what it does before the next action;
  effects that arrive later, during the next command, are not modelled.
* A `post_apply` string is the sequence of its commands with their operators, and
  is joined to the others as `apply.go:163-168` joins it, so that `foo || true` in
  a string covers for everything before it. `&`, comments, `exit` and unbalanced
  quotes are left out; what is in parentheses or braces is one command.
* The context is never cancelled: `cmd.Context()` is the background context in
  both commands, so that `ctx.Err()` is nil.
* `--dry-run` returns before the first call and is not an action.
* `*.wrtbox.tmp` files that a failed upload leaves in staging are not tracked; no
  later step reads them outside `etc/config`, and staging is per run.
* File modes, log lines and the wording of errors are left out.

Abstractions in the modules of the scripts:

* A list is one value, its size and first line are checked by `Fetch` or
  `FetchFails`; a rule is its `.ip` and the marker. `.ip` is one value where the
  file has an array, and every array with `geoip:ru` in it is the value `GeoipRu`:
  the jq program asks for nothing else.
* `xray -test` is outside the repository. `Passes` says what it refuses for
  certain, a file cut short and a rule that matches nothing; `Test` may refuse
  any other.
* `mv` from /tmp, a tmpfs, to /etc is a removal and a copy (`Unlink`, `CopyOver`);
  an apply of the same file is one action, its parts are the subject of `Apply`.
* Nothing creates `/etc/xray/lists`: `Init` has routers with and without it.
* A load of nft.conf may fail, always when the table is absent and for any other
  reason as well (`Loaded`); the scripts drop the error and go on. It is one
  transaction. The `ip` and `nft add`, `nft delete` commands do what they say.
* netifd runs hotplug scripts one after another; an operator runs one script at a
  time. `Enabled` says whether xray-rules is started at boot; no file of the
  repository enables it.
* The updates of geo data and the restart of xray at the end of an update change
  no managed file and are left out.

Abstractions in the modules of documents:

* A document is a record of the fields that another file or a decision depends on.
  `Nil` is the zero value that Go and the validator take for "not given", 0 that
  of a number, so that a document cannot say either, as in the code. Fields that
  are copied to one option and read by nobody else (passwords, channels, the
  Reality keys, DNS servers) are left out, and so are the tags that check their
  form.
* What a document may be is `Document` of `Config`; the instances are sets of them.
* An address is a number, in the instances its last two octets with a prefix at
  least 16 long. An entry of
  `block`, `force_via_vpn` or `force_direct` is the form of its prefix and what it
  names; a destination is the set of named sets it is in.
* A place in the list of rules is the set of at most one rule, so that each group
  has its place whether or not the code appends anything for it. `Decision` looks
  for the first place with a rule that matches.
* The radios in stock are a function of their names, as the search that takes the
  first of a name finds them.
* In `Intended`, a vpnlan client is one with a lease that is not lan's. `Conns` has
  connections of every shape the rules distinguish: DNS, QUIC, TCP; to a domain,
  a private address, addresses in one or several lists.
* A program on the router connects to the socks port with an address or a domain;
  when sniffing replaces the address (`SeesAddress`), the rules of addresses see
  nothing until the domain is resolved. `AsSeen` is a connection as the rules see
  it, and what the document asks for is judged by that.
* A raw rule has xray's conditions; `protocol` stands for all that the program's own
  rules never have (protocol, sourcePort, user, attrs), and `odd` names those given
  in a form `ruleFromMap` does not look for, as a single value instead of a list.
  It drops both. `Asked` is the rule as written, `Expressible` says that nothing of
  it is dropped. A rule without any condition left is not in the instances: xray
  refuses the config.
* `RuCodes` are the codes of geoip entries that begin with `ru`: jq's `contains` looks
  for `geoip:ru` as a part of a string, and finds it in `geoip:ru-blocked`.

Abstractions in the modules of commands:

* A target as written is a user and the parts between its colons. `~/.ssh/config`
  is a function from aliases; wildcards and its own defaults are the library's.
* One known_hosts file; a line has one server, a key type and a key. A server has
  one key per type. `PortTwentyTwo` is for the comparison of bare host names in
  `knownHostKeyAlgos`; the listed runs have servers at one port and no hashed
  lines. Other programs add lines only while a command is dialling, which is when
  it matters.
* `ssh.NewSession` and the `Close` of sftp are part of the call they begin and of
  the process's end; that either may wait for the router is not modelled, beyond
  the run that waits for it.
* After it has connected, a command makes one call and closes: what a sequence of
  calls does is the subject of `Apply` and `Rollback`.
* A text is a sequence of lines, a line what it says and the blanks at its end.

## 3. Runs

All bounds are constants of the cfg: `MaxRuns` applies, `MaxRolls` rollbacks
between two applies, the timestamps `Time`, `Keep` snapshots, `MaxUpdates`,
`MaxApplies` and `MaxCuts` of `Antifilter`, `MaxCommands`, `MaxForeign` lines of
other programs and `MaxReinstalls` of `Workstation`. `XrayRules` and `Render` are
finite without bounds. The cfgs with `CHECK_DEADLOCK FALSE` are those in which the
commands are used up or a document is refused.

| run | question | instance |
|---|---|---|
| `apply` | Is what a run overwrites always recoverable, its result truthful, nothing refused live, the run atomic to observers? (`Recoverable`, `OutcomeTruthful`, `OnlyVetted`, `ImplementsAtomic`, the inductive `IInv`) | 3 paths, one of them absent on a new router; 4 configs, of which `uci show` refuses one and `xray -test` another; 2 runs; 2 timestamps in any order |
| `rollback` | Does a rollback install its snapshot, does the default undo the last apply, and is its snapshot still there? (`RollbackExact`, `DefaultUndoesApply`, `OwnSnapshotKept`, `PruneKeepsNewest`) | 2 applies, a rollback after each, 1 snapshot kept, one command at a time |
| `services` | Which services does a success vouch for, and do both commands end? (`RollbackReloads`, `SuccessReloads`, `RollbackEnds`, `Resolves`) | an apply whose post_apply has one command, or two with a `;` between, and a rollback; every exit status; fairness |
| `operators` | Two applies at once: does anything refused go live, from what does pruning take, when the other's lists and snapshots change under it? (`VettedApart`, `RunKeepsSnapshot`) | 1 path, 2 configs of which one is refused, 1 run each, 1 snapshot kept, so that the run that prunes last finds one too many |
| `antifilter` | Does an update, whatever runs beside it, move only tested configs into place, keep the other rules, and put its own where it matches? (`OnlyTested`, `RulesKept`, `ListBeforeGeoip`) | 2 lists, 3 configs (as the examples, with two geoip:ru rules, with none); 3 updates, 2 applies, a power cut |
| `rules` | Is what the table marks routed, does a stop last, does the rule come back? (`MarkedIsRouted`, `StopSticks`, `RuleHeals`) | the whole state space |
| `render` | Do clients of lan and vpnlan get the routing the document asks for, from all files together, whatever its zero values, pools, prefixes, SSIDs and overrides? (`PolicyOrder`, `PrivateStaysLocal`, `UpdateOnlyDiverts`, `FilesAgree`, `SsidsOnAir`, `LayersInOrder`, `RenderOnce`) | nearly a thousand documents in four families (devices, subnets, routing, raw rules that are cut short); 60 connections, each from the ends and the middle of every pool; lists that are empty or not |
| `workstation` | Does a command reach the router it was told, with that router's key, on a host key it may accept; is an uploaded file whole; does diff tell what differs; does a deadline end a run? (`HostFlagWins`, `EntryShields`, `MismatchFatal`, `MismatchReal`, `TargetWhole`, `UploadAsAssumed`, `DiffComplete`, `DeadlineEndsRun`) | 11 command lines with what hosts.yaml and ssh_config say; 2 servers with 2 key types; 2 commands, a line of another program, a new key; 4 texts; fairness |
| `masked_reload`, `antifilter_sets`, `render_halves`, `handshake` | see Findings | |

Why the bounds are enough. Stages and loops do not depend on the number of
paths; three paths have a first, a middle and a last one in every loop, one of
which is missing before and one of which a config does not render. Two configs
tell "the other version" from "mine". What one run leaves to the next (staging,
snapshots, live files) is reached with two runs; with `Keep` 1 the second of them
prunes. Two operators with one run each meet in every pair of steps. Three
updates are a first, one that finds the rule of another, and one after a power
cut or an apply. Documents are varied one family at a time, since device,
subnets and routing meet only where a vpnlan is declared, which is in each
family but the last. Two commands are one that trusts a new host and one that finds its line.
Beyond that the theorems take over.

Fairness. `WFairSpec` (and `FairSpec` of `Apply`) asks that the next remote call
of a command in progress happens, nothing of the operator and nothing of the
network: each call may fail for ever. The code is a single goroutine that makes
one blocking call after another, so the assumption is that every call returns.
Nothing in the code guarantees that for apply and rollback, which have no
deadline (hazard at `client.go:125`): a hung command hangs the run. `Workstation`
therefore asks less: what the workstation does by itself is done at last
(`Exit`, `Close`, the branch of `select` for the context; in `FairDialSpec` also
the way to the handshake), while the router may never answer. Dying is not
subject to fairness. In `XrayRules` the steps of a script and the handling of a
queued hotplug event are fair, since procd and netifd run them; the operator,
network reloads and reboots are not.

## 4. Findings

Each of these is a run that TLC must find violated.

* `masked_reload` (`ReloadFailureSeen`): `reloadCmds` joined by `&&` is
  `network && firewall && restart || start || true && wifi`; when `network`
  fails the shell goes on at `start`, and the status is that of `wifi`. A
  `post_apply` string with `||` does the same to `wifi`. In rollback.go the xray commands are in parentheses, and `RollbackReloads` holds.
* `antifilter_sets` (`OneSet`): the jq program drops marked rules and then deletes
  the marker from all of them, so that no update ever finds the rule of the one
  before: each adds one more.
* `render_halves` (`VpnLanForced`): `splitCIDR` writes 255.255.255.0 for a vpnlan of
  /25, while xray's rule has the real prefix; dnsmasq leases addresses of the whole
  /24, and what clients in the other half send is not forced through the VPN.
* `handshake` (`DialEnds`): `ConnectTimeout` bounds the TCP connection. The handshake
  has no deadline and does not see the context, so that `wrtbox detect`, too,
  waits for a server that says nothing.

Further configurations violate what a comment, a test or the README says, or what
a user might count on. They are not among the runs of `PROJECT.json` and can be
run by hand (`tlc -config X.cfg <module before the underscore>`):

| cfg | violated | what happens |
|---|---|---|
| `MCApply_restore` | `RollbackRestores` | `_ = restore(...)` drops the error; the run reports "(rolled back)" with half of the new files live |
| | `RollbackLeavesCleanState` | a restore copies back what the snapshot has and removes nothing: a file that did not exist before, wireless say, stays |
| `MCWrtbox_torn` | `RollbackGivesWholeFiles` | a snapshot that was never completed is listed and is the latest; `wrtbox rollback` installs a truncated file |
| `MCOperators_keep` | `NotMixed` | two applies at once leave files of both |
| | `SnapshotOutlivesRun` | with `--backup-keep 1`, one run prunes what the other is about to restore |
| `MCOperators_same_second` | `OnlyVetted` | two runs that start in one second share the staging directory: one swaps in what the other uploaded and has not validated |
| `MCAntifilter_lost` | `NoChangesMeansInForce` | the list is stored before the config is tested; after a refusal, the next update says "No changes" while the config has the old list |
| | `AppliedConfigStays` | an apply that succeeds between the script's read and its move is undone silently |
| `MCXrayRules_scripts` | `HotplugRestores` | the hotplug script loads nft.conf when the table is absent, and nft.conf begins with a flush of that table, which fails |
| | `RollbackSticks` | after rollback.sh the next hotplug event adds rule and route again |
| | `StartLoads` | a start whose `nft -f` fails prints "xray-rules started" |
| `MCRender_raw` | `RawRulesRule` | schema.go:3-5 and 194-195 offer raw rules for what the fields cannot express; `ruleFromMap` drops the keys it does not know and values that are no lists, and the rule takes connections it does not name |
| `MCRender_private` | `PrivateNeverTunnelled` | config.go:26-28 calls the private addresses the "never leak to VPS" set; on the socks port sniffing puts the domain in the address's place, and a rule for the domain sends the connection to the tunnel |
| `MCRender_overrides` | `OverridesFillIn` | `wan_interface` of the overrides cannot fill in `wan.device`, which validation requires |
| `MCRender_quickstart` | `QuickStartRenders` | for the same reason the README's `wan: { proto: dhcp }` is refused |
| `MCWorkstation_limits` | `NoSpuriousMismatch` | the default known_hosts path is filled in after the key types were looked up, so that a host on file under one key type is refused for another |
| | `ExistingMismatchFatal` | a host is trusted although another program has added a different key for it since the file was read |
| | `MissingMeansMissing` | diff reports a file as missing when the connection is lost |
| | `NoLateWrite` | after a deadline, Run's caller reads buffers that its goroutine still writes |
| `MCWorkstation_same_path` | `TargetWhole` | two uploads of one path share the temporary name, and one renames what the other is writing |

TLC stops at the first of several; with `-continue` it goes on to the others.

## 5. What is proved

The theorems are about every value of the constants that the assumptions allow:
any set of paths, configs, timestamps, services, servers, keys, requests, lists
and texts, and any number of runs, rollbacks, commands, updates and power cuts.

| theorem | says |
|---|---|
| **`ApplyProofs`** | one apply after another |
| `TypeCorrect`, `Inductive` | `Spec => []TypeOK`, `Spec => [](TypeOK /\ IInv)` |
| `RecoverableAlways`, `OutcomeTruthfulAlways` | what a run overwrites stays recoverable, its result is truthful |
| `AtomicToObservers` | `Spec => ImplementsAtomic`: Apply implements AtomicRouter |
| `OnlyVettedAlways` | nothing refused goes live |
| `OwnSnapshotKeptAlways`, `PruneKeepsNewestAlways` | pruning |
| **`WrtboxProofs`** | applies and rollbacks |
| `WTypeCorrect` | the types, in any interleaving |
| `RollbackExactAlways`, `DefaultUndoesApplyAlways` | a rollback installs its snapshot; the default undoes the last apply |
| `RollbackReloadsAlways`, `SuccessReloadsAlways` (and `TailReloadedAlways` for `Apply` alone) | for which services success vouches |
| `OwnSnapshotSurvives` | pruning, with rollbacks in between |
| **`OperatorsProofs`** | two applies at once |
| `VettedApartAlways`, `RunKeepsSnapshotAlways` | nothing refused goes live; what pruning takes from has `Keep` newer snapshots |
| **`AntifilterProofs`** | update-antifilter.sh |
| `AntifilterTypeCorrect`, `OnlyTestedAlways` | the types; only tested configs are put in place |
| `RulesKeptAlways`, `ListBeforeGeoipAlways` | the rules stay; the list comes where it matches |
| **`XrayRulesProofs`** | xray-rules, hotplug, rollback.sh |
| `RulesInductive` | `Spec => [](TypeOK /\ RulesInv)` |
| `MarkedIsRoutedAlways`, `StopSticksAlways` | what is marked is routed; a stop lasts |
| **`WorkstationProofs`**, with the lemmas of `UploadProofs` | commands on the workstation, side by side |
| `CommandsInductive`, `SessionAlways` | what each command relies on |
| `HostFlagWinsAlways`, `EntryShieldsAlways` | which source of a field counts: the flag, the entry, its target's text, before ssh_config |
| `MismatchFatalAlways`, `MismatchRealAlways` | known_hosts |
| `TargetWholeAlways`, `UploadAsAssumedAlways` | an upload leaves no half a file, and does what `Apply` takes it for |
| `DiffCompleteAlways` | the hunk turns one text into the other, for any two texts |

| **`RenderProofs`** | from a document to the routing of its clients |
| `RenderInductive` | `Spec => []RenderInv`: what config and files are made of |
| `RenderOnceAlways`, `LayersInOrderAlways` | the defaults |
| `FilesAgreeAlways`, `SsidsOnAirAlways` | the sections of the UCI files |
| `PolicyOrderAlways` | the rules, for any entries and lists, and for raw rules as far as `ruleFromMap` leaves them whole; what a group before them claims, whatever they are |
| `PrivateStaysLocalAlways` | private addresses that the rules see, for any document |
| `UpdateOnlyDivertsAlways` | what an update of the antifilter list changes for a connection |

### Assumptions

Those of the modules on their constants. `managedPaths` lists every path; a config
renders at least one file, xray's config among them; `Stock`, `Torn` and `Absent`
differ from one another and from every config; timestamps are numbers; `Keep` is
positive, as `Run` makes it; no service has the name of one of the other commands
of the reload step; a rendered xray config is whole and has no rule that matches
nothing; `.ip` of a rule is a downloaded list or contains "geoip:ru", not both
(the script looks at the first line of a download, which is a network); there is
a server and a key; no path to upload to has the name of a process. Of `Render`:
`Nil` is no number and no bridge (`NilAssumption`); a document is a `Document`; a
connection comes from one of the two inbounds, by TCP or UDP, with a source that is
filled in from the leases; every list named can be fetched, and what a list or an
entry names is a set of addresses or of domains, as its kind or prefix says, so
that a list of domains names no addresses (`NamesAssumption`).

Some theorems have a hypothesis, which a cfg of section 4 or a comment shows to be
needed:

* `Separate`, in the properties of `Render` about clients: the subnets of lan and
  vpnlan do not overlap, and the mask that `splitCIDR` writes for vpnlan is not
  shorter than its prefix. The validator asks for neither; `render_halves` is a
  document of the second kind.
* In `UpdateOnlyDiverts`, that neither `block` nor `force_via_vpn` has an entry that
  begins with `geoip:ru`: the script looks for the first rule with one, in which
  group ever, and its list comes before that group.
* `Exclusive` (one command at a time), in `SuccessReloadsAlways` and
  `OwnSnapshotSurvives`; in `RollbackExact`, `RollbackReloads` and
  `DefaultUndoesApply` it is part of the property, as `MonotoneClock` and
  `Distinct` are of those they appear in. Nothing in the code enforces them.
* `Alone`, that no two clients upload the same path (`MCWorkstation_same_path`), for
  uploads: staging directories have the run's timestamp in their name.
* `Plain`, servers at one port and no hashed lines, for `MismatchReal`:
  `knownHostKeyAlgos` takes a line of the bare host for either port.
* In `HostFlagWinsAlways`, that `Resolve` finds a host for what `--host` names. An
  entry of hosts.yaml of that name without `host:` makes the two sides differ in
  whether the command ends in an error, not in where it goes.

### The arguments

*Apply.* `Recoverable` is not inductive: it says that the snapshot equals what was
live when the run started, but not why. `IInv` adds what each stage may rely on.
`IStaged`: the files uploaded so far are the config's. `ISnapshot`: the paths
copied so far equal `pre`, and all of them once the swap begins. `ILive`: before
the swap nothing has changed, during it exactly the first `k - 1` rendered files
have, during a restore the first `k - 1` managed files are back and the rest is a
mix. `IKept`: no managed file ever disappears, so that a snapshot directory used
twice in a second has no file that is gone since, which is what makes the second
copy complete; it is all a run needs of the one before it. Each action then has
a lemma. Refinement needs `Mixed` (path by path the old file, the new one, or a
torn one) to hold whenever a run can die. `VetInv` adds that snapshots, too, hold
only files that once were live; `PruneInv` that what is doomed has enough newer
snapshots, and that with a clock that moves forward none is newer than the run's
own.

*Rollback.* While no rollback has come, `IInv` holds of the apply; afterwards only
what the next apply needs (`AloneInv`). `RollbackInv` is to a rollback what
`ILive` is to an apply: of the managed paths the first `rk - 1` are as the
snapshot has them. `UndoInv` follows an apply that died through the first rollback
after it: either its snapshot is complete, and then it is the latest and is what
the default takes, or nothing has changed yet.

*Reload.* `TailReloaded` rests on how the shell evaluates the list: `Status` is a
recursion over it, and `TailRan` shows that when the list succeeds, every command
after the last `||` or `;` has, whatever came before (`VouchedRead`). In apply's
list these are the commands of the `post_apply` strings after their last `||` or `;`,
and wifi when they have none (`FullReloadVouches`), which is why network and
firewall are not (`masked_reload`). The parentheses of rollback.go put them there.

*Two operators.* `ApartInv` has the types and `VetInv` of both runs and that their
seconds differ; what one run does to its own directories leaves the other's
alone. `DoomedInv` says of both runs that what they are about to delete has at least
`Keep` newer snapshots. One of those may be doomed as well, but then it has `Keep`
newer ones itself, so that its removal leaves as many; and a list that has grown
old meanwhile has missed new snapshots only, which doom more and save nothing.

*update-antifilter.sh.* `OnlyTested` is not inductive alone: `SoundInv` adds the two
files it may come from, the one the script has tested and the snapshot an undone
apply restores. `KeptInv` says of the same two files that they have the rules last
applied, `OrderInv` that the file under test has the stored list before geoip:ru.
Both need what the jq program computes, for every sequence of rules
(`RefreshFacts`): by induction over the rules, what it has made of the first n of
them has a marked rule exactly when it has one with geoip:ru, right before it,
and without the lists it equals the first n (`AccFacts`).

*Scripts on the router.* `RulesInv` says what a script under way still has before
it: a table that marks has its rule and route, or a script or a queued event that
will add them. Whether a load succeeds is left open throughout. Only a start makes a
table: without one, to load nft.conf fails, whatever a hotplug script has looked at
before.

*Workstation.* `CallbackInv`: what a command that dials has read of known_hosts is
what the file has for its server, unless another adds a line meanwhile;
`AlgorithmsInv`: it asks for the key types of these lines. `DeskInv`: it resolves
what its user asked for, and reports what it has read. `FilesInv` and `UploadInv`
follow an upload request by request: the names and inodes of a client are its own,
the temporary file is complete from its close on, the path is untouched until the
rename. For the diff, that the prefix is taken off before the suffix is looked for
makes the parts disjoint, and a text is its parts joined (`PartsJoin`).

*Render.* `RenderInv` says that the config is the document's with all its defaults
once something was rendered, and that the files are rendered from it, updated
once or not at all. That it is inductive is `DefaultsOnce`: what `DeviceDefaults`
fills in once it finds filled in, for the ports, the WAN and each radio. The
properties are then about functions of one document. For the files: which
interfaces, zones, pools and forwardings there are, case by case (`InterfaceNames`
and its like), and that what is leased on an interface lies within its subnet, so
that two subnets that are apart lease nothing twice. For wireless: the number that
`IfaceName` adds is the SSID's place among those of its radio, so that no two
sections share a name. For the rules: each place of `Rules` has its rule exactly
for the connections, as the rules see them, for which the document makes the claim
of that rank, with the same outbound (`Answers`, `Asks`), hence the first place that
matches is the claim of least rank. Up to the raw rules this needs nothing of them
(`EarlyAsks`), from there on that nothing of them was dropped (`RawMeans`). A lookup
that `IPIfNonMatch` asks for never happens, since the last place matches everything. An update moves the places from the first with geoip:ru
on by one; that place is behind the private addresses whatever the document
(hence `PrivateStaysLocal`), and behind the lists when `block` and `force_via_vpn`
have no entry that begins with geoip:ru (hence `UpdateOnlyDiverts`).

Stating these theorems corrected the model: `UpdateOnlyDiverts` had said nothing of
geoip:ru in the two groups above and nothing of raw rules that claim what the list
has, and `LayersInOrder` assumed that no two overrides have the name of one radio.
The instances
had no such documents; two overrides of one radio and geoip:ru in `force_via_vpn`
are in them now.

Invariants that are in no run (`VetInv`, `PruneInv`, `SoundInv`, `KeptInv`, `OrderInv`,
`TailInv`, `AloneInv`, `RollbackInv`, `UndoInv`, `ApartInv`, `DoomedInv`, `RulesInv`,
`WorkstationInv`, `RenderInv`) are there for the proofs; the runs check the properties they are
for. Each can be added to the cfg of its component's run, where TLC finds that it
holds; `TailInv` while no rollback has come.

Induction. The library's induction theorems take an operator and cannot be
instantiated by the provers here. Where a recursion over a sequence had to be
reasoned about, the proofs take the least counterexample of a set of numbers
(`LeastIsThere`, `Throughout`, from the well-foundedness of `<`) and show that the
recursive function exists before they use its equation (`Recursion`).

### Only model-checked

* `Resolves`, `RollbackEnds`, `RuleHeals` and `DeadlineEndsRun`: liveness under
  fairness, out of TLAPS's reach here. Every other property of a passing run is a
  theorem.

## 6. Not modelled, and the plan

Planned:

1. Servers of one host at two ports and hashed lines in a listed run of
   `Workstation`.

Left out:

* printing commands (validate, render, init, version) and what detect makes of a
  board's name: no state and no decision beyond a table;
* the form of single strings, in documents and in entries of routing lists: the
  validator's and YAML's work;
* `raw.uci`, `raw.xray_inbounds` and `raw.xray_outbounds` of a document, and `dhcp` of
  `vpnlan`: the schema has them and no code reads them;
* `Executor.MkdirAll`, which nothing calls; the mock executor; the emulator, CI and
  release files; embedded assets.
