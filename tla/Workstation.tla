---------------------------- MODULE Workstation ----------------------------
(***************************************************************************)
(* The commands of wrtbox that talk to a router: each resolves the flags   *)
(* to an endpoint, dials it, uploads a file, runs a command or downloads   *)
(* one to compare it, and closes the connection.                           *)
(***************************************************************************)
EXTENDS Hosts, KnownHosts, LineDiff

CONSTANTS
    Request,    \* what users type, and what hosts.yaml and ~/.ssh/config say then
    Address,    \* the server at a host and port; other hosts do not answer
    Text,       \* the texts a file may have
    MaxCommands,\* bound on the commands of a process
    Torn, Absent, Stock, PathOf

ASSUME WorkstationAssumption ==
    /\ MaxCommands \in Nat
    /\ \A q \in Request : q.flags.accept \in BOOLEAN
    /\ Text \subseteq Seq([says : STRING, blanks : STRING])
    /\ \A a \in DOMAIN Address : Address[a] \in Server
    /\ Torn # Absent /\ Stock \notin {Torn, Absent} /\ Process \cap {Torn, Absent, Stock} = {}
    /\ \A p \in Process : PathOf[p] \notin Process \cup {Absent}

VARIABLES
    request,    \* what a command was asked for, until it dials
    commands,   \* the number of commands started
    report,     \* what diff has found for a file
    at, file, op, link, fd, worker, queued, timed, was

Sess == INSTANCE Session WITH Client <- Process

NoRequest == [yaml |-> <<>>, ssh |-> Nil,
              flags |-> [host |-> Nil, key |-> Nil, router |-> Nil, accept |-> FALSE]]
NoReport == [verdict |-> "none"]

callVars == <<at, file, op, link, fd, worker, queued, timed, was>>
deskVars == <<request, commands, report>>
vars == <<khVars, callVars, deskVars>>

Init ==
    /\ KInit /\ Sess!SInit
    /\ request = [p \in Process |-> NoRequest]
    /\ commands = [p \in Process |-> 0]
    /\ report = [p \in Process |-> NoReport]

\* A user types a command.
Type(p, q) ==
    /\ step[p] = "idle" /\ commands[p] < MaxCommands
    /\ commands' = [commands EXCEPT ![p] = @ + 1]
    /\ Goto(p, "resolve")
    /\ request' = [request EXCEPT ![p] = q]
    /\ UNCHANGED <<keys, known, dialVars, foreign, reinstalls, callVars, report>>

EndpointFor(q) == EndpointOf(q.flags, q.yaml, q.ssh)

\* remoteFlags.dial up to ssh.Dial, or up to the error it ends with.
ResolveFlags(p) ==
    LET q == request[p]
        ep == EndpointFor(q)
    IN  /\ step[p] = "resolve"
        /\ request' = [request EXCEPT ![p] = NoRequest]
        /\ IF ep # Nil /\ <<ep.host, ep.port>> \in DOMAIN Address
           THEN Begin(p, [accept |-> q.flags.accept, server |-> Address[<<ep.host, ep.port>>],
                          explicit |-> ep.known # Nil])
           ELSE Goto(p, "refused") /\ UNCHANGED <<keys, known, dialVars, foreign, reinstalls>>
        /\ UNCHANGED <<callVars, commands, report>>

Dial(p) ==
    /\ Dialling(p)
    /\ link' = [link EXCEPT ![p] = IF step'[p] = "up" THEN "up" ELSE @]
    /\ UNCHANGED <<at, file, op, fd, worker, queued, timed, was, deskVars>>

\* apply uploads and runs commands, rollback runs them, detect runs one with a
\* deadline.
Call(p) ==
    /\ step[p] = "up"
    /\ \/ Sess!StartUpload(p) \/ Sess!Upload(p)
       \/ \E ok, deadline \in BOOLEAN : Sess!StartRun(p, ok, deadline)
       \/ Sess!Run(p)
    /\ UNCHANGED <<khVars, deskVars>>

\* The report of diff.Run on one file; every error of Download is a missing file.
Reported(r, router, local) ==
    IF r.err THEN [verdict |-> "missing", router |-> router, local |-> local, hunk |-> <<>>]
    ELSE [verdict |-> Verdict(router, local), router |-> router, local |-> local,
          hunk |-> WriteLineDiff(router, local)]

Diff(p, r, router, local) ==
    /\ step[p] = "up" /\ op[p] = "none" /\ r \in Sess!Replies(link[p])
    /\ router = Absent => r.err
    /\ report' = [report EXCEPT ![p] = Reported(r, router, local)]
    /\ op' = [op EXCEPT ![p] = "ok"] /\ link' = [link EXCEPT ![p] = r.conn]
    /\ UNCHANGED <<khVars, at, file, fd, worker, queued, timed, was, request, commands>>

Close(p) ==
    /\ Sess!Close(p)
    /\ report' = [report EXCEPT ![p] = NoReport]
    /\ UNCHANGED <<khVars, request, commands>>

\* The process ends: after an error, after Close, or because it is killed.
End(p) ==
    /\ Forgotten(p) /\ Sess!Gone(p)
    /\ request' = [request EXCEPT ![p] = NoRequest]
    /\ report' = [report EXCEPT ![p] = NoReport]
    /\ UNCHANGED commands

Exit(p) == (step[p] \in Ended \/ op[p] = "closed") /\ End(p)
Die(p) == step[p] # "idle" /\ End(p)

\* What others do matters to a command that dials, and may wait for one.
Others ==
    /\ \E p \in Process : step[p] \in {"resolve", "callback", "algorithms", "tcp", "handshake"}
    /\ Outside
    /\ UNCHANGED <<callVars, deskVars>>

Next ==
    \/ \E p \in Process :
        \/ \E q \in Request : Type(p, q)
        \/ ResolveFlags(p) \/ Dial(p) \/ Call(p) \/ Close(p) \/ Exit(p) \/ Die(p)
        \/ \E r \in Sess!Reply, router \in Text \cup {Absent}, local \in Text : Diff(p, r, router, local)
    \/ Others

Spec == Init /\ [][Next]_vars

\* What the workstation does by itself is done at last; the router may never answer.
\* The way out of a command:
FairSpec ==
    /\ Spec
    /\ \A p \in Process :
        WF_vars(Exit(p)) /\ WF_vars(Close(p)) /\ WF_vars(Call(p) /\ Sess!SelectCtx(p))

\* and the way to the handshake, where the other side is waited for.
FairDialSpec ==
    FairSpec /\ \A p \in Process :
        WF_vars(ResolveFlags(p)) /\ WF_vars(step[p] # "handshake" /\ Dial(p))

-----------------------------------------------------------------------------
(* Properties *)

\* "--host overrides --router" (remote.go): with --host, nothing of the router that
\* --router names is left in the endpoint: neither its host, nor its key, nor its
\* known_hosts.
HostFlagWins ==
    \A p \in Process :
        LET q == request[p]
            f == [host |-> q.flags.host, key |-> q.flags.key, router |-> Nil]
        IN  step[p] = "resolve" /\ f.host # Nil =>
                EndpointFor(q) \in {Nil, EndpointOf(f, q.yaml, q.ssh)}

\* What an entry of hosts.yaml or the text of its target sets, ~/.ssh/config does not
\* change (fill: "pull anything still missing").
EntryShields ==
    \A p \in Process :
        LET q == request[p]
            e == q.yaml[q.flags.router]
            t == SplitTarget(e.target)
            with == EndpointFor(q)
            without == EndpointOf(q.flags, q.yaml, Nil)
        IN  /\ step[p] = "resolve" /\ q.flags.host = Nil /\ q.flags.router \in DOMAIN q.yaml
            /\ Nil \notin {with, without}
            => /\ e.user # Nil \/ t.user # Nil => with.user = without.user
               /\ e.port # 0 \/ t.port # 0 => with.port = without.port
               /\ e.key # Nil => with.key = without.key

TargetWhole == Sess!TargetWhole
UploadAsAssumed == Sess!UploadAsAssumed

\* diff prints what apply would change: for a file it reports as changed, its hunk
\* turns the router's text into the rendered one; a file it passes over says the
\* same, and one it reports does not.
DiffComplete ==
    \A p \in Process :
        LET d == report[p] IN
        /\ d.verdict = "changed" => Explains(d.hunk, d.router, d.local)
        /\ d.verdict \in {"changed", "same"} => (d.verdict = "same" <=> SaySame(d.router, d.local))

\* The 30 seconds of `wrtbox detect` end it while its command hangs on the router.
DeadlineEndsRun == \A p \in Process : (op[p] = "select" /\ timed[p]) ~> (step[p] = "idle")

-----------------------------------------------------------------------------
(* Why they hold *)

\* A command is being resolved by what a user asked for; there are calls only when
\* the connection is up; and a report is of texts.
DeskInv ==
    \A p \in Process :
        /\ step[p] = "resolve" => request[p] \in Request
        /\ step[p] # "up" => op[p] = "none"
        /\ report[p].verdict \in {"changed", "same"} =>
            /\ {report[p].router, report[p].local} \subseteq Text
            /\ report[p].verdict = Verdict(report[p].router, report[p].local)
            /\ report[p].hunk = WriteLineDiff(report[p].router, report[p].local)

WorkstationInv ==
    /\ KnownHostsTypeOK /\ CallbackInv /\ AlgorithmsInv
    /\ Sess!SessionTypeOK /\ Sess!SessionInv /\ DeskInv

-----------------------------------------------------------------------------
(* What the documentation says and the code does not do *)

\* client.go: ConnectTimeout "bounds TCP + SSH handshake".  A dial ends, whatever
\* the other side does.
DialEnds == \A p \in Process : (step[p] = "callback") ~> (step[p] \notin {"callback", "algorithms", "tcp", "handshake"})

\* diff.go: "Missing file on router = full add".  A connection lost on the way has
\* the same report.
MissingMeansMissing ==
    \A p \in Process : report[p].verdict = "missing" => report[p].router = Absent

NoLateWrite == Sess!NoLateWrite
=============================================================================
