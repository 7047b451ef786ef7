----------------------------- MODULE KnownHosts -----------------------------
(***************************************************************************)
(* ssh.Dial: the known_hosts file is loaded, read again for the key types  *)
(* it has for the host, and judges the server's key when the handshake     *)
(* gets there; an unknown host may be trusted on first use.  Several       *)
(* commands and other programs use the file at once.                       *)
(***************************************************************************)
EXTENDS Integers, Sequences, FiniteSets

CONSTANTS
    Process,        \* the wrtbox commands that run side by side
    Server,         \* the addresses that are dialled
    PortTwentyTwo,  \* PortTwentyTwo[s]: the server at port 22 of the same host
    Preferred,      \* the key types in the order of the ssh library
    Key,            \* the keys a server may have of a type
    Hashes,         \* whether other programs write host names as hashes
    MaxForeign,     \* bound on the lines other programs add
    MaxReinstalls   \* bound on the servers that get new keys

KeyType == {Preferred[i] : i \in 1..Len(Preferred)}

ASSUME KnownHostsAssumption ==
    /\ PortTwentyTwo \in [Server -> Server]
    /\ Server # {} /\ Key # {} /\ Preferred # <<>> /\ Hashes \subseteq BOOLEAN
    /\ MaxForeign \in Nat /\ MaxReinstalls \in Nat

\* A line of the file.
Line == [key : Key, server : Server, type : KeyType, hashed : Hashes \cup {FALSE}]

VARIABLES
    keys,       \* keys[s][t]: the key that server s has of type t
    known,      \* the lines of the known_hosts file
    step,       \* what each command does next, or how it ended
    dial,       \* DialOptions: the server, whether KnownHostsPath is given, AcceptNewHostKey
    base,       \* the lines the host key callback was made from
    types,      \* HostKeyAlgorithms; empty for the library's
    foreign, reinstalls,
    raced       \* history: a line for the server was added since the callback was made

dialVars == <<dial, base, types, raced>>
khVars == <<keys, known, step, dialVars, foreign, reinstalls>>

NoOptions == [accept |-> FALSE, server |-> CHOOSE s \in Server : TRUE, explicit |-> TRUE]
Ended == {"timeout", "refused", "mismatch", "unknown"}

Of(lines, server) == {l \in lines : l.server = server}

\* The file is empty or has a line that is true.
KInit ==
    /\ keys = [s \in Server |-> [t \in KeyType |-> CHOOSE k \in Key : TRUE]]
    /\ known \in {{}} \cup {{l} : l \in {l \in Line : l.key = keys[l.server][l.type]}}
    /\ step = [p \in Process |-> "idle"]
    /\ dial = [p \in Process |-> NoOptions]
    /\ base = [p \in Process |-> {}] /\ types = [p \in Process |-> {}]
    /\ foreign = 0 /\ reinstalls = 0
    /\ raced = [p \in Process |-> FALSE]

Goto(p, next) == step' = [step EXCEPT ![p] = next]

\* A command has an endpoint: ssh.Dial is called.
Begin(p, options) ==
    /\ step[p] = "resolve"
    /\ Goto(p, "callback")
    /\ dial' = [dial EXCEPT ![p] = options]
    /\ UNCHANGED <<keys, known, base, types, foreign, reinstalls, raced>>

\* loadSigner, and hostKeyCallback: knownhosts.New reads the file, an empty one if
\* there was none.  Either may fail.
MakeCallback(p, ok) ==
    /\ step[p] = "callback"
    /\ Goto(p, IF ok THEN "algorithms" ELSE "refused")
    /\ base' = [base EXCEPT ![p] = known]
    /\ raced' = [raced EXCEPT ![p] = FALSE]
    /\ UNCHANGED <<keys, known, dial, types, foreign, reinstalls>>

\* Mutant: no key types are ever restricted.
NoAlgorithms(lines, server) == {}

\* knownHostKeyAlgos compares the names of a line as text, and takes the bare
\* host for a server at any port.
Algorithms(lines, server) ==
    {l.type : l \in {l \in lines : ~l.hashed /\ l.server \in {server, PortTwentyTwo[server]}}}

\* The default path is known to the callback only.
ReadAlgorithms(p) ==
    /\ step[p] = "algorithms"
    /\ Goto(p, "tcp")
    /\ types' = [types EXCEPT ![p] = IF dial[p].explicit THEN Algorithms(known, dial[p].server) ELSE {}]
    /\ UNCHANGED <<keys, known, dial, base, foreign, reinstalls, raced>>

\* The TCP connection: it is made, or ConnectTimeout is over.
Connect(p, ok) ==
    /\ step[p] = "tcp"
    /\ Goto(p, IF ok THEN "handshake" ELSE "timeout")
    /\ UNCHANGED <<keys, known, dialVars, foreign, reinstalls>>

\* The library's first choice, or one of the types on file: they are in the order
\* of the file.
Offered(p) == IF types[p] = {} THEN {Preferred[1]} ELSE types[p]

NewLine(s, t, key) == [key |-> key, server |-> s, type |-> t, hashed |-> FALSE]

Trust(p, line) ==
    /\ known' = known \cup {line}
    /\ raced' = [q \in Process |-> raced[q] \/ (q # p /\ dial[q].server = line.server /\ step[q] # "idle")]

\* Mutant: the flag lets a mismatch pass as well.
JudgeMismatch(p, t, key) ==
    LET s == dial[p].server
        lines == Of(base[p], s)
    IN  IF \E l \in lines : l.type = t /\ l.key = key THEN Goto(p, "up") /\ UNCHANGED <<known, raced>>
        ELSE IF dial[p].accept THEN Goto(p, "up") /\ Trust(p, NewLine(s, t, key))
        ELSE Goto(p, "unknown") /\ UNCHANGED <<known, raced>>

\* The host key callback, by the lines it was made from.
Judge(p, t, key) ==
    LET s == dial[p].server
        lines == Of(base[p], s)
    IN  IF \E l \in lines : l.type = t /\ l.key = key THEN Goto(p, "up") /\ UNCHANGED <<known, raced>>
        ELSE IF lines # {} THEN Goto(p, "mismatch") /\ UNCHANGED <<known, raced>>
        ELSE IF dial[p].accept THEN Goto(p, "up") /\ Trust(p, NewLine(s, t, key))
        ELSE Goto(p, "unknown") /\ UNCHANGED <<known, raced>>

\* ssh.NewClientConn and the sftp subsystem.  What was read for them is not used
\* once the connection is up.
Handshake(p, t) ==
    /\ step[p] = "handshake"
    /\ t \in Offered(p)
    /\ Judge(p, t, keys[dial[p].server][t])
    /\ IF step'[p] = "up" THEN /\ dial' = [dial EXCEPT ![p] = NoOptions]
                               /\ base' = [base EXCEPT ![p] = {}] /\ types' = [types EXCEPT ![p] = {}]
                          ELSE UNCHANGED <<dial, base, types>>
    /\ UNCHANGED <<keys, foreign, reinstalls>>

\* The connection breaks before the key is judged, or the line cannot be written; or
\* the key is on file, and authentication or the sftp subsystem fails.
HandshakeFails(p) ==
    /\ step[p] = "handshake"
    /\ Goto(p, "refused")
    /\ UNCHANGED <<keys, known, dialVars, foreign, reinstalls>>

\* They fail after an unknown host was trusted: its line stays in the file.
TrustInVain(p, t) ==
    LET s == dial[p].server
    IN  /\ step[p] = "handshake"
        /\ t \in Offered(p)
        /\ dial[p].accept /\ Of(base[p], s) = {}
        /\ Goto(p, "refused") /\ Trust(p, NewLine(s, t, keys[s][t]))
        /\ UNCHANGED <<keys, dial, base, types, foreign, reinstalls>>

\* ssh or ssh-keyscan adds a line that is true now.
OtherProgram(l) ==
    /\ foreign < MaxForeign /\ foreign' = foreign + 1
    /\ l.key = keys[l.server][l.type]
    /\ known' = known \cup {l}
    /\ raced' = [p \in Process |-> raced[p] \/ (dial[p].server = l.server /\ step[p] # "idle")]
    /\ UNCHANGED <<keys, step, dial, base, types, reinstalls>>

\* A server is set up anew, or another answers in its place.
Reinstall(s, k) ==
    /\ reinstalls < MaxReinstalls /\ reinstalls' = reinstalls + 1
    /\ keys[s] # [t \in KeyType |-> k]
    /\ keys' = [keys EXCEPT ![s] = [t \in KeyType |-> k]]
    /\ UNCHANGED <<known, step, dialVars, foreign>>

\* The process is gone.
Forgotten(p) ==
    /\ Goto(p, "idle")
    /\ dial' = [dial EXCEPT ![p] = NoOptions] /\ raced' = [raced EXCEPT ![p] = FALSE]
    /\ base' = [base EXCEPT ![p] = {}] /\ types' = [types EXCEPT ![p] = {}]
    /\ UNCHANGED <<keys, known, foreign, reinstalls>>

Dialling(p) ==
    \/ (\E ok \in BOOLEAN : MakeCallback(p, ok) \/ Connect(p, ok)) \/ ReadAlgorithms(p)
    \/ (\E t \in KeyType : Handshake(p, t) \/ TrustInVain(p, t)) \/ HandshakeFails(p)

Outside ==
    \/ \E l \in Line : OtherProgram(l)
    \/ \E s \in Server, k \in Key : Reinstall(s, k)

-----------------------------------------------------------------------------
(* Properties *)

\* client.go on AcceptNewHostKey: a mismatch is always fatal.  No connection comes
\* up on a key that is not on file while other keys are, flag or not; a line added
\* between the reading of the file and the handshake is not seen.
MismatchFatal ==
    [][\A p \in Process : step[p] = "handshake" /\ step'[p] = "up" /\ ~raced[p] =>
        \/ Of(known, dial[p].server) = {}
        \/ \E l \in Of(known, dial[p].server) : l.key = keys[l.server][l.type]]_khVars

\* client.go on knownHostKeyAlgos: no "spurious host key mismatch".  With the file
\* named in the options, a mismatch means that a key on file is not the server's.
MismatchReal ==
    \A p \in Process : step[p] = "mismatch" /\ dial[p].explicit /\ ~raced[p] =>
        reinstalls > 0 \/ \E l \in Of(base[p], dial[p].server) : l.key # keys[l.server][l.type]

-----------------------------------------------------------------------------
(* Why they hold: what a command that dials has read *)

KnownHostsTypeOK ==
    /\ keys \in [Server -> [KeyType -> Key]]
    /\ known \subseteq Line /\ base \in [Process -> SUBSET Line]
    /\ step \in [Process -> Ended \cup {"idle", "resolve", "callback", "algorithms", "tcp", "handshake", "up"}]
    /\ dial \in [Process -> [accept : BOOLEAN, server : Server, explicit : BOOLEAN]]
    /\ types \in [Process -> SUBSET KeyType] /\ raced \in [Process -> BOOLEAN]
    /\ reinstalls \in Nat

\* It has the lines of the file for its server, until another adds one.
CallbackInv ==
    \A p \in Process : step[p] \in {"algorithms", "tcp", "handshake"} /\ ~raced[p] =>
        Of(base[p], dial[p].server) = Of(known, dial[p].server)

\* It asks for the key types of these lines.
AlgorithmsInv ==
    \A p \in Process : step[p] \in {"tcp", "handshake"} /\ dial[p].explicit /\ ~raced[p] =>
        types[p] = {l.type : l \in Of(base[p], dial[p].server)}

-----------------------------------------------------------------------------
(* What the documentation says and the code does not do *)

\* The same comment, whatever path the file has.
NoSpuriousMismatch ==
    \A p \in Process : step[p] = "mismatch" /\ ~raced[p] =>
        reinstalls > 0 \/ \E l \in Of(base[p], dial[p].server) : l.key # keys[l.server][l.type]

\* "An EXISTING mismatched host key is always fatal regardless of this flag."
ExistingMismatchFatal ==
    [][\A p \in Process : step[p] = "handshake" /\ step'[p] = "up" =>
        \/ Of(known, dial[p].server) = {}
        \/ \E l \in Of(known, dial[p].server) : l.key = keys[l.server][l.type]]_khVars
=============================================================================
