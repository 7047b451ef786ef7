-------------------------------- MODULE Hosts -------------------------------
(***************************************************************************)
(* Which router a command talks to: the flags --router, --host and --key,  *)
(* hosts.yaml and ~/.ssh/config.  A target as it is written is a user and  *)
(* the parts between its colons; Nil is the empty string, 0 no port.       *)
(***************************************************************************)
EXTENDS Integers, Sequences

CONSTANTS
    Nil,
    Atoi,       \* Atoi[part]: the number a numeric part stands for
    DefaultKey  \* the first of the usual key files that exists, or Nil

Or(x, default) == IF x = Nil THEN default ELSE x
OrPort(x, default) == IF x = 0 THEN default ELSE x

Endpoint(name, host, user, port, key, known) ==
    [name |-> name, host |-> host, user |-> user, port |-> port, key |-> key, known |-> known]
Entry(target, user, port, key, known) ==
    [target |-> target, user |-> user, port |-> port, key |-> key, known |-> known]
Unset == [host |-> Nil, user |-> Nil, port |-> 0, key |-> Nil]
Nowhere == Endpoint(Nil, Nil, Nil, 0, Nil, Nil)

\* splitTarget: what follows the last colon is a port if it is a number.
SplitTarget(target) ==
    LET n == Len(target.parts)
        port == n > 1 /\ target.parts[n] \in DOMAIN Atoi
    IN  [user |-> target.user,
         host |-> IF port THEN SubSeq(target.parts, 1, n - 1) ELSE target.parts,
         port |-> IF port THEN Atoi[target.parts[n]] ELSE 0]

\* Mutant: ssh_config comes before the entry.
FillSshFirst(rt, e, ssh) ==
    LET t == SplitTarget(e.target)
        o == IF ssh # Nil /\ t.host \in DOMAIN ssh THEN ssh[t.host] ELSE Unset
    IN  Endpoint(rt.name, Or(o.host, t.host), Or(o.user, Or(e.user, Or(t.user, "root"))),
                 OrPort(e.port, OrPort(t.port, OrPort(o.port, 22))),
                 Or(e.key, Or(o.key, DefaultKey)), e.known)

\* Registry.fill: per field, the entry, then what its host says, then ssh_config
\* for that host, then a default.  The host an endpoint has already is kept when
\* ssh_config has none.
Fill(rt, e, ssh) ==
    LET t == SplitTarget(e.target)
        o == IF ssh # Nil /\ t.host \in DOMAIN ssh THEN ssh[t.host] ELSE Unset
    IN  Endpoint(rt.name,
                 IF ssh = Nil THEN t.host ELSE Or(o.host, Or(rt.host, t.host)),
                 Or(e.user, Or(t.user, Or(o.user, "root"))),
                 OrPort(e.port, OrPort(t.port, OrPort(o.port, 22))),
                 Or(e.key, Or(o.key, DefaultKey)),
                 e.known)

Raw(target) == Entry(target, Nil, 0, Nil, Nil)

\* Registry.Resolve.
Resolve(name, yaml, ssh) ==
    Fill([Nowhere EXCEPT !.name = name],
         IF name \in DOMAIN yaml THEN yaml[name] ELSE Raw(name), ssh)

\* Mutant: the host of --router is not reset.
OverrideKeepsHost(rt, host, key, ssh) ==
    LET rt2 == IF host = Nil THEN rt ELSE Fill([rt EXCEPT !.name = host], Raw(host), ssh)
    IN  [rt2 EXCEPT !.key = Or(key, @)]

\* Registry.Override.
Override(rt, host, key, ssh) ==
    LET rt2 == IF host = Nil THEN rt ELSE Fill([Nowhere EXCEPT !.name = host], Raw(host), ssh)
    IN  [rt2 EXCEPT !.key = Or(key, @)]

\* remoteFlags.dial, up to the connection: Nil if it ends with an error.
EndpointOf(flags, yaml, ssh) ==
    LET named == Resolve(Or(flags.router, flags.host), yaml, ssh)
        rt == Override(named, flags.host, flags.key, ssh)
    IN  IF (flags.router = Nil /\ flags.host = Nil) \/ named.host = <<>> \/ rt.key = Nil
        THEN Nil ELSE rt
=============================================================================
