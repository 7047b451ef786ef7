------------------------------- MODULE Router -------------------------------
(***************************************************************************)
(* The router as wrtbox's commands see it: the managed files, the staging  *)
(* and backup directories, and what one remote command may do and answer.  *)
(* A file's content is the version of the config it was rendered from,     *)
(* the stock content it had before wrtbox, or Torn after a copy that       *)
(* stopped half-way.                                                       *)
(***************************************************************************)
EXTENDS Remote, Sequences, FiniteSets

CONSTANTS
    Path,       \* the managed paths
    Managed,    \* managedPaths: the same paths in the order they are declared
    Version,    \* the rendered configs (contents of wrtbox.yaml) an operator applies
    Rendered,   \* Rendered[v]: the paths render.Render emits for v, sorted
    Stock,      \* content of a file wrtbox did not write
    Time,       \* timestamps with the resolution of a second, as numbers
    UciPath,    \* the managed paths under etc/config
    XrayPath,   \* etc/xray/config.json
    Rejected    \* <<path, version>> pairs that `uci show` or `xray -test` refuses

Content == Version \cup {Stock, Torn}
Slot == Content \cup {Absent}
Tree == [Path -> Slot]
EmptyTree == [p \in Path |-> Absent]

\* The elements among the first n of a sequence.
First(s, n) == {s[i] : i \in 1..n}

FilesOf(v) == First(Rendered[v], Len(Rendered[v]))

ASSUME PathsAssumption ==
    /\ Managed \in Seq(Path)
    /\ First(Managed, Len(Managed)) = Path
    /\ Managed # <<>>
    /\ Rendered \in [Version -> Seq(Path)]
    /\ \A v \in Version : Rendered[v] # <<>>
    /\ UciPath \subseteq Path
    /\ XrayPath \in Path
    /\ \A v \in Version : XrayPath \in FilesOf(v)

ASSUME ContentAssumption ==
    /\ Stock \notin Version
    /\ Torn \notin Version \cup {Stock}
    /\ Absent \notin Version \cup {Stock, Torn}
    /\ Rejected \subseteq Path \X Version

ASSUME TimeAssumption == Time \subseteq Nat

-----------------------------------------------------------------------------
\* tree with content c at every path of ps.
Overlay(tree, ps, c) == [p \in Path |-> IF p \in ps THEN c ELSE tree[p]]

\* What a completed apply of v leaves where `tree` was: the files of v replaced,
\* every other managed path as it was.
Installed(tree, v) == Overlay(tree, FilesOf(v), v)

\* Every file `tree` has is in t; paths `tree` lacks may hold what v put there.
Undone(t, tree, v) ==
    \A p \in Path : \/ t[p] = tree[p]
                    \/ tree[p] = Absent /\ p \in FilesOf(v) /\ t[p] \in {v, Torn}

\* Path by path, t is `tree`, or v where v has a file, or torn.  Where there was
\* no file and v has none, there is none.
Mixed(t, tree, v) ==
    \A p \in Path : \/ t[p] = tree[p]
                    \/ t[p] = v /\ p \in FilesOf(v)
                    \/ t[p] = Torn /\ (p \in FilesOf(v) \/ tree[p] # Absent)

-----------------------------------------------------------------------------
\* `rm -rf dir`: the trees it may leave.
Removed(eff, tree) ==
    CASE eff = "none" -> {tree}
      [] eff = "part" -> {Overlay(tree, ps, Absent) : ps \in SUBSET Path}
      [] eff = "all"  -> {EmptyTree}
=============================================================================
