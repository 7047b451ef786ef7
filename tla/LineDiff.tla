------------------------------ MODULE LineDiff ------------------------------
(***************************************************************************)
(* diff.Run for one file.  A text is a sequence of lines, a line what it   *)
(* says and the blanks it ends with.                                       *)
(***************************************************************************)
EXTENDS Integers, Sequences

Largest(set) == CHOOSE n \in set : \A m \in set : m <= n
Least(m, n) == IF m <= n THEN m ELSE n

\* A text without the blank lines at its end.
TrimEnd(s) == SubSeq(s, 1, Largest({0} \cup {i \in 1..Len(s) : s[i].says # ""}))

Normalize(s) == [i \in 1..Len(TrimEnd(s)) |-> s[i].says]

CommonPrefix(a, b) ==
    Largest({n \in 0..Least(Len(a), Len(b)) : SubSeq(a, 1, n) = SubSeq(b, 1, n)})

Suffix(s, n) == SubSeq(s, Len(s) - n + 1, Len(s))

\* Mutant: the suffix may reach into the prefix.
SuffixOverlaps(a, b, p) ==
    Largest({n \in 0..Least(Len(a), Len(b)) : Suffix(a, n) = Suffix(b, n)})

CommonSuffix(a, b, p) ==
    Largest({n \in 0..Least(Len(a) - p, Len(b) - p) : Suffix(a, n) = Suffix(b, n)})

\* writeLineDiff: what is removed and added, and the lines around it.
WriteLineDiff(router, local) ==
    LET a == TrimEnd(router)
        b == TrimEnd(local)
        p == CommonPrefix(a, b)
        n == CommonSuffix(a, b, p)
        sA == Len(a) - n
        sB == Len(b) - n
    IN  [before |-> SubSeq(a, p - Least(p, 2) + 1, p),
         minus |-> SubSeq(a, p + 1, sA),
         plus |-> SubSeq(b, p + 1, sB),
         after |-> SubSeq(a, sA + 1, sA + Least(Len(a) - sA, 2))]

\* Mutant: the texts are compared as they are.
VerdictExact(router, local) == IF router = local THEN "same" ELSE "changed"

Verdict(router, local) == IF Normalize(router) = Normalize(local) THEN "same" ELSE "changed"

-----------------------------------------------------------------------------
(* What the output of a diff is for *)

\* Removing and adding the lines it marks, at the place its context tells, turns
\* the router's text into the local one.
Explains(hunk, router, local) ==
    LET a == TrimEnd(router)
        b == TrimEnd(local)
        m == hunk.before \o hunk.minus \o hunk.after
    IN  \E i \in 0..Len(a) - Len(m) :
            /\ SubSeq(a, i + 1, i + Len(m)) = m
            /\ b = SubSeq(a, 1, i) \o hunk.before \o hunk.plus \o hunk.after
                    \o SubSeq(a, i + Len(m) + 1, Len(a))

\* The texts say the same: they differ in blanks at the ends of lines, and in
\* blank lines at their end.
SaySame(router, local) ==
    \A i \in 1..Len(router) + Len(local) :
        LET Says(s) == IF i <= Len(s) THEN s[i].says ELSE ""
        IN  Says(router) = Says(local)
=============================================================================
