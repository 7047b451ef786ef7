-------------------------- MODULE AntifilterProofs --------------------------
(***************************************************************************)
(* What holds of update-antifilter.sh for every list and config, also when *)
(* applies and power cuts come between its steps: the types, that only     *)
(* tested configs are put in place, that the rules stay and that the list  *)
(* comes before geoip:ru.  The last two rest on what the jq program makes  *)
(* of any sequence of rules (RefreshFacts), by induction over it.          *)
(***************************************************************************)
EXTENDS Antifilter, SequenceTheorems, WellFoundedInduction, TLAPS


-----------------------------------------------------------------------------
(* Recursion over a sequence *)

\* A set of natural numbers has a least one.
LEMMA LeastIsThere ==
    ASSUME NEW set \in SUBSET Nat, set # {}
    PROVE  \E m \in set : \A n \in set : m <= n
<1>. DEFINE less == OpToRel(<, Nat)
<1>1. IsWellFoundedOn(less, Nat)
  BY NatLessThanWellFounded, Zenon
<1>2. \A x, y \in Nat : <<y, x>> \in less <=> y < x
  BY DEF OpToRel
<1>. HIDE DEF less
<1>3. PICK m \in set : \A n \in set : ~(<<n, m>> \in less)
  BY <1>1, WFMin
<1>4. \A n \in set : ~(n < m) /\ n \in Nat /\ m \in Nat
  BY <1>2, <1>3
<1>. QED
  BY <1>4

\* What holds at 0 and at each step from one to the next holds throughout.  (The
\* library's theorem takes an operator, which cannot be instantiated here.)
LEMMA Throughout ==
    ASSUME NEW n \in Nat, NEW good, 0 \in good, \A i \in 1..n : i - 1 \in good => i \in good
    PROVE  0..n \subseteq good
<1>. DEFINE bad == {i \in 0..n : i \notin good}
<1>. SUFFICES ASSUME bad # {} PROVE FALSE
  OBVIOUS
<1>1. PICK m \in bad : \A h \in bad : m <= h
  <2>1. bad \subseteq Nat
    OBVIOUS
  <2>. HIDE DEF bad
  <2>. QED
    BY <2>1, LeastIsThere
<1>2. m # 0
  BY <1>1
<1>3. m \in 1..n /\ m - 1 \in 0..n /\ ~(m <= m - 1)
  BY <1>1, <1>2
<1>4. m - 1 \in good
  BY <1>1, <1>3
<1>. QED
  BY <1>1, <1>3, <1>4

Solution(D, d, n, g, f) ==
    f \in [0..n -> D] /\ f[0] = d /\ \A i \in 1..n : f[i] = g[<<i, f[i - 1]>>]

\* A recursion from i - 1 to i, given as a function, has a solution.
LEMMA Recursion ==
    ASSUME NEW D, NEW d \in D, NEW n \in Nat, NEW g \in [(1..n) \X D -> D]
    PROVE  \E f : Solution(D, d, n, g, f)
<1>. USE DEF Solution
<1>. DEFINE Solves(f, m) == f \in [0..m -> D] /\ f[0] = d /\ \A i \in 1..m : f[i] = g[<<i, f[i - 1]>>]
            good == {m \in 0..n : \E f : Solves(f, m)}
<1>1. 0 \in good
  <2>. DEFINE one == [i \in 0..0 |-> d]
  <2>1. Solves(one, 0)
    OBVIOUS
  <2>2. 0 \in 0..n
    OBVIOUS
  <2>. HIDE DEF one, Solves
  <2>. QED
    BY <2>1, <2>2
<1>2. ASSUME NEW m \in 1..n, m - 1 \in good PROVE m \in good
  <2>1. PICK f : Solves(f, m - 1)
    BY <1>2
  <2>2. m - 1 \in 0..(m - 1) /\ m \in Nat /\ m # 0 /\ f[m - 1] \in D
    BY <2>1
  <2>. DEFINE c == g[<<m, f[m - 1]>>]
              more == [i \in 0..m |-> IF i = m THEN c ELSE f[i]]
  <2>3. c \in D
    BY <2>2
  <2>4. /\ more[m] = c /\ more[m - 1] = f[m - 1] /\ more[0] = f[0]
        /\ \A i \in 1..(m - 1) : more[i] = f[i] /\ more[i - 1] = f[i - 1]
    <3>. HIDE DEF c
    <3>. QED
      BY <2>2
  <2>5. \A i \in 0..m : i = m \/ i \in 0..(m - 1)
    BY <2>2
  <2>6. more \in [0..m -> D]
    <3>1. \A i \in 0..m : (IF i = m THEN c ELSE f[i]) \in D
      <4>. HIDE DEF c
      <4>. QED
        BY <2>1, <2>3, <2>5
    <3>. HIDE DEF c
    <3>. QED
      BY <3>1
  <2>7. \A i \in 1..m : i = m \/ i \in 1..(m - 1)
    BY <2>2
  <2>8. \A i \in 1..m : more[i] = g[<<i, more[i - 1]>>]
    <3>. HIDE DEF more
    <3>. QED
      BY <2>1, <2>4, <2>7
  <2>9. Solves(more, m)
    <3>. HIDE DEF more, c
    <3>. QED
      BY <2>1, <2>4, <2>6, <2>8
  <2>10. m \in 0..n
    OBVIOUS
  <2>. HIDE DEF more, c, Solves
  <2>. QED
    BY <2>9, <2>10
<1>3. n \in good
  <2>. HIDE DEF good
  <2>1. 0..n \subseteq good
    BY <1>1, <1>2, Throughout
  <2>. QED
    BY <2>1
<1>. QED
  BY <1>3

-----------------------------------------------------------------------------
(* The rules without those for lists *)

KeptUpTo(rules, n, kept) ==
    kept = [i \in 0..n |-> IF i = 0 THEN <<>>
                           ELSE IF rules[i].ip \in List THEN kept[i - 1]
                                                        ELSE Append(kept[i - 1], rules[i])]

Kept(rules) == CHOOSE kept : KeptUpTo(rules, Len(rules), kept)

\* WithoutLists goes over the rules one by one.
LEMMA KeptSteps ==
    ASSUME NEW rules \in Seq(Rule)
    PROVE  /\ WithoutLists(rules) = Kept(rules)[Len(rules)]
           /\ Kept(rules)[0] = <<>>
           /\ \A i \in 1..Len(rules) :
                 Kept(rules)[i] = IF rules[i].ip \in List THEN Kept(rules)[i - 1]
                                                          ELSE Append(Kept(rules)[i - 1], rules[i])
<1>. DEFINE n == Len(rules)
            step(i, s) == IF rules[i].ip \in List THEN s ELSE Append(s, rules[i])
            g == [x \in (1..n) \X Seq(Rule) |-> step(x[1], x[2])]
<1>1. n \in Nat /\ \A i \in 1..n : rules[i] \in Rule
  OBVIOUS
<1>. HIDE DEF n
<1>2. g \in [(1..n) \X Seq(Rule) -> Seq(Rule)]
  BY <1>1
<1>3. \A i \in 1..n, s \in Seq(Rule) : g[<<i, s>>] = step(i, s)
  OBVIOUS
<1>. HIDE DEF g, step
<1>4. PICK f \in [0..n -> Seq(Rule)] : f[0] = <<>> /\ \A i \in 1..n : f[i] = g[<<i, f[i - 1]>>]
  <2>. DEFINE D == Seq(Rule)
  <2>1. <<>> \in D /\ n \in Nat /\ g \in [(1..n) \X D -> D]
    BY <1>1, <1>2
  <2>. HIDE DEF D
  <2>2. PICK f : Solution(D, <<>>, n, g, f)
    BY <2>1, Recursion
  <2>. QED
    BY <2>2 DEF D, Solution
<1>5. \A i \in 1..n : i \in 0..n /\ i # 0 /\ i - 1 \in 0..n
  BY <1>1
<1>6. \A i \in 0..n : i = 0 \/ i \in 1..n
  BY <1>1
<1>7. \A i \in 0..n : f[i] = IF i = 0 THEN <<>> ELSE step(i, f[i - 1])
  BY <1>3, <1>4, <1>5, <1>6
<1>8. KeptUpTo(rules, n, f)
  BY <1>4, <1>7 DEF KeptUpTo, step
<1>9. KeptUpTo(rules, n, Kept(rules))
  BY <1>8, Zenon DEF Kept, n
<1>10. \A i \in 0..n : Kept(rules)[i] = IF i = 0 THEN <<>> ELSE step(i, Kept(rules)[i - 1])
  <2>. DEFINE kept == Kept(rules)
  <2>1. kept = [i \in 0..n |-> IF i = 0 THEN <<>> ELSE step(i, kept[i - 1])]
    BY <1>9 DEF KeptUpTo, step
  <2>. HIDE DEF kept
  <2>2. \A i \in 0..n : kept[i] = IF i = 0 THEN <<>> ELSE step(i, kept[i - 1])
    BY <2>1
  <2>. QED
    BY <2>2 DEF kept
<1>11. WithoutLists(rules) = Kept(rules)[Len(rules)]
  BY DEF WithoutLists, Kept, KeptUpTo
<1>12. 0 \in 0..n
  BY <1>1
<1>. QED
  BY <1>5, <1>10, <1>11, <1>12 DEF step, n

\* What is kept of a beginning depends on that beginning only, and not on which
\* lists its rules have.
\* Rules for lists in the same places make no difference.
LEMMA KeptAlike ==
    ASSUME NEW s \in Seq(Rule), NEW t \in Seq(Rule), NEW n \in Nat, n <= Len(s), n <= Len(t),
           \A i \in 1..n : s[i] = t[i] \/ (s[i].ip \in List /\ t[i].ip \in List)
    PROVE  Kept(s)[n] = Kept(t)[n]
<1>. DEFINE good == {i \in 0..n : Kept(s)[i] = Kept(t)[i]}
<1>1. 0 \in good
  BY KeptSteps
<1>2. ASSUME NEW i \in 1..n, i - 1 \in good PROVE i \in good
  <2>1. i \in 1..Len(s) /\ i \in 1..Len(t) /\ i \in 0..n
    OBVIOUS
  <2>2. Kept(s)[i] = IF s[i].ip \in List THEN Kept(s)[i - 1] ELSE Append(Kept(s)[i - 1], s[i])
    BY <2>1, KeptSteps
  <2>3. Kept(t)[i] = IF t[i].ip \in List THEN Kept(t)[i - 1] ELSE Append(Kept(t)[i - 1], t[i])
    BY <2>1, KeptSteps
  <2>4. Kept(s)[i - 1] = Kept(t)[i - 1]
    BY <1>2
  <2>. QED
    BY <2>1, <2>2, <2>3, <2>4
<1>3. n \in good
  <2>. HIDE DEF good
  <2>1. 0..n \subseteq good
    BY <1>1, <1>2, Throughout
  <2>. QED
    BY <2>1
<1>. QED
  BY <1>3

\* The same for whole sequences.
LEMMA WithoutAlike ==
    ASSUME NEW s \in Seq(Rule), NEW t \in Seq(Rule), Len(s) = Len(t),
           \A i \in 1..Len(s) : s[i] = t[i] \/ (s[i].ip \in List /\ t[i].ip \in List)
    PROVE  WithoutLists(s) = WithoutLists(t)
<1>1. Len(s) \in Nat
  OBVIOUS
<1>2. Kept(s)[Len(s)] = Kept(t)[Len(s)]
  BY <1>1, KeptAlike
<1>. QED
  BY <1>2, KeptSteps

\* One more rule is kept unless it is for a list.
LEMMA WithoutAppend ==
    ASSUME NEW s \in Seq(Rule), NEW r \in Rule
    PROVE  WithoutLists(Append(s, r)) = IF r.ip \in List THEN WithoutLists(s)
                                                         ELSE Append(WithoutLists(s), r)
<1>. DEFINE t == Append(s, r)
            n == Len(s)
<1>1. /\ t \in Seq(Rule) /\ Len(t) = n + 1 /\ n \in Nat /\ t[n + 1] = r
      /\ \A i \in 1..n : t[i] = s[i]
  OBVIOUS
<1>. HIDE DEF t
<1>2. Kept(t)[n] = Kept(s)[n]
  BY <1>1, KeptAlike
<1>3. n + 1 \in 1..Len(t) /\ (n + 1) - 1 = n
  BY <1>1
<1>4. Kept(t)[n + 1] = IF t[n + 1].ip \in List THEN Kept(t)[(n + 1) - 1]
                       ELSE Append(Kept(t)[(n + 1) - 1], t[n + 1])
  BY <1>1, <1>3, KeptSteps
<1>5. WithoutLists(t) = Kept(t)[n + 1] /\ WithoutLists(s) = Kept(s)[n]
  BY <1>1, KeptSteps
<1>. QED
  BY <1>1, <1>2, <1>3, <1>4, <1>5 DEF t

-----------------------------------------------------------------------------
(* The jq program *)

AccUpTo(rules, cidrs, n, acc) ==
    acc = [i \in 0..n |-> IF i = 0 THEN <<>> ELSE Added(acc[i - 1], rules[i], cidrs)]

Acc(rules, cidrs) == CHOOSE acc : AccUpTo(rules, cidrs, Len(rules), acc)

Unmarked(rules) == [i \in 1..Len(rules) |-> [rules[i] EXCEPT !.mark = FALSE]]

\* A rule of a file is added as it is, or after a new one.
LEMMA AddedRule ==
    ASSUME NEW acc \in Seq(Rule), NEW r \in Filed, NEW cidrs \in Ip
    PROVE  /\ Added(acc, r, cidrs) \in Seq(Rule)
           /\ IF r.ip = GeoipRu /\ ~Marked(acc)
              THEN Added(acc, r, cidrs) = Append(Append(acc, [ip |-> cidrs, mark |-> TRUE]), r)
              ELSE Added(acc, r, cidrs) = Append(acc, r)
<1>. DEFINE new == [ip |-> cidrs, mark |-> TRUE]
<1>1. r \in Rule /\ r.mark = FALSE /\ new \in Rule
  BY DEF Filed, Rule
<1>. HIDE DEF new
<1>2. acc \o <<new, r>> = Append(Append(acc, new), r)
  BY <1>1
<1>3. Append(acc, r) \in Seq(Rule) /\ Append(Append(acc, new), r) \in Seq(Rule)
  BY <1>1
<1>. QED
  BY <1>1, <1>2, <1>3 DEF Added, new

\* Refreshed goes over the rules one by one, and takes the marks off.
LEMMA AccSteps ==
    ASSUME NEW rules \in Seq(Filed), NEW cidrs \in Ip
    PROVE  /\ Refreshed(rules, cidrs) = Unmarked(Acc(rules, cidrs)[Len(rules)])
           /\ Acc(rules, cidrs)[0] = <<>>
           /\ \A i \in 1..Len(rules) :
                 Acc(rules, cidrs)[i] = Added(Acc(rules, cidrs)[i - 1], rules[i], cidrs)
<1>. DEFINE n == Len(rules)
            g == [x \in (1..n) \X Seq(Rule) |-> Added(x[2], rules[x[1]], cidrs)]
<1>1. n \in Nat /\ \A i \in 1..n : rules[i] \in Filed
  OBVIOUS
<1>. HIDE DEF n
<1>2. \A i \in 1..n, s \in Seq(Rule) : Added(s, rules[i], cidrs) \in Seq(Rule)
  BY <1>1, AddedRule
<1>3. g \in [(1..n) \X Seq(Rule) -> Seq(Rule)]
  <2>. DEFINE D == Seq(Rule)
              step(i, s) == Added(s, rules[i], cidrs)
  <2>1. \A i \in 1..n, s \in D : step(i, s) \in D
    BY <1>2
  <2>2. g = [x \in (1..n) \X D |-> step(x[1], x[2])]
    OBVIOUS
  <2>. HIDE DEF D, step, g
  <2>3. g \in [(1..n) \X D -> D]
    BY <2>1, <2>2
  <2>. QED
    BY <2>3 DEF D
<1>4. \A i \in 1..n, s \in Seq(Rule) : g[<<i, s>>] = Added(s, rules[i], cidrs)
  OBVIOUS
<1>. HIDE DEF g
<1>5. PICK f : f \in [0..n -> Seq(Rule)] /\ f[0] = <<>> /\ \A i \in 1..n : f[i] = g[<<i, f[i - 1]>>]
  <2>. DEFINE D == Seq(Rule)
  <2>1. <<>> \in D /\ n \in Nat /\ g \in [(1..n) \X D -> D]
    BY <1>1, <1>3
  <2>. HIDE DEF D
  <2>2. PICK f : Solution(D, <<>>, n, g, f)
    BY <2>1, Recursion
  <2>. QED
    BY <2>2 DEF D, Solution
<1>6. \A i \in 1..n : i \in 0..n /\ i # 0 /\ i - 1 \in 0..n
  BY <1>1
<1>7. \A i \in 0..n : i = 0 \/ i \in 1..n
  BY <1>1
<1>8. \A i \in 0..n : f[i] = IF i = 0 THEN <<>> ELSE Added(f[i - 1], rules[i], cidrs)
  BY <1>4, <1>5, <1>6, <1>7
<1>9. AccUpTo(rules, cidrs, n, f)
  BY <1>5, <1>8 DEF AccUpTo
<1>10. AccUpTo(rules, cidrs, n, Acc(rules, cidrs))
  BY <1>9, Zenon DEF Acc, n
<1>11. \A i \in 0..n :
           Acc(rules, cidrs)[i] = IF i = 0 THEN <<>> ELSE Added(Acc(rules, cidrs)[i - 1], rules[i], cidrs)
  <2>. DEFINE acc == Acc(rules, cidrs)
  <2>1. acc = [i \in 0..n |-> IF i = 0 THEN <<>> ELSE Added(acc[i - 1], rules[i], cidrs)]
    BY <1>10 DEF AccUpTo
  <2>. HIDE DEF acc
  <2>2. \A i \in 0..n : acc[i] = IF i = 0 THEN <<>> ELSE Added(acc[i - 1], rules[i], cidrs)
    BY <2>1
  <2>. QED
    BY <2>2 DEF acc
<1>12. Refreshed(rules, cidrs) = Unmarked(Acc(rules, cidrs)[Len(rules)])
  BY DEF Refreshed, Unmarked, Acc, AccUpTo
<1>13. 0 \in 0..n
  BY <1>1
<1>14. \A i \in 1..n : Acc(rules, cidrs)[i] = Added(Acc(rules, cidrs)[i - 1], rules[i], cidrs)
  BY <1>6, <1>11
<1>15. Acc(rules, cidrs)[0] = <<>>
  BY <1>11, <1>13
<1>. QED
  BY <1>12, <1>14, <1>15 DEF n

HasGeoip(rules) == \E i \in 1..Len(rules) : rules[i].ip = GeoipRu

\* What the program has made of the first rules.
Ordered(acc, cidrs) ==
    /\ \A i \in 1..Len(acc) : acc[i].mark => acc[i].ip = cidrs
    /\ Marked(acc) <=> HasGeoip(acc)
    /\ Before(acc, cidrs)

\* What is where in a sequence with one more rule.
LEMMA AppendParts ==
    ASSUME NEW s \in Seq(Rule), NEW r \in Rule
    PROVE  /\ Append(s, r) \in Seq(Rule) /\ Len(s) \in Nat /\ Len(Append(s, r)) = Len(s) + 1
           /\ Append(s, r)[Len(s) + 1] = r
           /\ \A i \in 1..Len(s) : Append(s, r)[i] = s[i] /\ i \in 1..Len(s) + 1
           /\ \A i \in 1..Len(s) + 1 : i = Len(s) + 1 \/ i \in 1..Len(s)
           /\ Len(s) + 1 \in 1..Len(s) + 1
OBVIOUS

\* One more rule brings its mark, and its geoip:ru.
LEMMA AppendMarked ==
    ASSUME NEW s \in Seq(Rule), NEW r \in Rule
    PROVE  /\ Marked(Append(s, r)) <=> Marked(s) \/ r.mark
           /\ HasGeoip(Append(s, r)) <=> HasGeoip(s) \/ r.ip = GeoipRu
<1>. DEFINE t == Append(s, r)
            n == Len(s)
<1>1. /\ Len(t) = n + 1 /\ t[n + 1] = r /\ n + 1 \in 1..n + 1
      /\ \A i \in 1..n : t[i] = s[i] /\ i \in 1..n + 1
      /\ \A i \in 1..n + 1 : i = n + 1 \/ i \in 1..n
  BY AppendParts
<1>. HIDE DEF t
<1>. QED
  <2>1. Marked(t) <=> Marked(s) \/ r.mark
    BY <1>1 DEF Marked
  <2>2. HasGeoip(t) <=> HasGeoip(s) \/ r.ip = GeoipRu
    BY <1>1 DEF HasGeoip
  <2>. QED
    BY <2>1, <2>2 DEF t

\* A rule that has no geoip:ru, or comes after the first that has it, changes nothing.
LEMMA AppendBefore ==
    ASSUME NEW s \in Seq(Rule), NEW r \in Rule, NEW ip, Before(s, ip), HasGeoip(s) \/ r.ip # GeoipRu
    PROVE  Before(Append(s, r), ip)
<1>. DEFINE t == Append(s, r)
            n == Len(s)
<1>1. /\ Len(t) = n + 1 /\ t[n + 1] = r /\ n \in Nat
      /\ \A i \in 1..n : t[i] = s[i]
      /\ \A i \in 1..n + 1 : i = n + 1 \/ i \in 1..n
  BY AppendParts
<1>. HIDE DEF t
<1>2. ASSUME NEW i \in 1..Len(t), t[i].ip = GeoipRu, \A j \in 1..i - 1 : t[j].ip # GeoipRu
      PROVE  i > 1 /\ t[i - 1].ip = ip
  <2>1. CASE i \in 1..n
    <3>1. \A j \in 1..i - 1 : j \in 1..n
      BY <1>1, <2>1
    <3>2. s[i].ip = GeoipRu /\ \A j \in 1..i - 1 : s[j].ip # GeoipRu
      BY <1>1, <1>2, <2>1, <3>1
    <3>3. i > 1 /\ s[i - 1].ip = ip
      BY <2>1, <3>2 DEF Before
    <3>4. i - 1 \in 1..n
      BY <1>1, <2>1, <3>3
    <3>. QED
      BY <1>1, <3>3, <3>4
  <2>2. CASE i = n + 1
    <3>1. HasGeoip(s)
      BY <1>1, <1>2, <2>2
    <3>2. PICK j \in 1..n : s[j].ip = GeoipRu
      BY <3>1 DEF HasGeoip
    <3>3. j \in 1..i - 1
      BY <1>1, <2>2
    <3>. QED
      BY <1>1, <1>2, <3>2, <3>3
  <2>. QED
    BY <1>1, <1>2, <2>1, <2>2
<1>3. Before(t, ip)
  BY <1>2 DEF Before
<1>. QED
  BY <1>3 DEF t

\* A rule that is appended as it is.
LEMMA AppendOrdered ==
    ASSUME NEW s \in Seq(Rule), NEW r \in Rule, NEW cidrs, Ordered(s, cidrs), r.mark = FALSE,
           Marked(s) \/ r.ip # GeoipRu
    PROVE  Ordered(Append(s, r), cidrs)
<1>1. Before(Append(s, r), cidrs)
  BY AppendBefore DEF Ordered
<1>2. Marked(Append(s, r)) <=> HasGeoip(Append(s, r))
  BY AppendMarked DEF Ordered
<1>3. \A i \in 1..Len(Append(s, r)) : Append(s, r)[i].mark => Append(s, r)[i].ip = cidrs
  <2>. DEFINE t == Append(s, r)
              n == Len(s)
  <2>1. /\ Len(t) = n + 1 /\ t[n + 1] = r
        /\ \A i \in 1..n : t[i] = s[i]
        /\ \A i \in 1..n + 1 : i = n + 1 \/ i \in 1..n
    BY AppendParts
  <2>. HIDE DEF t
  <2>2. \A i \in 1..Len(t) : t[i].mark => t[i].ip = cidrs
    BY <2>1 DEF Ordered
  <2>. QED
    BY <2>2 DEF t
<1>. QED
  BY <1>1, <1>2, <1>3 DEF Ordered

\* The new rule right before the first with geoip:ru.
LEMMA InsertOrdered ==
    ASSUME NEW s \in Seq(Rule), NEW r \in Rule, NEW cidrs \in Ip, Ordered(s, cidrs), r.mark = FALSE,
           ~Marked(s), r.ip = GeoipRu, cidrs # GeoipRu
    PROVE  Ordered(Append(Append(s, [ip |-> cidrs, mark |-> TRUE]), r), cidrs)
<1>. DEFINE new == [ip |-> cidrs, mark |-> TRUE]
            u == Append(s, new)
            t == Append(u, r)
            n == Len(s)
<1>1. new \in Rule /\ new.ip = cidrs /\ new.mark = TRUE
  BY DEF Rule
<1>. HIDE DEF new
<1>2. /\ u \in Seq(Rule) /\ n \in Nat /\ Len(u) = n + 1 /\ u[n + 1] = new
      /\ \A i \in 1..n : u[i] = s[i]
      /\ \A i \in 1..n + 1 : i = n + 1 \/ i \in 1..n
  BY <1>1, AppendParts
<1>3. Marked(u) /\ ~HasGeoip(u)
  BY <1>1, AppendMarked DEF Ordered
<1>. HIDE DEF u
<1>4. /\ Len(t) = (n + 1) + 1 /\ t[(n + 1) + 1] = r /\ (Marked(t) <=> HasGeoip(t))
      /\ \A i \in 1..n + 1 : t[i] = u[i]
      /\ \A i \in 1..(n + 1) + 1 : i = (n + 1) + 1 \/ i \in 1..n + 1
  <2>1. Marked(t) /\ HasGeoip(t)
    BY <1>2, <1>3, AppendMarked
  <2>. QED
    BY <1>2, <2>1, AppendParts
<1>. HIDE DEF t
<1>5. \A i \in 1..Len(t) : t[i].mark => t[i].ip = cidrs
  <2>. SUFFICES ASSUME NEW i \in 1..Len(t), t[i].mark PROVE t[i].ip = cidrs
    OBVIOUS
  <2>1. i \in 1..n + 1 /\ u[i].mark /\ t[i] = u[i]
    BY <1>4
  <2>. QED
    BY <1>1, <1>2, <2>1 DEF Ordered
<1>6. ASSUME NEW i \in 1..Len(t), t[i].ip = GeoipRu PROVE i > 1 /\ t[i - 1].ip = cidrs
  <2>1. i \notin 1..n + 1
    BY <1>2, <1>3, <1>4, <1>6 DEF HasGeoip
  <2>2. i = (n + 1) + 1
    BY <1>4, <2>1
  <2>3. i > 1 /\ i - 1 = n + 1 /\ n + 1 \in 1..n + 1
    BY <1>2, <2>2
  <2>. QED
    BY <1>1, <1>2, <1>4, <2>3
<1>7. Ordered(t, cidrs)
  BY <1>4, <1>5, <1>6 DEF Ordered, Before
<1>. QED
  BY <1>7 DEF t, u, new

\* After each rule: the order is right, and of the rules none is lost.
LEMMA AccFacts ==
    ASSUME NEW rules \in Seq(Filed), NEW cidrs \in Ip, cidrs # GeoipRu, NEW n \in 0..Len(rules)
    PROVE  /\ Acc(rules, cidrs)[n] \in Seq(Rule)
           /\ Ordered(Acc(rules, cidrs)[n], cidrs)
           /\ cidrs \in List \/ ~Marked(Acc(rules, cidrs)[n])
              => WithoutLists(Acc(rules, cidrs)[n]) = Kept(rules)[n]
<1>. DEFINE acc == Acc(rules, cidrs)
            kept == Kept(rules)
            Fine(i) == /\ acc[i] \in Seq(Rule)
                       /\ Ordered(acc[i], cidrs)
                       /\ cidrs \in List \/ ~Marked(acc[i]) => WithoutLists(acc[i]) = kept[i]
            good == {i \in 0..Len(rules) : Fine(i)}
<1>1. /\ rules \in Seq(Rule) /\ Len(rules) \in Nat
      /\ \A i \in 1..Len(rules) : rules[i] \in Filed /\ rules[i] \in Rule /\ rules[i].mark = FALSE
  <2>1. Filed \subseteq Rule /\ \A r \in Filed : r.mark = FALSE
    BY DEF Filed, Rule
  <2>. QED
    BY <2>1
<1>2. acc[0] = <<>> /\ \A i \in 1..Len(rules) : acc[i] = Added(acc[i - 1], rules[i], cidrs)
  BY AccSteps
<1>3. /\ kept[0] = <<>>
      /\ \A i \in 1..Len(rules) :
            kept[i] = IF rules[i].ip \in List THEN kept[i - 1] ELSE Append(kept[i - 1], rules[i])
  BY <1>1, KeptSteps
<1>. HIDE DEF acc, kept
<1>4. 0 \in good
  <2>1. <<>> \in Seq(Rule) /\ Len(<<>>) = 0
    OBVIOUS
  <2>2. WithoutLists(<<>>) = <<>>
    BY <2>1, KeptSteps
  <2>3. Ordered(<<>>, cidrs)
    BY <2>1 DEF Ordered, Marked, HasGeoip, Before
  <2>4. Fine(0)
    BY <1>2, <1>3, <2>1, <2>2, <2>3
  <2>5. 0 \in 0..Len(rules)
    BY <1>1
  <2>. HIDE DEF Fine
  <2>. QED
    BY <2>4, <2>5
<1>5. ASSUME NEW i \in 1..Len(rules), i - 1 \in good PROVE i \in good
  <2>. DEFINE a == acc[i - 1]
              r == rules[i]
              new == [ip |-> cidrs, mark |-> TRUE]
  <2>1. /\ a \in Seq(Rule) /\ Ordered(a, cidrs) /\ r \in Filed /\ r \in Rule /\ r.mark = FALSE
        /\ cidrs \in List \/ ~Marked(a) => WithoutLists(a) = kept[i - 1]
    BY <1>1, <1>5
  <2>2. /\ kept[i] = IF r.ip \in List THEN kept[i - 1] ELSE Append(kept[i - 1], r)
        /\ acc[i] = Added(a, r, cidrs)
    BY <1>2, <1>3
  <2>3. new \in Rule /\ new.ip = cidrs /\ new.mark = TRUE
    BY DEF Rule
  <2>. HIDE DEF a, r, new
  <2>4. ASSUME r.ip = GeoipRu, ~Marked(a) PROVE Fine(i)
    <3>1. acc[i] = Append(Append(a, new), r)
      BY <2>1, <2>2, <2>4, AddedRule DEF new
    <3>2. Append(a, new) \in Seq(Rule)
      BY <2>1, <2>3
    <3>3. acc[i] \in Seq(Rule)
      BY <2>1, <3>1, <3>2
    <3>4. Ordered(acc[i], cidrs)
      BY <2>1, <2>4, <3>1, InsertOrdered DEF new
    <3>5. Marked(acc[i])
      <4>1. Marked(Append(a, new))
        BY <2>1, <2>3, AppendMarked
      <4>2. Marked(Append(Append(a, new), r))
        BY <2>1, <3>2, <4>1, AppendMarked, Zenon
      <4>. QED
        BY <3>1, <4>2, Zenon
    <3>6. cidrs \in List => WithoutLists(acc[i]) = kept[i]
      <4>1. cidrs \in List => WithoutLists(Append(a, new)) = kept[i - 1]
        BY <2>1, <2>3, WithoutAppend
      <4>2. WithoutLists(acc[i]) = IF r.ip \in List THEN WithoutLists(Append(a, new))
                                                    ELSE Append(WithoutLists(Append(a, new)), r)
        BY <2>1, <3>1, <3>2, WithoutAppend
      <4>. QED
        BY <2>2, <4>1, <4>2
    <3>. QED
      BY <3>3, <3>4, <3>5, <3>6, Zenon
  <2>5. ASSUME ~(r.ip = GeoipRu /\ ~Marked(a)) PROVE Fine(i)
    <3>1. acc[i] = Append(a, r)
      BY <2>1, <2>2, <2>5, AddedRule
    <3>2. acc[i] \in Seq(Rule)
      BY <2>1, <3>1
    <3>3. Ordered(acc[i], cidrs)
      BY <2>1, <2>5, <3>1, AppendOrdered
    <3>4. Marked(acc[i]) <=> Marked(a)
      BY <2>1, <3>1, AppendMarked
    <3>5. WithoutLists(acc[i]) = IF r.ip \in List THEN WithoutLists(a) ELSE Append(WithoutLists(a), r)
      BY <2>1, <3>1, WithoutAppend
    <3>. QED
      BY <2>1, <2>2, <3>2, <3>3, <3>4, <3>5
  <2>6. Fine(i)
    BY <2>4, <2>5
  <2>7. i \in 0..Len(rules)
    BY <1>1
  <2>. HIDE DEF Fine
  <2>. QED
    BY <2>6, <2>7
<1>6. n \in good
  <2>. HIDE DEF good
  <2>1. 0..Len(rules) \subseteq good
    BY <1>1, <1>4, <1>5, Throughout
  <2>. QED
    BY <2>1
<1>. QED
  BY <1>6 DEF acc, kept

\* Taking the marks off leaves everything else.
LEMMA UnmarkedFacts ==
    ASSUME NEW s \in Seq(Rule)
    PROVE  /\ Unmarked(s) \in Seq(Filed) /\ Len(Unmarked(s)) = Len(s)
           /\ \A i \in 1..Len(s) : Unmarked(s)[i].ip = s[i].ip /\ (~s[i].mark => Unmarked(s)[i] = s[i])
<1>1. \A r \in Rule : /\ [r EXCEPT !.mark = FALSE] \in Filed /\ [r EXCEPT !.mark = FALSE].ip = r.ip
                      /\ ~r.mark => [r EXCEPT !.mark = FALSE] = r
  BY DEF Rule, Filed
<1>2. Len(s) \in Nat /\ \A i \in 1..Len(s) : s[i] \in Rule
  OBVIOUS
<1>. DEFINE off(r) == [r EXCEPT !.mark = FALSE]
<1>3. Unmarked(s) = [i \in 1..Len(s) |-> off(s[i])]
  BY DEF Unmarked
<1>4. \A r \in Rule : off(r) \in Filed /\ off(r).ip = r.ip /\ (~r.mark => off(r) = r)
  BY <1>1
<1>. HIDE DEF off
<1>. QED
  BY <1>2, <1>3, <1>4

\* The program keeps all rules but those for lists, and puts the list before the
\* first rule for geoip:ru.  An empty array in its place `xray -test` refuses.
LEMMA RefreshFacts ==
    ASSUME NEW rules \in Seq(Filed), NEW cidrs \in List \cup {NoEntries}
    PROVE  LET new == Refreshed(rules, cidrs) IN
           /\ new \in Seq(Filed)
           /\ Passes(new) => /\ WithoutLists(new) = WithoutLists(rules)
                             /\ \A l : cidrs = NoEntries \/ cidrs = l => Before(new, l)
<1>. DEFINE acc == Acc(rules, cidrs)[Len(rules)]
            new == Unmarked(acc)
<1>1. cidrs \in Ip /\ cidrs # GeoipRu /\ Len(rules) \in 0..Len(rules) /\ Filed \subseteq Rule
  <2>1. cidrs \in Ip /\ cidrs # GeoipRu
    BY AntifilterAssumption DEF Ip
  <2>2. Filed \subseteq Rule
    BY DEF Filed, Rule
  <2>3. Len(rules) \in 0..Len(rules)
    OBVIOUS
  <2>. QED
    BY <2>1, <2>2, <2>3
<1>2. Refreshed(rules, cidrs) = new
  BY <1>1, AccSteps
<1>3. /\ acc \in Seq(Rule) /\ Ordered(acc, cidrs)
      /\ cidrs \in List \/ ~Marked(acc) => WithoutLists(acc) = WithoutLists(rules)
  <2>1. rules \in Seq(Rule)
    BY <1>1
  <2>2. WithoutLists(rules) = Kept(rules)[Len(rules)]
    BY <2>1, KeptSteps
  <2>. QED
    BY <1>1, <2>2, AccFacts
<1>. HIDE DEF acc
<1>4. /\ new \in Seq(Filed) /\ Len(new) = Len(acc) /\ Len(acc) \in Nat
      /\ \A i \in 1..Len(acc) : new[i].ip = acc[i].ip /\ (~acc[i].mark => new[i] = acc[i])
  BY <1>3, UnmarkedFacts
<1>. HIDE DEF new
<1>5. ASSUME Passes(new) PROVE cidrs \in List \/ ~Marked(acc)
  <2>. SUFFICES ASSUME cidrs = NoEntries, Marked(acc) PROVE FALSE
    BY AntifilterAssumption
  <2>1. PICK i \in 1..Len(acc) : acc[i].mark
    BY DEF Marked
  <2>2. new[i].ip = NoEntries /\ i \in 1..Len(new)
    BY <1>3, <1>4, <2>1 DEF Ordered
  <2>. QED
    BY <1>5, <2>2 DEF Passes, Entries
<1>6. ASSUME cidrs \in List \/ ~Marked(acc) PROVE WithoutLists(new) = WithoutLists(acc)
  <2>1. new \in Seq(Rule)
    BY <1>1, <1>4
  <2>2. \A i \in 1..Len(acc) : new[i] = acc[i] \/ (new[i].ip \in List /\ acc[i].ip \in List)
    BY <1>3, <1>4, <1>6 DEF Ordered, Marked
  <2>. QED
    BY <1>3, <1>4, <2>1, <2>2, WithoutAlike
<1>7. ASSUME Passes(new), NEW l, cidrs = NoEntries \/ cidrs = l PROVE Before(new, l)
  <2>1. CASE cidrs = l
    <3>1. Before(acc, l)
      BY <1>3, <2>1 DEF Ordered
    <3>2. ASSUME NEW i \in 1..Len(new), new[i].ip = GeoipRu, \A j \in 1..i - 1 : new[j].ip # GeoipRu
          PROVE  i > 1 /\ new[i - 1].ip = l
      <4>1. i \in 1..Len(acc) /\ \A j \in 1..i - 1 : j \in 1..Len(acc)
        BY <1>4
      <4>2. acc[i].ip = GeoipRu /\ \A j \in 1..i - 1 : acc[j].ip # GeoipRu
        BY <1>4, <3>2, <4>1
      <4>3. i > 1 /\ acc[i - 1].ip = l
        BY <3>1, <4>1, <4>2 DEF Before
      <4>4. i - 1 \in 1..Len(acc)
        BY <1>4, <4>1, <4>3
      <4>. QED
        BY <1>4, <4>3, <4>4
    <3>. QED
      BY <3>2 DEF Before
  <2>2. CASE cidrs = NoEntries
    <3>1. ~HasGeoip(acc)
      BY <1>3, <1>5, <1>7, <2>2, AntifilterAssumption DEF Ordered
    <3>2. \A i \in 1..Len(new) : new[i].ip # GeoipRu
      BY <1>4, <3>1 DEF HasGeoip
    <3>. QED
      BY <3>2 DEF Before
  <2>. QED
    BY <1>7, <2>1, <2>2
<1>. QED
  BY <1>2, <1>3, <1>4, <1>5, <1>6, <1>7

-----------------------------------------------------------------------------
(* What the script does to the config *)

\* A rendered config is a sequence of rules as a file has them.
LEMMA InitTypes == Init => TypeOK
<1>. SUFFICES ASSUME Init PROVE TypeOK
  OBVIOUS
<1>1. \A c \in {config, configTmp, saved, base} : c = Torn \/ c \in Seq(Filed)
  BY AntifilterAssumption DEF Init
<1>2. applying \in BOOLEAN /\ overlapped \in BOOLEAN
  BY DEF Init
<1>. QED
  BY <1>1, <1>2 DEF Init, TypeOK

\* The temporary file holds rules as a file has them.
LEMMA RewriteTypes ==
    ASSUME TypeOK, Rewrite
    PROVE  configTmp' = Torn \/ configTmp' \in Seq(Filed)
<1>1. CASE config = Torn
  BY <1>1 DEF Rewrite
<1>2. CASE config # Torn
  <2>. DEFINE cidrs == IF list \in List THEN list ELSE NoEntries
  <2>1. config \in Seq(Filed) /\ cidrs \in List \cup {NoEntries} /\ configTmp' = Refreshed(config, cidrs)
    BY <1>2 DEF Rewrite, TypeOK
  <2>. HIDE DEF cidrs
  <2>. QED
    BY <2>1, RefreshFacts
<1>. QED
  BY <1>1, <1>2

\* No step leaves the types; Rewrite's is the jq program's.
LEMMA StepTypes == TypeOK /\ [Next]_vars => TypeOK'
<1>. SUFFICES ASSUME TypeOK, [Next]_vars PROVE TypeOK'
  OBVIOUS
<1>1. ASSUME NEW l \in List, Fetch(l) PROVE TypeOK'
  <2>1. overlapped' \in BOOLEAN
    BY <1>1 DEF Fetch, TypeOK
  <2>. QED
    BY <1>1, <2>1 DEF Fetch, TypeOK
<1>2. CASE FetchFails
  BY <1>2 DEF FetchFails, applyVars, TypeOK
<1>3. CASE Compare
  BY <1>3 DEF Compare, Exit, Goto, applyVars, TypeOK
<1>4. CASE Store
  BY <1>4 DEF Store, Goto, applyVars, TypeOK
<1>5. CASE Rewrite
  <2>1. configTmp' = Torn \/ configTmp' \in Seq(Filed)
    BY <1>5, RewriteTypes
  <2>. QED
    BY <1>5, <2>1 DEF Rewrite, Goto, applyVars, TypeOK
<1>6. ASSUME NEW ok \in BOOLEAN, Test(ok) PROVE TypeOK'
  BY <1>6 DEF Test, Exit, Goto, applyVars, TypeOK
<1>7. CASE Unlink
  BY <1>7 DEF Unlink, Goto, applyVars, TypeOK
<1>8. CASE CopyOver
  BY <1>8 DEF CopyOver, Exit, applyVars, TypeOK
<1>9. CASE Save
  <2>1. overlapped' \in BOOLEAN
    BY <1>9 DEF Save, TypeOK
  <2>. QED
    BY <1>9, <2>1 DEF Save, scriptVars, TypeOK
<1>10. ASSUME NEW v \in Version, SwapIn(v) PROVE TypeOK'
  <2>1. overlapped' \in BOOLEAN /\ Rendered[v] \in Seq(Filed)
    BY <1>10, AntifilterAssumption DEF SwapIn
  <2>. QED
    BY <1>10, <2>1 DEF SwapIn, scriptVars, TypeOK
<1>11. CASE Undo
  BY <1>11 DEF Undo, scriptVars, TypeOK
<1>12. CASE PowerCut
  <2>1. /\ exit' \in {exit, "cut"} /\ applying' = FALSE
        /\ UNCHANGED <<config, saved, base, overlapped, applies, updates>>
        /\ pc' = "idle" /\ listTmp' = Torn /\ configTmp' = Torn
    BY <1>12 DEF PowerCut, Exit
  <2>2. list' \in {list, Torn} /\ cuts' = cuts + 1
    BY <1>12 DEF PowerCut
  <2>3. \A c \in {config', configTmp', saved', base'} : c = Torn \/ c \in Seq(Filed)
    BY <2>1 DEF TypeOK
  <2>4. overlapped' \in BOOLEAN
    BY <2>1 DEF TypeOK
  <2>5. exit' \in {"none", "failed", "unchanged", "refused", "updated", "cut"}
    BY <2>1 DEF TypeOK
  <2>6. list' \in List \cup {Torn, NoDir} /\ cuts' \in Nat /\ updates' \in Nat /\ applies' \in Nat
    BY <2>1, <2>2 DEF TypeOK
  <2>. QED
    BY <2>1, <2>3, <2>4, <2>5, <2>6 DEF TypeOK
<1>13. CASE UNCHANGED vars
  BY <1>13 DEF vars, scriptVars, applyVars, TypeOK
<1>. QED
  BY <1>1, <1>2, <1>3, <1>4, <1>5, <1>6, <1>7, <1>8, <1>9, <1>10, <1>11, <1>12, <1>13 DEF Next, Script

\* The files hold a list of rules, or are torn; what is under way is in step (TypeOK).
THEOREM AntifilterTypeCorrect == Spec => []TypeOK
BY InitTypes, StepTypes, PTL DEF Spec

\* What Rewrite puts into the temporary file.
LEMMA RewriteFacts ==
    ASSUME TypeOK, Rewrite, Passes(configTmp')
    PROVE  /\ config # Torn /\ WithoutLists(configTmp') = WithoutLists(config)
           /\ Before(configTmp', list)
<1>1. config # Torn
  BY DEF Rewrite, Passes
<1>. DEFINE cidrs == IF list \in List THEN list ELSE NoEntries
<1>2. config \in Seq(Filed) /\ cidrs \in List \cup {NoEntries} /\ configTmp' = Refreshed(config, cidrs)
  BY <1>1 DEF Rewrite, TypeOK
<1>3. cidrs = NoEntries \/ cidrs = list
  OBVIOUS
<1>. HIDE DEF cidrs
<1>4. LET new == Refreshed(config, cidrs) IN
      /\ new \in Seq(Filed)
      /\ Passes(new) => /\ WithoutLists(new) = WithoutLists(config)
                        /\ \A l : cidrs = NoEntries \/ cidrs = l => Before(new, l)
  BY <1>2, RefreshFacts
<1>. QED
  BY <1>1, <1>2, <1>3, <1>4

\* A rendered config passes the test.
LEMMA InitSound == Init => SoundInv
BY AntifilterAssumption DEF Init, SoundInv, OnlyTested, Passes

\* The steps of either only move what is sound.
LEMMA SoundInductive == SoundInv /\ [Next]_vars => SoundInv'
<1> SUFFICES ASSUME SoundInv, [Next]_vars PROVE SoundInv'
  OBVIOUS
<1>1. ASSUME NEW l \in List, Fetch(l) PROVE SoundInv'
  BY <1>1 DEF Fetch, applyVars, SoundInv, OnlyTested, Passes
<1>2. CASE FetchFails
  BY <1>2 DEF FetchFails, applyVars, SoundInv, OnlyTested, Passes
<1>3. CASE Compare
  BY <1>3 DEF Compare, Exit, Goto, applyVars, SoundInv, OnlyTested, Passes
<1>4. CASE Store
  BY <1>4 DEF Store, Goto, applyVars, SoundInv, OnlyTested, Passes
<1>5. CASE Rewrite
  BY <1>5 DEF Rewrite, Goto, applyVars, SoundInv, OnlyTested, Passes
<1>6. ASSUME NEW ok \in BOOLEAN, Test(ok) PROVE SoundInv'
  BY <1>6 DEF Test, Exit, Goto, applyVars, SoundInv, OnlyTested, Passes
<1>7. CASE Unlink
  BY <1>7 DEF Unlink, Goto, applyVars, SoundInv, OnlyTested, Passes
<1>8. CASE CopyOver
  BY <1>8 DEF CopyOver, Exit, applyVars, SoundInv, OnlyTested, Passes
<1>9. CASE Save
  BY <1>9 DEF Save, scriptVars, SoundInv, OnlyTested, Passes
<1>10. ASSUME NEW v \in Version, SwapIn(v) PROVE SoundInv'
  <2>1. Passes(Rendered[v]) \/ Rendered[v] = Torn
    BY AntifilterAssumption DEF Passes
  <2> QED
    BY <1>10, <2>1 DEF SwapIn, scriptVars, SoundInv, OnlyTested, Passes
<1>11. CASE Undo
  BY <1>11 DEF Undo, scriptVars, SoundInv, OnlyTested, Passes
<1>12. CASE PowerCut
  BY <1>12 DEF PowerCut, Exit, SoundInv, OnlyTested, Passes
<1>13. CASE UNCHANGED vars
  BY <1>13 DEF vars, scriptVars, applyVars, SoundInv, OnlyTested, Passes
<1> QED
  BY <1>1, <1>2, <1>3, <1>4, <1>5, <1>6, <1>7, <1>8, <1>9, <1>10, <1>11, <1>12, <1>13
     DEF Next, Script

\* Whatever `xray -test` refuses is never moved into place: SoundInv says where
\* the file that is moved, and the one an undone apply restores, come from.
THEOREM OnlyTestedAlways == Spec => []OnlyTested
<1>1. SoundInv => OnlyTested
  BY DEF SoundInv
<1>. QED
  BY <1>1, InitSound, SoundInductive, PTL DEF Spec

\* At first no update is under way.
LEMMA InitKept == Init => KeptInv /\ OrderInv
BY DEF Init, KeptInv, OrderInv, Passes

\* An apply brings the rules it leaves behind; the others move what agrees with them.
LEMMA StepKept == TypeOK /\ SoundInv /\ KeptInv /\ [Next]_vars => KeptInv'
<1>. SUFFICES ASSUME TypeOK, SoundInv, KeptInv, [Next]_vars PROVE KeptInv'
  OBVIOUS
<1>1. ASSUME NEW l \in List, Fetch(l) PROVE KeptInv'
  BY <1>1 DEF Fetch, KeptInv, TypeOK
<1>2. CASE FetchFails
  BY <1>2 DEF FetchFails, applyVars, KeptInv
<1>3. CASE Compare
  BY <1>3 DEF Compare, Exit, Goto, applyVars, KeptInv
<1>4. CASE Store
  BY <1>4 DEF Store, Goto, applyVars, KeptInv
<1>5. CASE Rewrite
  <2>1. Passes(configTmp') => config # Torn /\ WithoutLists(configTmp') = WithoutLists(config)
    BY <1>5, RewriteFacts
  <2>. QED
    BY <1>5, <2>1 DEF Rewrite, Goto, applyVars, KeptInv
<1>6. ASSUME NEW ok \in BOOLEAN, Test(ok) PROVE KeptInv'
  BY <1>6 DEF Test, Exit, Goto, applyVars, KeptInv
<1>7. CASE Unlink
  BY <1>7 DEF Unlink, Goto, applyVars, KeptInv
<1>8. CASE CopyOver
  BY <1>8 DEF CopyOver, Exit, applyVars, KeptInv, SoundInv
<1>9. CASE Save
  BY <1>9 DEF Save, scriptVars, KeptInv, TypeOK
<1>10. ASSUME NEW v \in Version, SwapIn(v) PROVE KeptInv'
  BY <1>10 DEF SwapIn, scriptVars, KeptInv, TypeOK
<1>11. CASE Undo
  BY <1>11 DEF Undo, scriptVars, KeptInv
<1>12. CASE PowerCut
  BY <1>12 DEF PowerCut, Exit, KeptInv
<1>13. CASE UNCHANGED vars
  BY <1>13 DEF vars, scriptVars, applyVars, KeptInv
<1>. QED
  BY <1>1, <1>2, <1>3, <1>4, <1>5, <1>6, <1>7, <1>8, <1>9, <1>10, <1>11, <1>12, <1>13 DEF Next, Script

\* Any number of updates, applies and undone applies leave the rules last applied
\* in place and in their order, lists aside, unless an update ran beside an apply
\* (RulesKept): what the jq program makes of a config has the same rules
\* (RefreshFacts), and no step but SwapIn brings others (KeptInv).
THEOREM RulesKeptAlways == Spec => []RulesKept
<1>1. KeptInv => RulesKept
  BY DEF KeptInv, RulesKept
<1>. QED
  BY <1>1, InitTypes, StepTypes, InitSound, SoundInductive, InitKept, StepKept, PTL DEF Spec

\* The list is stored before the config is rewritten, and then left alone.
LEMMA StepOrder == TypeOK /\ OrderInv /\ [Next]_vars => OrderInv'
<1>. SUFFICES ASSUME TypeOK, OrderInv, [Next]_vars PROVE OrderInv'
  OBVIOUS
<1>1. ASSUME NEW l \in List, Fetch(l) PROVE OrderInv'
  BY <1>1 DEF Fetch, OrderInv
<1>2. CASE FetchFails
  BY <1>2 DEF FetchFails, OrderInv
<1>3. CASE Compare
  BY <1>3 DEF Compare, Exit, Goto, OrderInv
<1>4. CASE Store
  BY <1>4 DEF Store, Goto, OrderInv
<1>5. CASE Rewrite
  <2>1. Passes(configTmp') => Before(configTmp', list)
    BY <1>5, RewriteFacts
  <2>. QED
    BY <1>5, <2>1 DEF Rewrite, OrderInv
<1>6. ASSUME NEW ok \in BOOLEAN, Test(ok) PROVE OrderInv'
  BY <1>6 DEF Test, Exit, Goto, OrderInv
<1>7. CASE Unlink
  BY <1>7 DEF Unlink, Goto, OrderInv
<1>8. CASE CopyOver
  BY <1>8 DEF CopyOver, Exit, OrderInv
<1>9. CASE Save
  BY <1>9 DEF Save, scriptVars, OrderInv
<1>10. ASSUME NEW v \in Version, SwapIn(v) PROVE OrderInv'
  BY <1>10 DEF SwapIn, scriptVars, OrderInv
<1>11. CASE Undo
  BY <1>11 DEF Undo, scriptVars, OrderInv
<1>12. CASE PowerCut
  BY <1>12 DEF PowerCut, Exit, OrderInv
<1>13. CASE UNCHANGED vars
  BY <1>13 DEF vars, scriptVars, OrderInv
<1>. QED
  BY <1>1, <1>2, <1>3, <1>4, <1>5, <1>6, <1>7, <1>8, <1>9, <1>10, <1>11, <1>12, <1>13 DEF Next, Script

\* Only CopyOver reports an update.
LEMMA UpdatedOrder ==
    SoundInv /\ OrderInv /\ [Next]_vars /\ exit # "updated" /\ exit' = "updated" => Before(config', list')
<1>. SUFFICES ASSUME SoundInv, OrderInv, [Next]_vars, exit # "updated", exit' = "updated"
              PROVE  Before(config', list')
  OBVIOUS
<1>1. CASE CopyOver
  BY <1>1 DEF CopyOver, OrderInv, SoundInv
<1>2. CASE ~CopyOver
  BY <1>2 DEF Next, Script, Fetch, FetchFails, Compare, Store, Rewrite, Test, Unlink, Save, SwapIn,
              Undo, PowerCut, Exit, Goto, scriptVars, applyVars, vars
<1>. QED
  BY <1>1, <1>2

\* When a run reports an update, the list it has stored is right before the first
\* rule for geoip:ru, whatever ran beside it (ListBeforeGeoip).
THEOREM ListBeforeGeoipAlways == Spec => ListBeforeGeoip
<1>. DEFINE Step == exit # "updated" /\ exit' = "updated" => Before(config', list')
<1>1. SoundInv /\ OrderInv /\ [Next]_vars => [Step]_vars
  BY UpdatedOrder
<1>. QED
  BY <1>1, InitTypes, StepTypes, InitSound, SoundInductive, InitKept, StepOrder, PTL
     DEF Spec, ListBeforeGeoip
=============================================================================
