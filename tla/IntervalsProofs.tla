--------------------------- MODULE IntervalsProofs ---------------------------
(***************************************************************************)
(* Lists of ranges behave as sets of positions, for lists of any length and *)
(* any positions: the loops of intervals.go one turn at a time, then what   *)
(* whole calls do, then the machine.                                       *)
(***************************************************************************)
EXTENDS Intervals, FiniteSetTheorems, SequenceTheorems, WellFoundedInduction, TLAPS

-----------------------------------------------------------------------------
(* Induction, on sets of numbers.                                          *)

(* Every non-empty set of naturals has a least element.                    *)
LEMMA LeastElement ==
  ASSUME NEW T, T \subseteq Nat, T # {}
  PROVE  \E x \in T : \A y \in T : x <= y
<1> DEFINE R == OpToRel(<, Nat)
<1>1. IsWellFoundedOn(R, Nat)
  BY NatLessThanWellFounded, Zenon
<1>2. \A x, y \in Nat : y < x => << y, x >> \in R
  BY Zenon DEF OpToRel
<1> HIDE DEF R
<1>3. PICK x \in T : \A y \in T : ~ (<< y, x >> \in R)
  BY <1>1, WFMin, Zenon
<1>4. \A y \in T : ~ (y < x)
  BY <1>2, <1>3, Zenon
<1> QED BY <1>4

(* Induction over 0..N, on the set T of the numbers it holds for.          *)
LEMMA UpTo ==
  ASSUME NEW N \in Nat, NEW T, 0 \in T,
         \A k \in 0 .. (N - 1) : k \in T => k + 1 \in T
  PROVE  \A k \in 0 .. N : k \in T
<1> DEFINE Bad == { k \in 0 .. N : k \notin T }
<1> SUFFICES ASSUME Bad # {} PROVE FALSE
  OBVIOUS
<1>1. Bad \subseteq Nat
  OBVIOUS
<1>2. PICK x \in Bad : \A y \in Bad : x <= y
  <2> HIDE DEF Bad
  <2> QED BY <1>1, LeastElement
<1>3. x # 0 /\ x - 1 \in 0 .. (N - 1)
  OBVIOUS
<1>4. x - 1 \notin Bad
  BY <1>2
<1> QED BY <1>3, <1>4

(* A loop over 1..n that starts from base, as a recursive function.        *)
RunsThrough(f, n, base, step) ==
  f[0] = base /\ \A k \in 1 .. n : f[k] = step[k][f[k-1]]

(* A loop over a total step has a run.                                     *)
LEMMA LoopExists ==
  ASSUME NEW N \in Nat, NEW S, NEW base \in S, NEW step \in [1 .. N -> [S -> S]]
  PROVE  \E f \in [0 .. N -> S] : RunsThrough(f, N, base, step)
<1> DEFINE IsRun(n, f) == f[0] = base /\ \A k \in 1 .. n : f[k] = step[k][f[k-1]]
<1> DEFINE T == { n \in 0 .. N : \E f \in [0 .. n -> S] : IsRun(n, f) }
<1>1. 0 \in T
  <2> DEFINE f == [k \in {0} |-> base]
  <2>1. f \in [0 .. 0 -> S] /\ IsRun(0, f)
    OBVIOUS
  <2>2. \E g \in [0 .. 0 -> S] : IsRun(0, g)
    BY <2>1
  <2> QED BY <2>2
<1>2. ASSUME NEW n \in 0 .. (N - 1), n \in T PROVE n + 1 \in T
  <2>1. PICK f \in [0 .. n -> S] : IsRun(n, f)
    BY <1>2
  <2> DEFINE g == [k \in 0 .. (n + 1) |-> IF k <= n THEN f[k] ELSE step[n+1][f[n]]]
  <2>2. step[n+1] \in [S -> S] /\ f[n] \in S
    OBVIOUS
  <2>3. g \in [0 .. (n + 1) -> S]
    BY <2>2
  <2>4. \A k \in 0 .. n : g[k] = f[k]
    OBVIOUS
  <2>5. g[n+1] = step[n+1][g[n]]
    OBVIOUS
  <2> HIDE DEF g
  <2>6. ASSUME NEW k \in 1 .. (n + 1) PROVE g[k] = step[k][g[k-1]]
    <3>1. CASE k = n + 1
      BY <2>5, <3>1
    <3>2. CASE k \in 1 .. n
      <4>1. k - 1 \in 0 .. n /\ k \in 0 .. n
        BY <3>2
      <4> QED BY <2>1, <2>4, <3>2, <4>1
    <3> QED BY <3>1, <3>2
  <2>7. IsRun(n + 1, g)
    BY <2>6, <2>1, <2>4
  <2>8. \E h \in [0 .. (n + 1) -> S] : IsRun(n + 1, h)
    BY <2>3, <2>7
  <2> HIDE DEF IsRun
  <2> QED BY <2>8
<1>3. \A n \in 0 .. N : n \in T
  <2>1. \A n \in 0 .. (N - 1) : n \in T => n + 1 \in T
    BY <1>2
  <2> HIDE DEF T
  <2> QED BY <1>1, <2>1, UpTo
<1> QED BY <1>3 DEF RunsThrough

-----------------------------------------------------------------------------
(* Lists.                                                                  *)

Ends == [Start : Int, End : Int]

\* The range i has position x.
In(x, i) == i.Start <= x /\ x < i.End

Norm(is) == is \in Seq(Ends) /\ NormalizedList(is)

(* A pair of ends.                                                         *)
LEMMA IntervalIs ==
  ASSUME NEW s \in Int, NEW e \in Int
  PROVE  /\ Interval(s, e) \in Ends
         /\ Interval(s, e).Start = s /\ Interval(s, e).End = e
BY DEF Interval, Ends

(* Covered, by membership.                                                 *)
LEMMA CoveredIs ==
  ASSUME NEW is \in Seq(Ends)
  PROVE  /\ Covered(is) \subseteq Int
         /\ \A x \in Int : x \in Covered(is) <=> \E k \in 1 .. Len(is) : In(x, is[k])
<1>1. ASSUME NEW k \in 1 .. Len(is) PROVE is[k].Start \in Int /\ is[k].End \in Int
  <2>1. is[k] \in Ends
    BY ElementOfSeq
  <2> QED BY <2>1 DEF Ends
<1>2. DOMAIN is = 1 .. Len(is)
  BY LenProperties
<1>3. \A k \in 1 .. Len(is) : \A x : x \in is[k].Start .. (is[k].End - 1) <=> x \in Int /\ In(x, is[k])
  BY <1>1 DEF In
<1> QED BY <1>2, <1>3 DEF Covered

(* Lists of the same positions, said with one quantifier.                  *)
LEMMA CoveredEqual ==
  ASSUME NEW S, NEW T, S \subseteq Int, T \subseteq Int, \A x \in Int : x \in S <=> x \in T
  PROVE  S = T
OBVIOUS

LEMMA EmptyIsNorm == Norm(<< >>) /\ Covered(<< >>) = {}
<1>1. << >> \in Seq(Ends) /\ Len(<< >>) = 0 /\ DOMAIN << >> = {}
  BY EmptySeq
<1> QED BY <1>1 DEF Norm, NormalizedList, Covered

(* Two lists, one behind the other with a gap between.                     *)
LEMMA ConcatIsNorm ==
  ASSUME NEW a, NEW b, Norm(a), Norm(b),
         \A j \in 1 .. Len(a), k \in 1 .. Len(b) : a[j].End < b[k].Start
  PROVE  /\ Norm(a \o b)
         /\ Covered(a \o b) = Covered(a) \union Covered(b)
<1> DEFINE m == Len(a)
           n == Len(b)
           c == a \o b
<1>1. /\ a \in Seq(Ends) /\ m \in Nat /\ DOMAIN a = 1 .. m
      /\ b \in Seq(Ends) /\ n \in Nat /\ DOMAIN b = 1 .. n
  BY LenProperties DEF Norm
<1>2. /\ c \in Seq(Ends) /\ Len(c) = m + n /\ DOMAIN c = 1 .. m + n
      /\ \A i \in 1 .. m + n : c[i] = IF i <= m THEN a[i] ELSE b[i - m]
  BY <1>1, ConcatProperties, LenProperties
<1> HIDE DEF m, n, c
<1>3. \A i \in 1 .. m + n : \/ i \in 1 .. m /\ c[i] = a[i]
                            \/ i > m /\ i - m \in 1 .. n /\ c[i] = b[i - m]
  BY <1>1, <1>2
<1>4. NormalizedList(c)
  <2>1. ASSUME NEW k \in 1 .. m + n PROVE c[k].Start < c[k].End
    BY <1>1, <1>3 DEF Norm, NormalizedList
  <2>2. ASSUME NEW j \in 1 .. m + n, NEW k \in 1 .. m + n, j < k PROVE c[j].End < c[k].Start
    <3>1. CASE k \in 1 .. m /\ c[k] = a[k]
      <4>1. j \in 1 .. m /\ c[j] = a[j]
        BY <1>1, <1>3, <2>2, <3>1
      <4> QED BY <1>1, <2>2, <3>1, <4>1 DEF Norm, NormalizedList
    <3>2. CASE k > m /\ k - m \in 1 .. n /\ c[k] = b[k - m]
      <4>1. CASE j \in 1 .. m /\ c[j] = a[j]
        BY <3>2, <4>1 DEF m, n
      <4>2. CASE j > m /\ j - m \in 1 .. n /\ c[j] = b[j - m]
        <5>1. j - m < k - m
          BY <1>1, <2>2
        <5> QED BY <1>1, <3>2, <4>2, <5>1 DEF Norm, NormalizedList
      <4> QED BY <1>3, <4>1, <4>2
    <3> QED BY <1>3, <3>1, <3>2
  <2> QED BY <1>2, <2>1, <2>2 DEF NormalizedList
<1>5. Covered(c) = Covered(a) \union Covered(b)
  <2>1. ASSUME NEW x \in Int
        PROVE  x \in Covered(c) <=> x \in Covered(a) \union Covered(b)
    <3>1. ASSUME NEW k \in 1 .. m + n, In(x, c[k])
          PROVE  x \in Covered(a) \union Covered(b)
      BY <1>1, <1>3, <3>1, CoveredIs DEF m, n
    <3>2. ASSUME NEW k \in 1 .. m, In(x, a[k]) PROVE \E i \in 1 .. m + n : In(x, c[i])
      <4>1. k \in 1 .. m + n /\ c[k] = a[k]
        BY <1>1, <1>2
      <4> QED BY <3>2, <4>1
    <3>3. ASSUME NEW k \in 1 .. n, In(x, b[k]) PROVE \E i \in 1 .. m + n : In(x, c[i])
      <4>1. k + m \in 1 .. m + n /\ c[k + m] = b[k]
        BY <1>1, <1>2
      <4> QED BY <3>3, <4>1
    <3>4. /\ x \in Covered(c) <=> \E k \in 1 .. m + n : In(x, c[k])
          /\ x \in Covered(a) <=> \E k \in 1 .. m : In(x, a[k])
          /\ x \in Covered(b) <=> \E k \in 1 .. n : In(x, b[k])
      BY <1>1, <1>2, CoveredIs DEF m, n
    <3> QED BY <3>1, <3>2, <3>3, <3>4
  <2> QED BY <1>1, <1>2, <2>1, CoveredIs, CoveredEqual
<1> QED BY <1>2, <1>4, <1>5 DEF Norm, c

(* The ends of a range of a list.                                          *)
LEMMA ElementEnds ==
  ASSUME NEW is \in Seq(Ends), NEW k \in 1 .. Len(is)
  PROVE  is[k] \in Ends /\ is[k].Start \in Int /\ is[k].End \in Int
<1>1. is[k] \in Ends
  BY ElementOfSeq
<1> QED BY <1>1 DEF Ends

(* A list of one or two ranges.                                            *)
LEMMA OneRange ==
  ASSUME NEW a \in Int, NEW b \in Int, a < b
  PROVE  /\ Norm(<< Interval(a, b) >>) /\ Covered(<< Interval(a, b) >>) = a .. (b - 1)
         /\ Len(<< Interval(a, b) >>) = 1 /\ << Interval(a, b) >>[1] = Interval(a, b)
<1> DEFINE i == Interval(a, b)
           l == << i >>
<1>1. i \in Ends /\ i.Start = a /\ i.End = b
  BY IntervalIs
<1> HIDE DEF i
<1>2. l \in Seq(Ends) /\ Len(l) = 1 /\ l[1] = i /\ DOMAIN l = 1 .. 1
  BY <1>1
<1> HIDE DEF l
<1>3. NormalizedList(l)
  BY <1>1, <1>2 DEF NormalizedList
<1>4. \A x \in Int : x \in Covered(l) <=> x \in a .. (b - 1)
  BY <1>1, <1>2, CoveredIs DEF In
<1>5. Covered(l) = a .. (b - 1)
  <2>1. a .. (b - 1) \subseteq Int /\ Covered(l) \subseteq Int
    BY <1>2, CoveredIs
  <2> QED BY <1>4, <2>1, CoveredEqual
<1> QED BY <1>2, <1>3, <1>5 DEF Norm, l, i

LEMMA TwoRanges ==
  ASSUME NEW a \in Int, NEW b \in Int, NEW c \in Int, NEW d \in Int, a < b, b < c, c < d
  PROVE  LET l == << Interval(a, b), Interval(c, d) >> IN
         /\ Norm(l) /\ Covered(l) = (a .. (b - 1)) \union (c .. (d - 1))
         /\ Len(l) = 2 /\ l[1] = Interval(a, b) /\ l[2] = Interval(c, d)
<1> DEFINE i == Interval(a, b)
           j == Interval(c, d)
           l == << i, j >>
<1>1. /\ i \in Ends /\ i.Start = a /\ i.End = b
      /\ j \in Ends /\ j.Start = c /\ j.End = d
  BY IntervalIs
<1> HIDE DEF i, j
<1>2. l \in Seq(Ends) /\ Len(l) = 2 /\ l[1] = i /\ l[2] = j /\ DOMAIN l = 1 .. 2
  BY <1>1
<1> HIDE DEF l
<1>3. NormalizedList(l)
  BY <1>1, <1>2 DEF NormalizedList
<1>4. ASSUME NEW x \in Int
      PROVE  x \in Covered(l) <=> x \in (a .. (b - 1)) \union (c .. (d - 1))
  <2>1. x \in Covered(l) <=> \E k \in 1 .. 2 : In(x, l[k])
    BY <1>2, CoveredIs
  <2>2. x \in Covered(l) <=> In(x, i) \/ In(x, j)
    BY <1>2, <2>1
  <2> QED BY <1>1, <2>2 DEF In
<1>5. Covered(l) = (a .. (b - 1)) \union (c .. (d - 1))
  BY <1>2, <1>4, CoveredIs
<1> QED BY <1>2, <1>3, <1>5 DEF Norm, l, i, j

-----------------------------------------------------------------------------
(* Remove.                                                                 *)

(* What is left of one range is what should be, and lies within it.        *)
LEMMA CutIs ==
  ASSUME NEW i \in Ends, i.Start < i.End, NEW s \in Int, NEW e \in Int, s < e
  PROVE  /\ Norm(Cut(i, s, e))
         /\ \A x \in Int : x \in Covered(Cut(i, s, e)) <=> In(x, i) /\ ~ (s <= x /\ x < e)
         /\ \A k \in 1 .. Len(Cut(i, s, e)) :
              i.Start <= Cut(i, s, e)[k].Start /\ Cut(i, s, e)[k].End <= i.End
<1>1. i.Start \in Int /\ i.End \in Int
  BY DEF Ends
<1>2. CASE s <= i.Start /\ i.End <= e
  <2>1. Cut(i, s, e) = << >>
    BY <1>2 DEF Cut
  <2>2. Len(<< >>) = 0
    OBVIOUS
  <2> QED BY <1>1, <1>2, <2>1, <2>2, EmptyIsNorm DEF In
<1>3. CASE i.Start < s /\ e < i.End
  <2> DEFINE l == << Interval(i.Start, s), Interval(e, i.End) >>
  <2>1. Cut(i, s, e) = l
    BY <1>1, <1>3 DEF Cut
  <2>2. /\ Norm(l) /\ Covered(l) = (i.Start .. (s - 1)) \union (e .. (i.End - 1))
        /\ Len(l) = 2 /\ l[1] = Interval(i.Start, s) /\ l[2] = Interval(e, i.End)
    BY <1>1, <1>3, TwoRanges
  <2>3. /\ l[1].Start = i.Start /\ l[1].End = s
        /\ l[2].Start = e /\ l[2].End = i.End
    BY <1>1, <2>2, IntervalIs
  <2> HIDE DEF l
  <2>4. \A x \in Int : x \in Covered(l) <=> In(x, i) /\ ~ (s <= x /\ x < e)
    BY <1>1, <1>3, <2>2 DEF In
  <2>5. \A k \in 1 .. Len(l) : k = 1 \/ k = 2
    BY <2>2
  <2>6. \A k \in 1 .. Len(l) : i.Start <= l[k].Start /\ l[k].End <= i.End
    BY <1>1, <1>3, <2>3, <2>5
  <2> QED BY <2>1, <2>2, <2>4, <2>6
<1>4. CASE ~ (s <= i.Start /\ i.End <= e) /\ ~ (i.Start < s /\ e < i.End)
  <2> DEFINE a == IF s <= i.Start /\ i.Start < e THEN e ELSE i.Start
             b == IF s < i.End /\ i.End <= e THEN s ELSE i.End
             l == << Interval(a, b) >>
  <2>1. Cut(i, s, e) = l
    BY <1>4 DEF Cut
  <2>2. /\ a \in Int /\ b \in Int /\ a < b /\ i.Start <= a /\ b <= i.End
        /\ \A x \in Int : a <= x /\ x < b <=> In(x, i) /\ ~ (s <= x /\ x < e)
    BY <1>1, <1>4 DEF In
  <2> HIDE DEF a, b
  <2>3. /\ Norm(l) /\ Covered(l) = a .. (b - 1)
        /\ Len(l) = 1 /\ l[1] = Interval(a, b)
    BY <2>2, OneRange
  <2>4. l[1].Start = a /\ l[1].End = b
    BY <2>2, <2>3, IntervalIs
  <2> HIDE DEF l
  <2>5. \A x \in Int : x \in Covered(l) <=> In(x, i) /\ ~ (s <= x /\ x < e)
    BY <2>2, <2>3
  <2>6. \A k \in 1 .. Len(l) : k = 1
    BY <2>3
  <2>7. \A k \in 1 .. Len(l) : i.Start <= l[k].Start /\ l[k].End <= i.End
    BY <2>2, <2>4, <2>6
  <2> QED BY <2>1, <2>3, <2>5, <2>7
<1> QED BY <1>2, <1>3, <1>4

\* What the loop of Remove makes of the first k ranges.
RestIs(l, is, s, e, k) ==
  /\ Norm(l)
  /\ \A x \in Int : x \in Covered(l) <=> /\ \E j \in 1 .. k : In(x, is[j])
                                         /\ ~ (s <= x /\ x < e)
  /\ \A m \in 1 .. Len(l) : \E j \in 1 .. k : is[j].Start <= l[m].Start /\ l[m].End <= is[j].End

(* The loop of Remove, turn by turn.                                       *)
LEMMA RemovedRuns ==
  ASSUME NEW is, Norm(is), NEW s \in Int, NEW e \in Int, s < e
  PROVE  \E left : /\ left[0] = << >>
                   /\ \A k \in 1 .. Len(is) : left[k] = left[k-1] \o Cut(is[k], s, e)
                   /\ Removed(is, s, e) = left[Len(is)]
<1> DEFINE n == Len(is)
           Turn(l, k) == l \o Cut(is[k], s, e)
           P(f) == f = [k \in 0 .. n |-> IF k = 0 THEN << >> ELSE Turn(f[k-1], k)]
           step == [k \in 1 .. n |-> [l \in Seq(Ends) |-> Turn(l, k)]]
<1>1. n \in Nat /\ is \in Seq(Ends) /\ DOMAIN is = 1 .. n
  BY LenProperties DEF Norm
<1>2. ASSUME NEW k \in 1 .. n, NEW l \in Seq(Ends) PROVE Turn(l, k) \in Seq(Ends)
  <2>1. is[k] \in Ends /\ is[k].Start < is[k].End
    BY <1>1, ElementEnds DEF Norm, NormalizedList
  <2>2. Cut(is[k], s, e) \in Seq(Ends)
    BY <2>1, CutIs DEF Norm
  <2> QED BY <2>2, ConcatProperties
<1>3. Removed(is, s, e) = (CHOOSE f : P(f))[n]
  BY DEF Removed
<1> HIDE DEF n, Turn
<1>4. step \in [1 .. n -> [Seq(Ends) -> Seq(Ends)]]
  BY <1>2
<1>5. \A k \in 1 .. n, l \in Seq(Ends) : step[k][l] = Turn(l, k)
  OBVIOUS
<1> HIDE DEF step
<1>6. PICK g \in [0 .. n -> Seq(Ends)] : RunsThrough(g, n, << >>, step)
  BY <1>1, <1>4, LoopExists, EmptySeq
<1>7. P(g)
  <2>1. \A k \in 1 .. n : k - 1 \in 0 .. n
    BY <1>1
  <2>2. \A k \in 1 .. n : g[k] = Turn(g[k-1], k)
    BY <1>5, <1>6, <2>1 DEF RunsThrough
  <2>3. \A k \in 0 .. n : g[k] = IF k = 0 THEN << >> ELSE Turn(g[k-1], k)
    BY <1>1, <1>6, <2>2 DEF RunsThrough
  <2> QED BY <2>3
<1>8. PICK f : P(f) /\ Removed(is, s, e) = f[n]
  <2> HIDE DEF P
  <2> QED BY <1>3, <1>7
<1>9. f[0] = << >> /\ \A k \in 1 .. n : f[k] = Turn(f[k-1], k)
  BY <1>1, <1>8
<1> QED BY <1>8, <1>9 DEF n, Turn

(* One turn of that loop: the k-th range is behind what is left of those    *)
(* before it.                                                              *)
LEMMA RestGrows ==
  ASSUME NEW is, Norm(is), NEW s \in Int, NEW e \in Int, s < e,
         NEW k \in 1 .. Len(is), NEW l, RestIs(l, is, s, e, k - 1)
  PROVE  RestIs(l \o Cut(is[k], s, e), is, s, e, k)
<1> DEFINE i == is[k]
           c == Cut(i, s, e)
           new == l \o c
<1>1. /\ is \in Seq(Ends) /\ Len(is) \in Nat /\ DOMAIN is = 1 .. Len(is)
      /\ l \in Seq(Ends) /\ Len(l) \in Nat /\ Norm(l)
  BY LenProperties DEF Norm, RestIs
<1>2. i \in Ends /\ i.Start \in Int /\ i.End \in Int /\ i.Start < i.End
  BY <1>1, ElementEnds DEF Norm, NormalizedList
<1>3. /\ Norm(c)
      /\ \A x \in Int : x \in Covered(c) <=> In(x, i) /\ ~ (s <= x /\ x < e)
      /\ \A m \in 1 .. Len(c) : i.Start <= c[m].Start /\ c[m].End <= i.End
  BY <1>2, CutIs
<1> HIDE DEF c
<1>4. c \in Seq(Ends) /\ Len(c) \in Nat
  BY <1>3, LenProperties DEF Norm
<1>5. ASSUME NEW m \in 1 .. Len(l), NEW h \in 1 .. Len(c) PROVE l[m].End < c[h].Start
  <2>1. PICK j \in 1 .. (k - 1) : l[m].End <= is[j].End
    BY DEF RestIs
  <2>2. j \in 1 .. Len(is) /\ j < k
    BY <1>1
  <2>3. is[j].End < i.Start
    BY <1>1, <2>2 DEF Norm, NormalizedList
  <2>4. l[m].End \in Int /\ is[j].End \in Int /\ c[h].Start \in Int
    BY <1>1, <1>4, <2>2, ElementEnds
  <2>5. i.Start <= c[h].Start
    BY <1>3
  <2>6. \A a, b, d, f \in Int : a <= b /\ b < d /\ d <= f => a < f
    OBVIOUS
  <2> QED BY <1>2, <2>1, <2>3, <2>4, <2>5, <2>6, Zenon
<1>6. Norm(new) /\ Covered(new) = Covered(l) \union Covered(c)
  BY <1>1, <1>3, <1>5, ConcatIsNorm
<1>7. \A j : j \in 1 .. k <=> j \in 1 .. (k - 1) \/ j = k
  BY <1>1
<1>8. ASSUME NEW x \in Int
      PROVE  x \in Covered(new) <=> /\ \E j \in 1 .. k : In(x, is[j])
                                    /\ ~ (s <= x /\ x < e)
  <2>1. x \in Covered(l) <=> /\ \E j \in 1 .. (k - 1) : In(x, is[j])
                             /\ ~ (s <= x /\ x < e)
    BY DEF RestIs
  <2> HIDE DEF new
  <2> QED BY <1>3, <1>6, <1>7, <2>1
<1>9. ASSUME NEW m \in 1 .. Len(new)
      PROVE  \E j \in 1 .. k : is[j].Start <= new[m].Start /\ new[m].End <= is[j].End
  <2>1. Len(new) = Len(l) + Len(c) /\ new[m] = IF m <= Len(l) THEN l[m] ELSE c[m - Len(l)]
    BY <1>1, <1>4, ConcatProperties
  <2> HIDE DEF new
  <2>2. CASE m <= Len(l)
    <3>1. m \in 1 .. Len(l) /\ new[m] = l[m]
      BY <1>1, <1>4, <2>1, <2>2
    <3> QED BY <1>7, <3>1 DEF RestIs
  <2>3. CASE ~ (m <= Len(l))
    <3>1. m - Len(l) \in 1 .. Len(c) /\ new[m] = c[m - Len(l)]
      BY <1>1, <1>4, <2>1, <2>3
    <3>2. i.Start <= new[m].Start /\ new[m].End <= i.End
      BY <1>3, <3>1
    <3> QED BY <1>7, <3>2
  <2> QED BY <2>2, <2>3
<1> QED BY <1>6, <1>8, <1>9 DEF RestIs, c

(* What Remove does: nothing but these positions goes.                     *)
LEMMA RemovedIs ==
  ASSUME NEW is, Norm(is), NEW s \in Int, NEW e \in Int, s <= e
  PROVE  /\ Norm(Removed(is, s, e))
         /\ Covered(Removed(is, s, e)) = Covered(is) \ (s .. (e - 1))
<1> DEFINE n == Len(is)
<1>1. is \in Seq(Ends) /\ n \in Nat
  BY LenProperties DEF Norm
<1>2. CASE s = e
  <2>1. Removed(is, s, e) = is /\ s .. (e - 1) = {}
    BY <1>2 DEF Removed
  <2> QED BY <2>1
<1>3. CASE s < e
  <2>1. PICK left : /\ left[0] = << >>
                    /\ \A k \in 1 .. n : left[k] = left[k-1] \o Cut(is[k], s, e)
                    /\ Removed(is, s, e) = left[n]
    BY <1>3, RemovedRuns
  <2> DEFINE T == { k \in 0 .. n : RestIs(left[k], is, s, e, k) }
  <2>2. 0 \in T
    <3>1. \A j : j \notin 1 .. 0
      OBVIOUS
    <3>2. Len(<< >>) = 0
      OBVIOUS
    <3> QED BY <1>1, <2>1, <3>1, <3>2, EmptyIsNorm DEF RestIs
  <2>3. ASSUME NEW k \in 0 .. (n - 1), k \in T PROVE k + 1 \in T
    <3>1. k + 1 \in 1 .. n /\ (k + 1) - 1 = k /\ k + 1 \in 0 .. n
      BY <1>1
    <3>2. RestIs(left[k], is, s, e, (k + 1) - 1)
      BY <2>3, <3>1
    <3>3. RestIs(left[k] \o Cut(is[k + 1], s, e), is, s, e, k + 1)
      BY <1>3, <3>1, <3>2, RestGrows
    <3> QED BY <2>1, <3>1, <3>3
  <2>4. n \in T
    <3> HIDE DEF T, n
    <3>1. \A k \in 0 .. n : k \in T
      BY <1>1, <2>2, <2>3, UpTo
    <3> QED BY <1>1, <3>1
  <2>5. RestIs(Removed(is, s, e), is, s, e, n)
    BY <2>1, <2>4
  <2>6. Norm(Removed(is, s, e)) /\ Removed(is, s, e) \in Seq(Ends)
    BY <2>5 DEF RestIs, Norm
  <2>7. \A x \in Int : x \in Covered(Removed(is, s, e)) <=> x \in Covered(is) \ (s .. (e - 1))
    BY <1>1, <2>5, CoveredIs DEF RestIs
  <2>8. Covered(Removed(is, s, e)) \subseteq Int /\ Covered(is) \ (s .. (e - 1)) \subseteq Int
    BY <1>1, <2>6, CoveredIs
  <2>9. Covered(Removed(is, s, e)) = Covered(is) \ (s .. (e - 1))
    BY <2>7, <2>8, CoveredEqual
  <2> QED BY <2>6, <2>9
<1> QED BY <1>2, <1>3

-----------------------------------------------------------------------------
(* Add.                                                                    *)

(* Sorting ranges of which no two start together.                          *)
LEMMA SortedIs ==
  ASSUME NEW is \in Seq(Ends),
         \A j, k \in 1 .. Len(is) : j # k => is[j].Start # is[k].Start
  PROVE  /\ Sorted(is) \in Seq(Ends) /\ Len(Sorted(is)) = Len(is)
         /\ \A j, k \in 1 .. Len(is) : j < k => Sorted(is)[j].Start < Sorted(is)[k].Start
         /\ \A k \in 1 .. Len(is) : \E j \in 1 .. Len(is) : Sorted(is)[k] = is[j]
         /\ \A j \in 1 .. Len(is) : \E k \in 1 .. Len(is) : Sorted(is)[k] = is[j]
<1> DEFINE n == Len(is)
           all == { is[k] : k \in 1 .. n }
           Before(i) == { j \in all : j.Start < i.Start }
           js == [k \in 1 .. n |-> CHOOSE i \in all : Cardinality(Before(i)) = k - 1]
           f == [k \in 1 .. n |-> is[k]]
           rank == [i \in all |-> Cardinality(Before(i)) + 1]
<1>1. n \in Nat /\ DOMAIN is = 1 .. n
  BY LenProperties
<1>2. Sorted(is) = js
  BY <1>1 DEF Sorted
<1>3. \A i \in all : i \in Ends /\ i.Start \in Int
  BY ElementEnds
<1>4. \A i, j \in all : i # j => i.Start # j.Start
  OBVIOUS
<1>5. IsFiniteSet(all) /\ Cardinality(all) = n
  <2>1. f \in Bijection(1 .. n, all)
    <3>1. f \in [1 .. n -> all]
      OBVIOUS
    <3>2. \A j, k \in 1 .. n : f[j] = f[k] => j = k
      OBVIOUS
    <3>3. \A i \in all : \E k \in 1 .. n : f[k] = i
      OBVIOUS
    <3> HIDE DEF f, all
    <3> QED BY <3>1, <3>2, <3>3 DEF Bijection, Injection, Surjection, IsInjective
  <2>2. IsFiniteSet(1 .. n) /\ Cardinality(1 .. n) = n
    BY <1>1, FS_Interval
  <2> HIDE DEF f, all, n
  <2> QED BY <2>1, <2>2, FS_Bijection DEF ExistsBijection
<1> HIDE DEF all, f, js
<1>6. ASSUME NEW i \in all
      PROVE  /\ IsFiniteSet(Before(i)) /\ Cardinality(Before(i)) \in Nat
             /\ Cardinality(Before(i)) < n
  <2>1. Before(i) \subseteq all /\ i \notin Before(i)
    BY <1>3
  <2>2. Before(i) # all
    BY <2>1
  <2> HIDE DEF Before, n
  <2>3. IsFiniteSet(Before(i)) /\ Cardinality(Before(i)) <= n /\ Cardinality(Before(i)) # n
    BY <1>5, <2>1, <2>2, FS_Subset
  <2>4. Cardinality(Before(i)) \in Nat
    BY <2>3, FS_CardinalityType
  <2> QED BY <1>1, <2>3, <2>4
<1>7. ASSUME NEW i \in all, NEW j \in all, i.Start < j.Start
      PROVE  Cardinality(Before(i)) < Cardinality(Before(j))
  <2>1. Before(i) \subseteq Before(j) /\ i \in Before(j) /\ i \notin Before(i)
    BY <1>3, <1>7
  <2> HIDE DEF Before, n
  <2>2. Before(i) # Before(j)
    BY <2>1
  <2>3. Cardinality(Before(i)) <= Cardinality(Before(j)) /\ Cardinality(Before(i)) # Cardinality(Before(j))
    BY <1>6, <2>1, <2>2, FS_Subset
  <2> QED BY <1>6, <2>3
<1> HIDE DEF Before
<1>8. rank \in [all -> 1 .. n] /\ \A i \in all : rank[i] = Cardinality(Before(i)) + 1
  BY <1>1, <1>6
<1> HIDE DEF rank
<1>9. \A i, j \in all : rank[i] = rank[j] => i = j
  <2> SUFFICES ASSUME NEW i \in all, NEW j \in all, i # j PROVE rank[i] # rank[j]
    OBVIOUS
  <2>1. i.Start < j.Start \/ j.Start < i.Start
    BY <1>3, <1>4
  <2> QED BY <1>6, <1>7, <1>8, <2>1
<1>10. \A k \in 1 .. n : \E i \in all : rank[i] = k
  <2>1. rank \in Injection(all, 1 .. n)
    BY <1>8, <1>9 DEF Injection, IsInjective
  <2>2. IsFiniteSet(1 .. n) /\ Cardinality(1 .. n) = n
    BY <1>1, FS_Interval
  <2>3. rank \in Surjection(all, 1 .. n)
    <3> HIDE DEF n
    <3> QED BY <1>5, <2>1, <2>2, FS_Injection
  <2> QED BY <2>3 DEF Surjection
<1>11. ASSUME NEW k \in 1 .. n PROVE js[k] \in all /\ rank[js[k]] = k
  <2>1. PICK i \in all : rank[i] = k
    BY <1>10
  <2>2. Cardinality(Before(i)) = k - 1
    BY <1>1, <1>6, <1>8, <2>1
  <2>3. js[k] \in all /\ Cardinality(Before(js[k])) = k - 1
    BY <2>2 DEF js
  <2> QED BY <1>1, <1>8, <2>3
<1>12. js \in Seq(Ends) /\ Len(js) = n
  <2>1. js = [k \in 1 .. n |-> js[k]]
    BY DEF js
  <2> QED BY <1>1, <1>3, <1>11, <2>1
<1>13. ASSUME NEW j \in 1 .. n, NEW k \in 1 .. n, j < k PROVE js[j].Start < js[k].Start
  <2> SUFFICES ASSUME ~ (js[j].Start < js[k].Start) PROVE FALSE
    OBVIOUS
  <2>1. js[j] \in all /\ js[k] \in all /\ rank[js[j]] = j /\ rank[js[k]] = k
    BY <1>11
  <2>2. js[j] # js[k]
    BY <1>13, <2>1
  <2>3. js[k].Start < js[j].Start
    BY <1>3, <1>4, <2>1, <2>2
  <2>4. rank[js[k]] < rank[js[j]]
    BY <1>6, <1>7, <1>8, <2>1, <2>3
  <2> QED BY <1>13, <2>1, <2>4
<1>14. \A k \in 1 .. n : \E j \in 1 .. n : js[k] = is[j]
  BY <1>11 DEF all
<1>15. ASSUME NEW j \in 1 .. n PROVE \E k \in 1 .. n : js[k] = is[j]
  <2>1. is[j] \in all
    BY DEF all
  <2>2. rank[is[j]] \in 1 .. n
    BY <1>8, <2>1
  <2> QED BY <1>9, <1>11, <2>1, <2>2
<1> QED BY <1>2, <1>12, <1>13, <1>14, <1>15

(* A range that is not before the last one of a list joins it or follows.  *)
LEMMA JoinIs ==
  ASSUME NEW l, Norm(l), NEW i \in Ends, i.Start < i.End,
         l # << >> => Last(l).End <= i.Start
  PROVE  /\ Norm(Join(l, i))
         /\ \A x \in Int : x \in Covered(Join(l, i)) <=> x \in Covered(l) \/ In(x, i)
         /\ Join(l, i) # << >> /\ Last(Join(l, i)).End = i.End
<1> DEFINE n == Len(l)
<1>1. l \in Seq(Ends) /\ n \in Nat /\ DOMAIN l = 1 .. n
  BY LenProperties DEF Norm
<1>2. i = Interval(i.Start, i.End) /\ i.Start \in Int /\ i.End \in Int
  BY DEF Ends, Interval
<1>3. CASE l # << >> /\ Last(l).End = i.Start
  <2> DEFINE last == l[n]
             longer == Interval(last.Start, i.End)
             new == [l EXCEPT ![n] = longer]
  <2>1. n \in 1 .. n /\ Last(l) = last
    BY <1>1, <1>3, EmptySeq DEF Last
  <2>2. last.Start \in Int /\ last.End \in Int /\ last.Start < last.End /\ last.End = i.Start
    BY <1>1, <1>3, <2>1, ElementEnds DEF Norm, NormalizedList
  <2>3. longer \in Ends /\ longer.Start = last.Start /\ longer.End = i.End
    BY <1>2, <2>2, IntervalIs
  <2>4. Join(l, i) = new
    BY <1>3, <2>1 DEF Join
  <2> HIDE DEF longer
  <2>5. /\ new \in Seq(Ends) /\ Len(new) = n
        /\ \A j \in 1 .. n : new[j] = IF j = n THEN longer ELSE l[j]
    <3> HIDE DEF last
    <3> QED BY <1>1, <2>1, <2>3, ExceptSeq
  <2>6. DOMAIN new = 1 .. n
    BY <2>5, LenProperties
  <2> HIDE DEF new
  <2>7. \A j \in 1 .. n : new[j].Start = l[j].Start /\ (j # n => new[j].End = l[j].End)
    BY <2>3, <2>5
  <2>8. new[n].End = i.End /\ new # << >> /\ Last(new) = new[n]
    BY <2>1, <2>3, <2>5 DEF Last
  <2>9. \A j \in 1 .. n : /\ l[j].Start \in Int /\ l[j].End \in Int
                          /\ l[j].Start < l[j].End
                          /\ \A k \in 1 .. n : j < k => l[j].End < l[k].Start
    BY <1>1, ElementEnds DEF Norm, NormalizedList
  <2>10. NormalizedList(new)
    <3>1. ASSUME NEW j \in 1 .. n PROVE new[j].Start < new[j].End
      <4>1. CASE j = n
        BY <1>2, <2>2, <2>7, <2>8, <4>1
      <4>2. CASE j # n
        BY <2>7, <2>9, <4>2
      <4> QED BY <4>1, <4>2
    <3>2. ASSUME NEW j \in 1 .. n, NEW k \in 1 .. n, j < k PROVE new[j].End < new[k].Start
      <4> HIDE DEF n
      <4>1. j # n
        BY <1>1, <3>2
      <4> QED BY <2>7, <2>9, <3>2, <4>1
    <3> QED BY <2>6, <3>1, <3>2 DEF NormalizedList
  <2>11. ASSUME NEW x \in Int PROVE x \in Covered(new) <=> x \in Covered(l) \/ In(x, i)
    <3>1. /\ x \in Covered(new) <=> \E j \in 1 .. n : In(x, new[j])
          /\ x \in Covered(l) <=> \E j \in 1 .. n : In(x, l[j])
      BY <1>1, <2>5, CoveredIs
    <3>2. \A j \in 1 .. n : j # n => (In(x, new[j]) <=> In(x, l[j]))
      BY <2>7 DEF In
    <3>3. In(x, new[n]) <=> In(x, l[n]) \/ In(x, i)
      BY <1>2, <2>1, <2>2, <2>7, <2>8 DEF In
    <3> QED BY <2>1, <3>1, <3>2, <3>3
  <2> QED BY <2>4, <2>5, <2>8, <2>10, <2>11 DEF Norm
<1>4. CASE ~ (l # << >> /\ Last(l).End = i.Start)
  <2> DEFINE one == << Interval(i.Start, i.End) >>
             new == l \o one
  <2>1. /\ Norm(one) /\ Covered(one) = i.Start .. (i.End - 1)
        /\ Len(one) = 1 /\ one[1] = i
    BY <1>2, OneRange
  <2>2. Join(l, i) = new
    <3>1. Join(l, i) = Append(l, i)
      BY <1>4 DEF Join
    <3>2. Append(l, i) = l \o << i >>
      BY <1>1, AppendIsConcat
    <3> QED BY <1>2, <3>1, <3>2
  <2> HIDE DEF one
  <2>3. ASSUME NEW j \in 1 .. n PROVE l[j].End < i.Start
    <3>1. n \in 1 .. n /\ l # << >> /\ Last(l) = l[n]
      BY <1>1 DEF Last
    <3>2. l[n].End < i.Start /\ l[n].End \in Int
      BY <1>1, <1>2, <1>4, <3>1, ElementEnds
    <3>3. j < n => l[j].End < l[n].Start /\ l[n].Start < l[n].End
      BY <1>1, <3>1 DEF Norm, NormalizedList
    <3>4. l[j].End \in Int /\ l[n].Start \in Int
      BY <1>1, <3>1, ElementEnds
    <3> HIDE DEF n
    <3>5. j < n \/ j = n
      BY <1>1
    <3> QED BY <1>2, <3>2, <3>3, <3>4, <3>5
  <2>4. Norm(new) /\ Covered(new) = Covered(l) \union Covered(one)
    <3>1. \A j \in 1 .. n, k \in 1 .. Len(one) : l[j].End < one[k].Start
      BY <2>1, <2>3
    <3> QED BY <2>1, <3>1, ConcatIsNorm
  <2>5. one \in Seq(Ends)
    BY <2>1 DEF Norm
  <2>6. Len(new) = n + 1 /\ new[n + 1] = i
    <3>1. /\ Len(new) = n + Len(one)
          /\ \A k \in 1 .. n + Len(one) : new[k] = IF k <= n THEN l[k] ELSE one[k - n]
      BY <1>1, <2>5, ConcatProperties
    <3> HIDE DEF n, new
    <3>2. n + 1 \in 1 .. n + Len(one) /\ ~ (n + 1 <= n) /\ (n + 1) - n = 1
      BY <1>1, <2>1
    <3> QED BY <2>1, <3>1, <3>2
  <2> HIDE DEF new
  <2>7. new # << >> /\ Last(new) = i
    BY <1>1, <2>6, EmptySeq DEF Last
  <2>8. ASSUME NEW x \in Int PROVE x \in Covered(new) <=> x \in Covered(l) \/ In(x, i)
    BY <1>2, <2>1, <2>4 DEF In
  <2> QED BY <2>2, <2>4, <2>7, <2>8
<1> QED BY <1>3, <1>4

\* What the loop of Add makes of the first k ranges.
JoinedTo(l, js, k) ==
  /\ Norm(l)
  /\ \A x \in Int : x \in Covered(l) <=> \E j \in 1 .. k : In(x, js[j])
  /\ IF k = 0 THEN l = << >> ELSE l # << >> /\ Last(l).End = js[k].End

(* The loop of Add over a list that is sorted and does not overlap.         *)
LEMMA JoinedIs ==
  ASSUME NEW js \in Seq(Ends),
         \A k \in 1 .. Len(js) : js[k].Start < js[k].End,
         \A j, k \in 1 .. Len(js) : j < k => js[j].End <= js[k].Start
  PROVE  /\ Norm(Joined(js))
         /\ \A x \in Int : x \in Covered(Joined(js)) <=> \E k \in 1 .. Len(js) : In(x, js[k])
<1> DEFINE n == Len(js)
           P(f) == f = [k \in 0 .. n |-> IF k = 0 THEN << >> ELSE Join(f[k-1], js[k])]
           step == [k \in 1 .. n |-> [l \in Seq(Ends) |-> Join(l, js[k])]]
<1>1. n \in Nat /\ \A k \in 1 .. n : js[k] \in Ends
  BY LenProperties, ElementEnds
<1>2. ASSUME NEW k \in 1 .. n, NEW l \in Seq(Ends) PROVE Join(l, js[k]) \in Seq(Ends)
  <2>1. js[k] \in Ends /\ js[k].End \in Int
    BY ElementEnds
  <2>2. CASE l # << >>
    <3>1. Len(l) \in 1 .. Len(l)
      BY <2>2, LenProperties, EmptySeq
    <3>2. Interval(Last(l).Start, js[k].End) \in Ends
      BY <2>1, <3>1, ElementEnds, IntervalIs DEF Last
    <3>3. [l EXCEPT ![Len(l)] = Interval(Last(l).Start, js[k].End)] \in Seq(Ends)
      BY <3>1, <3>2, ExceptSeq
    <3> QED BY <2>1, <3>3, AppendProperties DEF Join
  <2>3. CASE l = << >>
    BY <2>1, <2>3, AppendProperties DEF Join
  <2> QED BY <2>2, <2>3
<1>3. Joined(js) = (CHOOSE f : P(f))[n]
  BY DEF Joined
<1> HIDE DEF n
<1>4. step \in [1 .. n -> [Seq(Ends) -> Seq(Ends)]]
  BY <1>2
<1>5. \A k \in 1 .. n, l \in Seq(Ends) : step[k][l] = Join(l, js[k])
  OBVIOUS
<1> HIDE DEF step
<1>6. PICK g \in [0 .. n -> Seq(Ends)] : RunsThrough(g, n, << >>, step)
  BY <1>1, <1>4, LoopExists, EmptySeq
<1>7. P(g)
  <2>1. \A k \in 1 .. n : k - 1 \in 0 .. n
    BY <1>1
  <2>2. \A k \in 1 .. n : g[k] = Join(g[k-1], js[k])
    BY <1>5, <1>6, <2>1 DEF RunsThrough
  <2>3. \A k \in 0 .. n : g[k] = IF k = 0 THEN << >> ELSE Join(g[k-1], js[k])
    BY <1>1, <1>6, <2>2 DEF RunsThrough
  <2> QED BY <2>3
<1>8. PICK f : P(f) /\ Joined(js) = f[n]
  <2> HIDE DEF P
  <2> QED BY <1>3, <1>7
<1>9. f[0] = << >> /\ \A k \in 1 .. n : f[k] = Join(f[k-1], js[k])
  BY <1>1, <1>8
<1> HIDE DEF P
<1> DEFINE T == { k \in 0 .. n : JoinedTo(f[k], js, k) }
<1>10. 0 \in T
  <2>1. \A j : j \notin 1 .. 0
    OBVIOUS
  <2> QED BY <1>1, <1>9, <2>1, EmptyIsNorm DEF JoinedTo
<1>11. ASSUME NEW k \in 0 .. (n - 1), k \in T PROVE k + 1 \in T
  <2> DEFINE i == js[k + 1]
             l == f[k]
  <2>1. k + 1 \in 1 .. n /\ (k + 1) - 1 = k /\ k + 1 \in 0 .. n /\ k + 1 # 0
    BY <1>1
  <2>2. f[k + 1] = Join(l, i) /\ JoinedTo(l, js, k)
    BY <1>9, <1>11, <2>1
  <2>3. i \in Ends /\ i.Start < i.End
    BY <1>1, <2>1 DEF n
  <2>4. l # << >> => Last(l).End <= i.Start
    <3> SUFFICES ASSUME l # << >> PROVE Last(l).End <= i.Start
      OBVIOUS
    <3>1. k # 0 /\ Last(l).End = js[k].End
      BY <2>2 DEF JoinedTo
    <3>2. k \in 1 .. n /\ k < k + 1
      BY <1>1, <3>1
    <3> QED BY <2>1, <3>1, <3>2 DEF n
  <2>5. /\ Norm(Join(l, i))
        /\ \A x \in Int : x \in Covered(Join(l, i)) <=> x \in Covered(l) \/ In(x, i)
        /\ Join(l, i) # << >> /\ Last(Join(l, i)).End = i.End
    <3> HIDE DEF l, i
    <3> QED BY <2>2, <2>3, <2>4, JoinIs DEF JoinedTo
  <2>6. \A j : j \in 1 .. (k + 1) <=> j \in 1 .. k \/ j = k + 1
    BY <1>1
  <2>7. JoinedTo(f[k + 1], js, k + 1)
    BY <2>1, <2>2, <2>5, <2>6 DEF JoinedTo
  <2> QED BY <2>1, <2>7
<1>12. n \in T
  <2> HIDE DEF T
  <2>1. \A k \in 0 .. n : k \in T
    BY <1>1, <1>10, <1>11, UpTo
  <2> QED BY <1>1, <2>1
<1>13. JoinedTo(Joined(js), js, n)
  BY <1>8, <1>12
<1> QED BY <1>13 DEF JoinedTo, n

(* What Add does: nothing but these positions is added.                    *)
LEMMA AddedIs ==
  ASSUME NEW is, Norm(is), NEW s \in Int, NEW e \in Int, s <= e
  PROVE  /\ Norm(Added(is, s, e))
         /\ Covered(Added(is, s, e)) = Covered(is) \union (s .. (e - 1))
<1>1. CASE s = e
  <2>1. Added(is, s, e) = is /\ s .. (e - 1) = {}
    BY <1>1 DEF Added
  <2> QED BY <1>1, <2>1
<1>2. CASE s < e
  <2> DEFINE r == Removed(is, s, e)
             i == Interval(s, e)
             a == Append(r, i)
             n == Len(r)
             js == Sorted(a)
  <2>1. Added(is, s, e) = Joined(js)
    BY <1>2 DEF Added
  <2>2. Norm(r) /\ Covered(r) = Covered(is) \ (s .. (e - 1))
    BY RemovedIs
  <2>3. i \in Ends /\ i.Start = s /\ i.End = e
    BY IntervalIs
  <2> HIDE DEF r, i
  <2>4. r \in Seq(Ends) /\ n \in Nat /\ DOMAIN r = 1 .. n
    BY <2>2, LenProperties DEF Norm
  <2>5. /\ a \in Seq(Ends) /\ Len(a) = n + 1
        /\ \A k \in 1 .. n : a[k] = r[k]
        /\ a[n + 1] = i
    BY <2>3, <2>4, AppendProperties
  <2> HIDE DEF a
  <2>6. \A j \in 1 .. n : /\ r[j].Start \in Int /\ r[j].End \in Int
                          /\ r[j].Start < r[j].End
                          /\ \A k \in 1 .. n : j < k => r[j].End < r[k].Start
    BY <2>2, <2>4, ElementEnds DEF Norm, NormalizedList
  <2>7. ASSUME NEW j \in 1 .. n PROVE r[j].End <= s \/ e <= r[j].Start
    <3>1. \A x \in Int : In(x, r[j]) => ~ (s <= x /\ x < e)
      BY <2>2, <2>4, CoveredIs
    <3>2. ~ In(s, r[j]) /\ (In(r[j].Start, r[j]) => ~ (s <= r[j].Start /\ r[j].Start < e))
      BY <1>2, <2>6, <3>1
    <3> HIDE DEF n
    <3> QED BY <2>6, <3>2 DEF In
  <2> HIDE DEF n
  <2> DEFINE Apart(x, y) == x.Start # y.Start /\ (x.Start < y.Start => x.End <= y.Start)
  <2>8. ASSUME NEW j \in 1 .. n, NEW k \in 1 .. n, j # k PROVE Apart(r[j], r[k])
    <3>1. j < k \/ k < j
      BY <2>4, <2>8
    <3> QED BY <2>6, <3>1
  <2>9. ASSUME NEW j \in 1 .. n PROVE Apart(r[j], i) /\ Apart(i, r[j])
    BY <1>2, <2>3, <2>6, <2>7
  <2>10. \A k \in 1 .. n + 1 : k \in 1 .. n \/ k = n + 1
    BY <2>4
  <2>11. \A k \in 1 .. n + 1 : a[k].Start < a[k].End /\ a[k].Start \in Int /\ a[k].End \in Int
    BY <1>2, <2>3, <2>5, <2>6, <2>10
  <2> HIDE DEF Apart
  <2>12. \A j, k \in 1 .. n + 1 : j # k => Apart(a[j], a[k])
    BY <2>5, <2>8, <2>9, <2>10
  <2>13. \A j, k \in 1 .. Len(a) : j # k => a[j].Start # a[k].Start
    BY <2>5, <2>12 DEF Apart
  <2>14. /\ js \in Seq(Ends) /\ Len(js) = n + 1
         /\ \A j, k \in 1 .. n + 1 : j < k => js[j].Start < js[k].Start
         /\ \A k \in 1 .. n + 1 : \E j \in 1 .. n + 1 : js[k] = a[j]
         /\ \A j \in 1 .. n + 1 : \E k \in 1 .. n + 1 : js[k] = a[j]
    <3>1. Len(a) = n + 1 /\ a \in Seq(Ends)
      BY <2>5
    <3>2. /\ js \in Seq(Ends) /\ Len(js) = Len(a)
          /\ \A j, k \in 1 .. Len(a) : j < k => js[j].Start < js[k].Start
          /\ \A k \in 1 .. Len(a) : \E j \in 1 .. Len(a) : js[k] = a[j]
          /\ \A j \in 1 .. Len(a) : \E k \in 1 .. Len(a) : js[k] = a[j]
      BY <3>1, <2>13, SortedIs
    <3> HIDE DEF js
    <3> QED BY <3>1, <3>2
  <2> HIDE DEF js
  <2>15. \A k \in 1 .. n + 1 : js[k].Start < js[k].End
    BY <2>11, <2>14
  <2>16. ASSUME NEW j \in 1 .. n + 1, NEW k \in 1 .. n + 1, j < k PROVE js[j].End <= js[k].Start
    <3>1. PICK p \in 1 .. n + 1 : js[j] = a[p]
      BY <2>14
    <3>2. PICK q \in 1 .. n + 1 : js[k] = a[q]
      BY <2>14
    <3>3. js[j].Start < js[k].Start
      BY <2>14, <2>16
    <3>4. a[p].Start < a[q].Start /\ a[p].Start \in Int
      BY <2>11, <3>1, <3>2, <3>3
    <3>5. p # q
      BY <3>4
    <3> QED BY <2>12, <3>1, <3>2, <3>4, <3>5 DEF Apart
  <2>17. /\ Norm(Joined(js))
         /\ \A x \in Int : x \in Covered(Joined(js)) <=> \E k \in 1 .. n + 1 : In(x, js[k])
    BY <2>14, <2>15, <2>16, JoinedIs
  <2>18. ASSUME NEW x \in Int
         PROVE  x \in Covered(Joined(js)) <=> x \in Covered(is) \union (s .. (e - 1))
    <3>1. (\E k \in 1 .. n + 1 : In(x, js[k])) <=> \E j \in 1 .. n + 1 : In(x, a[j])
      BY <2>14
    <3>2. (\E j \in 1 .. n + 1 : In(x, a[j])) <=> (\E j \in 1 .. n : In(x, r[j])) \/ In(x, i)
      <4>1. \A j \in 1 .. n : j \in 1 .. n + 1
        BY <2>4
      <4>2. n + 1 \in 1 .. n + 1
        BY <2>4
      <4> QED BY <2>5, <2>10, <4>1, <4>2
    <3>3. (\E j \in 1 .. n : In(x, r[j])) <=> x \in Covered(r)
      BY <2>4, CoveredIs DEF n
    <3>4. In(x, i) <=> x \in s .. (e - 1)
      BY <2>3 DEF In
    <3> QED BY <2>2, <2>17, <3>1, <3>2, <3>3, <3>4
  <2>19. Covered(Joined(js)) = Covered(is) \union (s .. (e - 1))
    <3>1. Covered(Joined(js)) \subseteq Int /\ Covered(is) \subseteq Int
      BY <2>17, CoveredIs DEF Norm
    <3>2. Covered(is) \union (s .. (e - 1)) \subseteq Int
      BY <3>1
    <3> QED BY <2>18, <3>1, <3>2, CoveredEqual
  <2> QED BY <2>1, <2>17, <2>19
<1> QED BY <1>1, <1>2

-----------------------------------------------------------------------------
(* The calls that go through another list.                                 *)

\* The positions of the first k ranges of a list.
UpToRange(other, k) == UNION { other[j].Start .. (other[j].End - 1) : j \in 1 .. k }

\* A list whose ranges are not the wrong way round.
Ordered(other) ==
  other \in Seq(Ends) /\ \A k \in 1 .. Len(other) : other[k].Start <= other[k].End

LEMMA UpToNextRange ==
  ASSUME NEW other, NEW n \in Nat, NEW k \in 0 .. (n - 1)
  PROVE  UpToRange(other, k + 1)
           = UpToRange(other, k) \union (other[k + 1].Start .. (other[k + 1].End - 1))
<1>1. 1 .. (k + 1) = (1 .. k) \union {k + 1}
  OBVIOUS
<1> QED BY <1>1 DEF UpToRange

LEMMA UpToLastRange ==
  ASSUME NEW other \in Seq(Ends)
  PROVE  UpToRange(other, Len(other)) = Covered(other) /\ UpToRange(other, 0) = {}
<1>1. DOMAIN other = 1 .. Len(other) /\ 1 .. 0 = {}
  BY LenProperties
<1> QED BY <1>1 DEF UpToRange, Covered

LEMMA NormIsOrdered ==
  ASSUME NEW is, Norm(is)
  PROVE  Ordered(is)
<1>1. is \in Seq(Ends) /\ DOMAIN is = 1 .. Len(is)
  BY LenProperties DEF Norm
<1>2. ASSUME NEW k \in 1 .. Len(is) PROVE is[k].Start <= is[k].End
  <2>1. is[k].Start < is[k].End /\ is[k].Start \in Int /\ is[k].End \in Int
    BY <1>1, ElementEnds DEF Norm, NormalizedList
  <2> QED BY <2>1
<1> QED BY <1>1, <1>2 DEF Ordered

NormLists == { is \in Seq(Ends) : NormalizedList(is) }

(* AddRange adds the positions of the other list.                           *)
LEMMA AddedRangeIs ==
  ASSUME NEW is, Norm(is), NEW other, Ordered(other)
  PROVE  /\ Norm(AddedRange(is, other))
         /\ Covered(AddedRange(is, other)) = Covered(is) \union Covered(other)
<1> DEFINE n == Len(other)
           Turn(l, k) == Added(l, other[k].Start, other[k].End)
           P(f) == f = [k \in 0 .. n |-> IF k = 0 THEN is ELSE Turn(f[k-1], k)]
           step == [k \in 1 .. n |-> [l \in NormLists |-> Turn(l, k)]]
<1>1. n \in Nat /\ other \in Seq(Ends)
  BY LenProperties DEF Ordered
<1>2. ASSUME NEW k \in 1 .. n, NEW l \in NormLists
      PROVE  /\ Turn(l, k) \in NormLists
             /\ Covered(Turn(l, k)) = Covered(l) \union (other[k].Start .. (other[k].End - 1))
  <2>1. other[k].Start \in Int /\ other[k].End \in Int /\ other[k].Start <= other[k].End
    BY <1>1, ElementEnds DEF Ordered
  <2> QED BY <2>1, AddedIs DEF NormLists, Norm
<1>3. AddedRange(is, other) = (CHOOSE f : P(f))[n]
  BY DEF AddedRange
<1> HIDE DEF n, Turn
<1>4. step \in [1 .. n -> [NormLists -> NormLists]]
  BY <1>2
<1>5. \A k \in 1 .. n, l \in NormLists : step[k][l] = Turn(l, k)
  OBVIOUS
<1> HIDE DEF step
<1>6. PICK g \in [0 .. n -> NormLists] : RunsThrough(g, n, is, step)
  BY <1>1, <1>4, LoopExists DEF NormLists, Norm
<1>7. P(g)
  <2>1. \A k \in 1 .. n : k - 1 \in 0 .. n
    BY <1>1
  <2>2. \A k \in 1 .. n : g[k] = Turn(g[k-1], k)
    BY <1>5, <1>6, <2>1 DEF RunsThrough
  <2>3. \A k \in 0 .. n : g[k] = IF k = 0 THEN is ELSE Turn(g[k-1], k)
    BY <1>1, <1>6, <2>2 DEF RunsThrough
  <2> QED BY <2>3
<1>8. PICK f : P(f) /\ AddedRange(is, other) = f[n]
  <2> HIDE DEF P
  <2> QED BY <1>3, <1>7
<1>9. f[0] = is /\ \A k \in 1 .. n : f[k] = Turn(f[k-1], k)
  BY <1>1, <1>8
<1> HIDE DEF P
<1> DEFINE Done(k) == f[k] \in NormLists /\ Covered(f[k]) = Covered(is) \union UpToRange(other, k)
           T == { k \in 0 .. n : Done(k) }
<1>10. 0 \in T
  BY <1>1, <1>9, UpToLastRange DEF NormLists, Norm
<1>11. ASSUME NEW k \in 0 .. (n - 1), k \in T PROVE k + 1 \in T
  <2>1. k + 1 \in 1 .. n /\ (k + 1) - 1 = k /\ k + 1 \in 0 .. n
    BY <1>1
  <2>2. f[k + 1] = Turn(f[k], k + 1)
    BY <1>9, <2>1
  <2>3. Done(k)
    BY <1>11
  <2>4. /\ f[k + 1] \in NormLists
        /\ Covered(f[k + 1]) = Covered(f[k]) \union (other[k + 1].Start .. (other[k + 1].End - 1))
    BY <1>2, <2>1, <2>2, <2>3
  <2>5. UpToRange(other, k + 1) = UpToRange(other, k) \union (other[k + 1].Start .. (other[k + 1].End - 1))
    BY <1>1, UpToNextRange
  <2>6. Done(k + 1)
    BY <2>3, <2>4, <2>5
  <2> HIDE DEF Done
  <2> QED BY <2>1, <2>6
<1>12. n \in T
  <2> HIDE DEF T
  <2>1. \A k \in 0 .. n : k \in T
    BY <1>1, <1>10, <1>11, UpTo
  <2> QED BY <1>1, <2>1
<1>13. UpToRange(other, n) = Covered(other)
  BY <1>1, UpToLastRange DEF n
<1> QED BY <1>8, <1>12, <1>13 DEF NormLists, Norm

(* RemoveRange removes the positions of the other list.                     *)
LEMMA RemovedRangeIs ==
  ASSUME NEW is, Norm(is), NEW other, Ordered(other)
  PROVE  /\ Norm(RemovedRange(is, other))
         /\ Covered(RemovedRange(is, other)) = Covered(is) \ Covered(other)
<1> DEFINE n == Len(other)
           Turn(l, k) == Removed(l, other[k].Start, other[k].End)
           P(f) == f = [k \in 0 .. n |-> IF k = 0 THEN is ELSE Turn(f[k-1], k)]
           step == [k \in 1 .. n |-> [l \in NormLists |-> Turn(l, k)]]
<1>1. n \in Nat /\ other \in Seq(Ends)
  BY LenProperties DEF Ordered
<1>2. ASSUME NEW k \in 1 .. n, NEW l \in NormLists
      PROVE  /\ Turn(l, k) \in NormLists
             /\ Covered(Turn(l, k)) = Covered(l) \ (other[k].Start .. (other[k].End - 1))
  <2>1. other[k].Start \in Int /\ other[k].End \in Int /\ other[k].Start <= other[k].End
    BY <1>1, ElementEnds DEF Ordered
  <2> QED BY <2>1, RemovedIs DEF NormLists, Norm
<1>3. RemovedRange(is, other) = (CHOOSE f : P(f))[n]
  BY DEF RemovedRange
<1> HIDE DEF n, Turn
<1>4. step \in [1 .. n -> [NormLists -> NormLists]]
  BY <1>2
<1>5. \A k \in 1 .. n, l \in NormLists : step[k][l] = Turn(l, k)
  OBVIOUS
<1> HIDE DEF step
<1>6. PICK g \in [0 .. n -> NormLists] : RunsThrough(g, n, is, step)
  BY <1>1, <1>4, LoopExists DEF NormLists, Norm
<1>7. P(g)
  <2>1. \A k \in 1 .. n : k - 1 \in 0 .. n
    BY <1>1
  <2>2. \A k \in 1 .. n : g[k] = Turn(g[k-1], k)
    BY <1>5, <1>6, <2>1 DEF RunsThrough
  <2>3. \A k \in 0 .. n : g[k] = IF k = 0 THEN is ELSE Turn(g[k-1], k)
    BY <1>1, <1>6, <2>2 DEF RunsThrough
  <2> QED BY <2>3
<1>8. PICK f : P(f) /\ RemovedRange(is, other) = f[n]
  <2> HIDE DEF P
  <2> QED BY <1>3, <1>7
<1>9. f[0] = is /\ \A k \in 1 .. n : f[k] = Turn(f[k-1], k)
  BY <1>1, <1>8
<1> HIDE DEF P
<1> DEFINE Done(k) == f[k] \in NormLists /\ Covered(f[k]) = Covered(is) \ UpToRange(other, k)
           T == { k \in 0 .. n : Done(k) }
<1>10. 0 \in T
  BY <1>1, <1>9, UpToLastRange DEF NormLists, Norm
<1>11. ASSUME NEW k \in 0 .. (n - 1), k \in T PROVE k + 1 \in T
  <2>1. k + 1 \in 1 .. n /\ (k + 1) - 1 = k /\ k + 1 \in 0 .. n
    BY <1>1
  <2>2. f[k + 1] = Turn(f[k], k + 1)
    BY <1>9, <2>1
  <2>3. Done(k)
    BY <1>11
  <2>4. /\ f[k + 1] \in NormLists
        /\ Covered(f[k + 1]) = Covered(f[k]) \ (other[k + 1].Start .. (other[k + 1].End - 1))
    BY <1>2, <2>1, <2>2, <2>3
  <2>5. UpToRange(other, k + 1) = UpToRange(other, k) \union (other[k + 1].Start .. (other[k + 1].End - 1))
    BY <1>1, UpToNextRange
  <2>6. Done(k + 1)
    BY <2>3, <2>4, <2>5
  <2> HIDE DEF Done
  <2> QED BY <2>1, <2>6
<1>12. n \in T
  <2> HIDE DEF T
  <2>1. \A k \in 0 .. n : k \in T
    BY <1>1, <1>10, <1>11, UpTo
  <2> QED BY <1>1, <2>1
<1>13. UpToRange(other, n) = Covered(other)
  BY <1>1, UpToLastRange DEF n
<1> QED BY <1>8, <1>12, <1>13 DEF NormLists, Norm

-----------------------------------------------------------------------------
(* Has and FindUncovered.                                                  *)

(* A list with gaps has a whole range if and only if one of its ranges has. *)
LEMMA HasIs ==
  ASSUME NEW is, Norm(is), NEW s \in Int, NEW e \in Int, s <= e
  PROVE  Has(is, s, e) <=> s .. (e - 1) \subseteq Covered(is)
<1> DEFINE n == Len(is)
<1>1. is \in Seq(Ends) /\ n \in Nat /\ DOMAIN is = 1 .. n
  BY LenProperties DEF Norm
<1>2. \A j \in 1 .. n : /\ is[j].Start \in Int /\ is[j].End \in Int
                        /\ is[j].Start < is[j].End
                        /\ \A k \in 1 .. n : j < k => is[j].End < is[k].Start
  BY <1>1, ElementEnds DEF Norm, NormalizedList
<1>3. \A x \in Int : x \in Covered(is) <=> \E k \in 1 .. n : In(x, is[k])
  BY <1>1, CoveredIs
<1> HIDE DEF n
<1>4. CASE s = e
  BY <1>4 DEF Has
<1>5. CASE s < e
  <2>1. ASSUME NEW k \in 1 .. n, is[k].Start <= s, e <= is[k].End
        PROVE  s .. (e - 1) \subseteq Covered(is)
    <3> SUFFICES ASSUME NEW x \in s .. (e - 1) PROVE x \in Covered(is)
      OBVIOUS
    <3>1. In(x, is[k])
      BY <1>2, <2>1 DEF In
    <3> QED BY <1>3, <3>1
  <2>2. ASSUME s .. (e - 1) \subseteq Covered(is)
        PROVE  \E k \in 1 .. n : is[k].Start <= s /\ e <= is[k].End
    <3>1. s \in Covered(is)
      BY <1>5, <2>2
    <3>2. PICK k \in 1 .. n : In(s, is[k])
      BY <1>3, <3>1
    <3>3. e <= is[k].End
      <4> SUFFICES ASSUME is[k].End < e PROVE FALSE
        BY <1>2
      <4> DEFINE x == is[k].End
      <4>1. x \in s .. (e - 1) /\ x \in Int
        BY <1>2, <3>2 DEF In
      <4>2. PICK m \in 1 .. n : In(x, is[m])
        BY <1>3, <2>2, <4>1
      <4>3. m < k \/ m = k \/ k < m
        BY <1>1
      <4>4. is[m].Start <= is[k].End /\ is[k].End < is[m].End
        BY <4>2 DEF In
      <4>5. /\ is[m].Start \in Int /\ is[m].End \in Int /\ is[k].Start \in Int /\ is[k].End \in Int
            /\ is[k].Start < is[k].End
        BY <1>2
      <4> HIDE DEF x
      <4>6. CASE m < k
        <5>1. is[m].End < is[k].Start
          BY <1>2, <4>6
        <5> QED BY <4>4, <4>5, <5>1
      <4>7. CASE m = k
        BY <4>4, <4>5, <4>7
      <4>8. CASE k < m
        <5>1. is[k].End < is[m].Start
          BY <1>2, <4>8
        <5> QED BY <4>4, <4>5, <5>1
      <4> QED BY <4>3, <4>6, <4>7, <4>8
    <3> QED BY <3>2, <3>3 DEF In
  <2> QED BY <1>1, <1>5, <2>1, <2>2 DEF Has
<1> QED BY <1>4, <1>5

\* A turn of FindUncovered's loop carries where it searches on and what it found.
Searches == [from : Int, res : NormLists]

\* The gaps of a search that starts at s and ends before e, after k ranges: what
\* lies before a.from is decided, and none of these k ranges reaches behind it.
Searched(a, is, s, e, k) ==
  /\ a \in Searches /\ s <= a.from
  /\ \A x \in Int : x \in Covered(a.res) <=> s <= x /\ x < a.from /\ x < e /\ x \notin Covered(is)
  /\ \A j \in 1 .. k : is[j].Start < e => is[j].End <= a.from

(* The positions from `from` up to the next range, or to the end of the    *)
(* search when there is none, are not covered.                             *)
LEMMA GapIsUncovered ==
  ASSUME NEW is, Norm(is), NEW s \in Int, NEW e \in Int, NEW k \in 0 .. Len(is), NEW a,
         Searched(a, is, s, e, k), NEW to \in Int, to <= e,
         \A j \in 1 .. Len(is) : j > k => to <= is[j].Start
  PROVE  \A x \in Int : a.from <= x /\ x < to => x \notin Covered(is)
<1> DEFINE n == Len(is)
<1>1. is \in Seq(Ends) /\ n \in Nat
  BY LenProperties DEF Norm
<1>2. \A j \in 1 .. n : is[j].Start \in Int /\ is[j].End \in Int
  BY <1>1, ElementEnds
<1> SUFFICES ASSUME NEW x \in Int, a.from <= x, x < to, x \in Covered(is) PROVE FALSE
  OBVIOUS
<1>3. PICK j \in 1 .. n : In(x, is[j])
  BY <1>1, CoveredIs
<1> HIDE DEF n
<1>4. is[j].Start <= x /\ x < is[j].End /\ a.from \in Int
  BY <1>3 DEF In, Searched, Searches
<1>5. CASE j > k
  <2>1. to <= is[j].Start
    BY <1>5 DEF n
  <2> QED BY <1>2, <1>4, <2>1
<1>6. CASE j <= k
  <2>1. j \in 1 .. k
    BY <1>6
  <2>2. is[j].Start < e => is[j].End <= a.from
    BY <2>1 DEF Searched
  <2> QED BY <1>2, <1>4, <2>2
<1> QED BY <1>5, <1>6

(* One turn.                                                               *)
LEMMA ScanIs ==
  ASSUME NEW is, Norm(is), NEW s \in Int, NEW e \in Int, s <= e,
         NEW k \in 1 .. Len(is), NEW a, Searched(a, is, s, e, k - 1)
  PROVE  Searched(Scan(a, is[k], e), is, s, e, k)
<1> DEFINE i == is[k]
           n == Len(is)
           from == a.from
<1>1. is \in Seq(Ends) /\ n \in Nat /\ DOMAIN is = 1 .. n
  BY LenProperties DEF Norm
<1>2. \A j \in 1 .. n : /\ is[j].Start \in Int /\ is[j].End \in Int
                        /\ is[j].Start < is[j].End
                        /\ \A h \in 1 .. n : j < h => is[j].End < is[h].Start
  BY <1>1, ElementEnds DEF Norm, NormalizedList
<1>3. i.Start \in Int /\ i.End \in Int /\ i.Start < i.End
  BY <1>2
<1>4. a = [from |-> a.from, res |-> a.res] /\ from \in Int /\ s <= from /\ Norm(a.res)
  BY DEF Searched, Searches, NormLists, Norm
<1>5. \A j : j \in 1 .. k <=> j \in 1 .. (k - 1) \/ j = k
  BY <1>1
<1>6. CASE i.End <= from \/ i.Start >= e
  <2>1. Scan(a, i, e) = a
    BY <1>6 DEF Scan
  <2>2. i.Start < e => i.End <= from
    BY <1>3, <1>6
  <2> QED BY <1>5, <2>1, <2>2 DEF Searched
<1>7. CASE ~ (i.End <= from \/ i.Start >= e)
  <2> DEFINE res == IF i.Start > from THEN Added(a.res, from, i.Start) ELSE a.res
             new == [from |-> i.End, res |-> res]
  <2>1. Scan(a, i, e) = new
    BY <1>7 DEF Scan
  <2>2. new.from = i.End /\ new.res = res
    OBVIOUS
  <2>3. /\ Norm(res)
        /\ \A x \in Int : x \in Covered(res) <=> \/ x \in Covered(a.res)
                                                 \/ from <= x /\ x < i.Start
    <3>1. CASE i.Start > from
      <4>1. /\ Norm(Added(a.res, from, i.Start))
            /\ Covered(Added(a.res, from, i.Start)) = Covered(a.res) \union (from .. (i.Start - 1))
        <5>1. Norm(a.res) /\ from \in Int /\ i.Start \in Int /\ from <= i.Start
          BY <1>3, <1>4, <3>1
        <5> HIDE DEF from, i
        <5> QED BY <5>1, AddedIs
      <4> QED BY <1>3, <1>4, <3>1, <4>1
    <3>2. CASE ~ (i.Start > from)
      BY <1>3, <1>4, <3>2
    <3> QED BY <3>1, <3>2
  <2>4. new \in Searches
    BY <1>3, <2>3 DEF Searches, NormLists, Norm
  <2> HIDE DEF new, res
  <2>5. \A x \in Int : from <= x /\ x < i.Start => x \notin Covered(is)
    <3>1. k - 1 \in 0 .. Len(is)
      BY <1>1
    <3>2. \A j \in 1 .. Len(is) : j > k - 1 => i.Start <= is[j].Start
      <4> SUFFICES ASSUME NEW j \in 1 .. n, j > k - 1 PROVE i.Start <= is[j].Start
        OBVIOUS
      <4>1. j = k \/ k < j
        BY <1>1
      <4>2. k < j => i.End < is[j].Start
        BY <1>2
      <4>3. is[j].Start \in Int
        BY <1>2
      <4> QED BY <1>3, <4>1, <4>2, <4>3
    <3>3. i.Start <= e
      BY <1>3, <1>7
    <3> HIDE DEF i
    <3> QED BY <1>3, <3>1, <3>2, <3>3, GapIsUncovered
  <2>6. \A x \in Int : i.Start <= x /\ x < i.End => x \in Covered(is)
    BY <1>1, CoveredIs DEF In
  <2>7. ASSUME NEW x \in Int
        PROVE  x \in Covered(res) <=> s <= x /\ x < i.End /\ x < e /\ x \notin Covered(is)
    <3>1. x \in Covered(a.res) <=> s <= x /\ x < from /\ x < e /\ x \notin Covered(is)
      BY DEF Searched
    <3>2. from <= x /\ x < i.Start => x \notin Covered(is)
      BY <2>5
    <3>3. i.Start <= x /\ x < i.End => x \in Covered(is)
      BY <2>6
    <3>4. x \in Covered(res) <=> x \in Covered(a.res) \/ (from <= x /\ x < i.Start)
      BY <2>3
    <3>5. from < i.End /\ i.Start < e
      BY <1>3, <1>4, <1>7
    <3> HIDE DEF i, from
    <3> QED BY <1>3, <1>4, <3>1, <3>2, <3>3, <3>4, <3>5
  <2>8. ASSUME NEW j \in 1 .. k, is[j].Start < e PROVE is[j].End <= i.End
    <3>1. CASE j = k
      BY <1>3, <3>1
    <3>2. CASE j # k
      <4>1. j \in 1 .. n /\ j < k
        BY <1>1, <3>2
      <4>2. is[j].End < i.Start /\ is[j].End \in Int
        BY <1>2, <4>1
      <4> QED BY <1>3, <4>2
    <3> QED BY <3>1, <3>2
  <2>9. s <= i.End
    BY <1>3, <1>4, <1>7
  <2> QED BY <2>1, <2>2, <2>4, <2>7, <2>8, <2>9 DEF Searched
<1> QED BY <1>6, <1>7

(* FindUncovered finds the positions of the search that are not covered.   *)
LEMMA FindUncoveredIs ==
  ASSUME NEW is, Norm(is), NEW s \in Int, NEW e \in Int, s <= e
  PROVE  /\ Norm(FindUncovered(is, s, e))
         /\ Covered(FindUncovered(is, s, e)) = (s .. (e - 1)) \ Covered(is)
<1> DEFINE n == Len(is)
           start == [from |-> s, res |-> << >>]
           P(f) == f = [k \in 0 .. n |-> IF k = 0 THEN start ELSE Scan(f[k-1], is[k], e)]
           Rest(a) == IF a.from < e THEN Added(a.res, a.from, e) ELSE a.res
           step == [k \in 1 .. n |-> [a \in Searches |-> Scan(a, is[k], e)]]
<1>1. n \in Nat /\ is \in Seq(Ends)
  BY LenProperties DEF Norm
<1>2. ASSUME NEW k \in 1 .. n, NEW a \in Searches PROVE Scan(a, is[k], e) \in Searches
  <2>1. is[k].Start \in Int /\ is[k].End \in Int
    BY <1>1, ElementEnds
  <2>2. a.from \in Int /\ Norm(a.res)
    BY DEF Searches, NormLists, Norm
  <2>3. is[k].Start > a.from => Norm(Added(a.res, a.from, is[k].Start))
    BY <2>1, <2>2, AddedIs
  <2>4. \A r \in NormLists : [from |-> is[k].End, res |-> r] \in Searches
    BY <2>1 DEF Searches
  <2>5. a.res \in NormLists /\ (is[k].Start > a.from => Added(a.res, a.from, is[k].Start) \in NormLists)
    BY <2>2, <2>3 DEF NormLists, Norm
  <2> QED BY <2>4, <2>5 DEF Scan
<1>3. FindUncovered(is, s, e) = Rest((CHOOSE f : P(f))[n])
  BY DEF FindUncovered
<1>4. Searched(start, is, s, e, 0)
  <2>1. start \in Searches /\ start.from = s /\ start.res = << >>
    BY EmptyIsNorm DEF Searches, NormLists, Norm
  <2> HIDE DEF start
  <2>2. \A j : j \notin 1 .. 0
    OBVIOUS
  <2> QED BY <2>1, <2>2, EmptyIsNorm DEF Searched
<1> HIDE DEF n, start, Rest
<1>5. step \in [1 .. n -> [Searches -> Searches]]
  BY <1>2
<1>6. \A k \in 1 .. n, a \in Searches : step[k][a] = Scan(a, is[k], e)
  OBVIOUS
<1> HIDE DEF step
<1>7. PICK g \in [0 .. n -> Searches] : RunsThrough(g, n, start, step)
  BY <1>1, <1>4, <1>5, LoopExists DEF Searched
<1>8. P(g)
  <2>1. \A k \in 1 .. n : k - 1 \in 0 .. n
    BY <1>1
  <2>2. \A k \in 1 .. n : g[k] = Scan(g[k-1], is[k], e)
    BY <1>6, <1>7, <2>1 DEF RunsThrough
  <2>3. \A k \in 0 .. n : g[k] = IF k = 0 THEN start ELSE Scan(g[k-1], is[k], e)
    BY <1>1, <1>7, <2>2 DEF RunsThrough
  <2> QED BY <2>3
<1>9. PICK f : P(f) /\ FindUncovered(is, s, e) = Rest(f[n])
  <2> HIDE DEF P
  <2> QED BY <1>3, <1>8
<1>10. f[0] = start /\ \A k \in 1 .. n : f[k] = Scan(f[k-1], is[k], e)
  BY <1>1, <1>9
<1> HIDE DEF P
<1> DEFINE T == { k \in 0 .. n : Searched(f[k], is, s, e, k) }
<1>11. 0 \in T
  BY <1>1, <1>4, <1>10
<1>12. ASSUME NEW k \in 0 .. (n - 1), k \in T PROVE k + 1 \in T
  <2>1. k + 1 \in 1 .. n /\ (k + 1) - 1 = k /\ k + 1 \in 0 .. n
    BY <1>1
  <2>2. Searched(f[k], is, s, e, (k + 1) - 1)
    BY <1>12, <2>1
  <2>3. Searched(Scan(f[k], is[k + 1], e), is, s, e, k + 1)
    BY <2>1, <2>2, ScanIs DEF n
  <2> QED BY <1>10, <2>1, <2>3
<1>13. Searched(f[n], is, s, e, n)
  <2> HIDE DEF T
  <2>1. \A k \in 0 .. n : k \in T
    BY <1>1, <1>11, <1>12, UpTo
  <2> QED BY <1>1, <2>1 DEF T
<1> DEFINE a == f[n]
<1> HIDE DEF T
<1>14. a.from \in Int /\ s <= a.from /\ Norm(a.res)
  BY <1>13 DEF Searched, Searches, NormLists, Norm
<1>15. \A x \in Int : x \in Covered(a.res) <=> s <= x /\ x < a.from /\ x < e /\ x \notin Covered(is)
  BY <1>13 DEF Searched
<1>16. \A x \in Int : a.from <= x /\ x < e => x \notin Covered(is)
  <2>1. n \in 0 .. Len(is) /\ \A j \in 1 .. Len(is) : j > n => e <= is[j].Start
    BY <1>1 DEF n
  <2> QED BY <1>13, <2>1, GapIsUncovered
<1> HIDE DEF a
<1>17. /\ Norm(Rest(a))
       /\ \A x \in Int : x \in Covered(Rest(a)) <=> s <= x /\ x < e /\ x \notin Covered(is)
  <2>1. CASE a.from < e
    <3>1. /\ Norm(Added(a.res, a.from, e))
          /\ Covered(Added(a.res, a.from, e)) = Covered(a.res) \union (a.from .. (e - 1))
      BY <1>14, <2>1, AddedIs
    <3>2. Rest(a) = Added(a.res, a.from, e)
      BY <2>1 DEF Rest
    <3> QED BY <1>14, <1>15, <1>16, <2>1, <3>1, <3>2
  <2>2. CASE ~ (a.from < e)
    <3>1. Rest(a) = a.res
      BY <2>2 DEF Rest
    <3> QED BY <1>14, <1>15, <2>2, <3>1
  <2> QED BY <2>1, <2>2
<1>18. Covered(Rest(a)) = (s .. (e - 1)) \ Covered(is)
  <2>1. Covered(Rest(a)) \subseteq Int /\ (s .. (e - 1)) \ Covered(is) \subseteq Int
    BY <1>17, CoveredIs DEF Norm
  <2>2. \A x \in Int : x \in Covered(Rest(a)) <=> x \in (s .. (e - 1)) \ Covered(is)
    BY <1>17
  <2> QED BY <2>1, <2>2, CoveredEqual
<1> QED BY <1>9, <1>17, <1>18 DEF a

(* FindUncoveredRange finds the positions of the other list that are not   *)
(* covered.                                                                *)
LEMMA FindUncoveredRangeIs ==
  ASSUME NEW is, Norm(is), NEW other, Ordered(other)
  PROVE  /\ Norm(FindUncoveredRange(is, other))
         /\ Covered(FindUncoveredRange(is, other)) = Covered(other) \ Covered(is)
<1> DEFINE n == Len(other)
           Turn(l, k) == AddedRange(l, FindUncovered(is, other[k].Start, other[k].End))
           P(f) == f = [k \in 0 .. n |-> IF k = 0 THEN << >> ELSE Turn(f[k-1], k)]
           step == [k \in 1 .. n |-> [l \in NormLists |-> Turn(l, k)]]
<1>1. n \in Nat /\ other \in Seq(Ends)
  BY LenProperties DEF Ordered
<1>2. ASSUME NEW k \in 1 .. n, NEW l \in NormLists
      PROVE  /\ Turn(l, k) \in NormLists
             /\ Covered(Turn(l, k))
                  = Covered(l) \union ((other[k].Start .. (other[k].End - 1)) \ Covered(is))
  <2> DEFINE u == FindUncovered(is, other[k].Start, other[k].End)
  <2>1. other[k].Start \in Int /\ other[k].End \in Int /\ other[k].Start <= other[k].End
    BY <1>1, ElementEnds DEF Ordered
  <2>2. Norm(u) /\ Covered(u) = (other[k].Start .. (other[k].End - 1)) \ Covered(is)
    BY <2>1, FindUncoveredIs
  <2> HIDE DEF u
  <2>3. Ordered(u) /\ Norm(l)
    BY <2>2, NormIsOrdered DEF NormLists, Norm
  <2>4. Norm(AddedRange(l, u)) /\ Covered(AddedRange(l, u)) = Covered(l) \union Covered(u)
    BY <2>3, AddedRangeIs
  <2> QED BY <2>2, <2>4 DEF u, NormLists, Norm
<1>3. FindUncoveredRange(is, other) = (CHOOSE f : P(f))[n]
  BY DEF FindUncoveredRange
<1> HIDE DEF n, Turn
<1>4. step \in [1 .. n -> [NormLists -> NormLists]]
  BY <1>2
<1>5. \A k \in 1 .. n, l \in NormLists : step[k][l] = Turn(l, k)
  OBVIOUS
<1> HIDE DEF step
<1>6. << >> \in NormLists
  BY EmptyIsNorm DEF NormLists, Norm
<1>7. PICK g \in [0 .. n -> NormLists] : RunsThrough(g, n, << >>, step)
  BY <1>1, <1>4, <1>6, LoopExists
<1>8. P(g)
  <2>1. \A k \in 1 .. n : k - 1 \in 0 .. n
    BY <1>1
  <2>2. \A k \in 1 .. n : g[k] = Turn(g[k-1], k)
    BY <1>5, <1>7, <2>1 DEF RunsThrough
  <2>3. \A k \in 0 .. n : g[k] = IF k = 0 THEN << >> ELSE Turn(g[k-1], k)
    BY <1>1, <1>7, <2>2 DEF RunsThrough
  <2> QED BY <2>3
<1>9. PICK f : P(f) /\ FindUncoveredRange(is, other) = f[n]
  <2> HIDE DEF P
  <2> QED BY <1>3, <1>8
<1>10. f[0] = << >> /\ \A k \in 1 .. n : f[k] = Turn(f[k-1], k)
  BY <1>1, <1>9
<1> HIDE DEF P
<1> DEFINE Done(k) == f[k] \in NormLists /\ Covered(f[k]) = UpToRange(other, k) \ Covered(is)
           T == { k \in 0 .. n : Done(k) }
<1>11. 0 \in T
  BY <1>1, <1>6, <1>10, UpToLastRange, EmptyIsNorm
<1>12. ASSUME NEW k \in 0 .. (n - 1), k \in T PROVE k + 1 \in T
  <2>1. k + 1 \in 1 .. n /\ (k + 1) - 1 = k /\ k + 1 \in 0 .. n
    BY <1>1
  <2>2. f[k + 1] = Turn(f[k], k + 1)
    BY <1>10, <2>1
  <2>3. Done(k)
    BY <1>12
  <2>4. /\ f[k + 1] \in NormLists
        /\ Covered(f[k + 1])
             = Covered(f[k]) \union ((other[k + 1].Start .. (other[k + 1].End - 1)) \ Covered(is))
    BY <1>2, <2>1, <2>2, <2>3
  <2>5. UpToRange(other, k + 1) = UpToRange(other, k) \union (other[k + 1].Start .. (other[k + 1].End - 1))
    BY <1>1, UpToNextRange
  <2>6. Done(k + 1)
    BY <2>3, <2>4, <2>5
  <2> HIDE DEF Done
  <2> QED BY <2>1, <2>6
<1>13. n \in T
  <2> HIDE DEF T
  <2>1. \A k \in 0 .. n : k \in T
    BY <1>1, <1>11, <1>12, UpTo
  <2> QED BY <1>1, <2>1
<1>14. UpToRange(other, n) = Covered(other)
  BY <1>1, UpToLastRange DEF n
<1> QED BY <1>9, <1>13, <1>14 DEF NormLists, Norm

-----------------------------------------------------------------------------
(* The machine.                                                            *)

\* The value is a list of ranges, and normalized.
IntervalsInv == Norm(ranges)

\* What one call does to the set of positions.
Effect == \/ \E S \in SUBSET (0 .. (MaxPos - 1)) : Bytes!Include(S) \/ Bytes!Exclude(S)
          \/ UNCHANGED Covered(ranges)

(* Other values are lists within the positions.                            *)
LEMMA OtherIs ==
  ASSUME NEW other \in Lists
  PROVE  Norm(other) /\ Ordered(other) /\ Covered(other) \subseteq 0 .. (MaxPos - 1)
<1> DEFINE Within == [Start : 0 .. MaxPos, End : 0 .. MaxPos]
<1>1. other \in Seq(Within) /\ NormalizedList(other)
  BY ListsAssumption
<1>2. Within \subseteq Ends
  BY MaxPosAssumption DEF Ends
<1>3. other \in Seq(Ends)
  <2> HIDE DEF Within
  <2> QED BY <1>1, <1>2, SeqMonotonic
<1>4. Norm(other) /\ Ordered(other)
  BY <1>1, <1>3, NormIsOrdered DEF Norm
<1>5. ASSUME NEW x \in Covered(other) PROVE x \in 0 .. (MaxPos - 1)
  <2>1. PICK k \in DOMAIN other : x \in other[k].Start .. (other[k].End - 1)
    BY DEF Covered
  <2>2. k \in 1 .. Len(other)
    BY <1>1, LenProperties
  <2>3. other[k] \in Within
    <3> HIDE DEF Within
    <3> QED BY <1>1, <2>2, ElementOfSeq
  <2>4. other[k].Start \in 0 .. MaxPos /\ other[k].End \in 0 .. MaxPos
    BY <2>3
  <2> QED BY <2>1, <2>4, MaxPosAssumption
<1> QED BY <1>4, <1>5

(* What a union and a difference are in the specification of sets.         *)
LEMMA EffectIs ==
  ASSUME NEW S \in SUBSET (0 .. (MaxPos - 1)),
         \/ Covered(ranges') = Covered(ranges) \union S
         \/ Covered(ranges') = Covered(ranges) \ S
  PROVE  Effect
<1>1. Covered(ranges)' = Covered(ranges')
  BY DEF Covered
<1> QED BY <1>1 DEF Effect, Bytes!Include, Bytes!Exclude

(* Every call keeps the list normalized, and is a union or a difference.   *)
LEMMA StepIs ==
  ASSUME IntervalsInv, [Next]_ranges
  PROVE  IntervalsInv' /\ Effect
<1>1. ASSUME NEW b \in Bounds, Add(b[1], b[2]) PROVE IntervalsInv' /\ Effect
  <2>1. b[1] \in Int /\ b[2] \in Int /\ b[1] <= b[2] /\ b[1] .. (b[2] - 1) \subseteq 0 .. (MaxPos - 1)
    BY MaxPosAssumption DEF Bounds
  <2>2. Norm(ranges') /\ Covered(ranges') = Covered(ranges) \union (b[1] .. (b[2] - 1))
    BY <1>1, <2>1, AddedIs DEF Add, IntervalsInv
  <2>3. Effect
    BY <2>1, <2>2, EffectIs
  <2> QED BY <2>2, <2>3 DEF IntervalsInv, Norm, NormalizedList
<1>2. ASSUME NEW b \in Bounds, RemoveBytes(b[1], b[2]) PROVE IntervalsInv' /\ Effect
  <2>1. b[1] \in Int /\ b[2] \in Int /\ b[1] <= b[2] /\ b[1] .. (b[2] - 1) \subseteq 0 .. (MaxPos - 1)
    BY MaxPosAssumption DEF Bounds
  <2>2. Norm(ranges') /\ Covered(ranges') = Covered(ranges) \ (b[1] .. (b[2] - 1))
    BY <1>2, <2>1, RemovedIs DEF RemoveBytes, IntervalsInv
  <2>3. Effect
    BY <2>1, <2>2, EffectIs
  <2> QED BY <2>2, <2>3 DEF IntervalsInv, Norm, NormalizedList
<1>3. ASSUME NEW other \in Lists, AddRange(other) PROVE IntervalsInv' /\ Effect
  <2>1. Norm(ranges') /\ Covered(ranges') = Covered(ranges) \union Covered(other)
    BY <1>3, OtherIs, AddedRangeIs DEF AddRange, IntervalsInv
  <2>2. Effect
    BY <2>1, OtherIs, EffectIs
  <2> QED BY <2>1, <2>2 DEF IntervalsInv, Norm, NormalizedList
<1>4. ASSUME NEW other \in Lists, RemoveRange(other) PROVE IntervalsInv' /\ Effect
  <2>1. Norm(ranges') /\ Covered(ranges') = Covered(ranges) \ Covered(other)
    BY <1>4, OtherIs, RemovedRangeIs DEF RemoveRange, IntervalsInv
  <2>2. Effect
    BY <2>1, OtherIs, EffectIs
  <2> QED BY <2>1, <2>2 DEF IntervalsInv, Norm, NormalizedList
<1>5. CASE UNCHANGED ranges
  BY <1>5 DEF IntervalsInv, Norm, NormalizedList, Effect, Covered
<1> QED BY <1>1, <1>2, <1>3, <1>4, <1>5 DEF Next

(* The list of ranges is well-formed in every reachable state.             *)
THEOREM IntervalsInvHolds == Spec => []IntervalsInv
<1>1. Init => IntervalsInv
  BY EmptyIsNorm DEF Init, IntervalsInv
<1>2. IntervalsInv /\ [Next]_ranges => IntervalsInv'
  BY StepIs
<1> QED BY <1>1, <1>2, PTL DEF Spec

\* After any calls, with any bounds and any other values, the list is sorted, has no
\* empty range, and no two ranges touch (intervals.go: Add joins what Remove and
\* append leave).
THEOREM StaysNormalized == Spec => []Normalized
<1>1. IntervalsInv => Normalized
  BY DEF IntervalsInv, Norm, Normalized
<1> QED BY <1>1, IntervalsInvHolds, PTL

\* Has, which looks for one range that has it all, answers for the set of positions.
THEOREM HasStaysExact == Spec => []HasIsExact
<1>1. IntervalsInv => HasIsExact
  <2> SUFFICES ASSUME IntervalsInv, NEW b \in Bounds
               PROVE  Has(ranges, b[1], b[2]) <=> (b[1] .. (b[2] - 1)) \subseteq Covered(ranges)
    BY DEF HasIsExact
  <2>1. b[1] \in Int /\ b[2] \in Int /\ b[1] <= b[2]
    BY MaxPosAssumption DEF Bounds
  <2> QED BY <2>1, HasIs DEF IntervalsInv
<1> QED BY <1>1, IntervalsInvHolds, PTL

\* FindUncovered, with its early exits, finds every position that is missing and no
\* other, in a normalized list.
THEOREM FindUncoveredRangeStaysExact == Spec => []FindUncoveredRangeIsExact
<1>1. IntervalsInv => FindUncoveredRangeIsExact
  BY OtherIs, FindUncoveredRangeIs DEF IntervalsInv, FindUncoveredRangeIsExact, Norm
<1> QED BY <1>1, IntervalsInvHolds, PTL

\* The list implements a set of positions: splitting, clipping, sorting and joining
\* lose no position and invent none.
THEOREM IntervalsImplementByteSet == Spec => ImplementsByteSet
<1>1. Init => Bytes!Init
  BY EmptyIsNorm DEF Init, Bytes!Init
<1>2. IntervalsInv /\ [Next]_ranges => [Bytes!Next]_(Covered(ranges))
  BY StepIs DEF Effect, Bytes!Next
<1> QED BY <1>1, <1>2, IntervalsInvHolds, PTL DEF Spec, ImplementsByteSet, Bytes!Spec
=============================================================================
