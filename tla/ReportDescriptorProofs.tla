----------------------- MODULE ReportDescriptorProofs -----------------------
(***************************************************************************)
(* Lemmas about ReportDescriptor: what its loops compute, for descriptors  *)
(* of every length and any number of interfaces.                           *)
(*                                                                         *)
(* A loop is a fold.  Its run is the function from the number of elements  *)
(* read to the value so far; what holds of the run is shown by looking at  *)
(* the first number of elements for which it would not hold.               *)
(***************************************************************************)
EXTENDS ReportDescriptor, SequenceTheorems, FiniteSetTheorems, WellFoundedInduction, TLAPS

\* A set of numbers has a first one.
LEMMA LeastNumber == ASSUME NEW T \in SUBSET Nat, T # {} PROVE \E n \in T : \A m \in T : n <= m
<1> DEFINE R == OpToRel(<, Nat)
<1>1. PICK n \in T : \A m \in T : ~(<<m, n>> \in R)
  BY NatLessThanWellFounded, WFMin
<1>2. ASSUME NEW m \in T PROVE n <= m
  <2>1. m \in Nat /\ n \in Nat OBVIOUS
  <2>2. ~(<<m, n>> \in OpToRel(<, Nat)) BY <1>1 DEF R
  <2>3. ~(m < n) BY <2>1, <2>2 DEF OpToRel
  <2> HIDE DEF R
  <2> QED BY <2>1, <2>3
<1> QED BY <1>2

\* What is true of 0 and passed on is true of all numbers up to n.
LEMMA UpTo ==
    ASSUME NEW n \in Nat, NEW T, 0 \in T, \A k \in 1..n : k - 1 \in T => k \in T
    PROVE  \A k \in 0..n : k \in T
<1> DEFINE Others == {k \in 0..n : k \notin T}
<1> SUFFICES ASSUME Others # {} PROVE FALSE OBVIOUS
<1>0. Others \in SUBSET Nat OBVIOUS
<1>1. PICK k \in Others : \A m \in Others : k <= m
  <2> HIDE DEF Others
  <2> QED BY <1>0, LeastNumber
<1>2. k # 0 OBVIOUS
<1>3. k - 1 \in 0..n /\ k \in 1..n BY <1>2
<1>4. k - 1 \notin Others BY <1>1, <1>3
<1> QED BY <1>1, <1>3, <1>4

\* The last element of what has been read.
LEMMA MaxInterval == ASSUME NEW k \in Nat \ {0} PROVE Max(1..k) = k /\ (1..k) \ {k} = 1..k-1
<1>1. Max(1..k) = k BY DEF Max
<1> QED BY <1>1

\* Of some numbers up to n there is a greatest.
LEMMA Greatest == ASSUME NEW n \in Nat, NEW s \in SUBSET (0..n), s # {} PROVE \E m \in s : \A x \in s : x <= m
<1> DEFINE Above == {n - x : x \in s}
<1>1. Above \in SUBSET Nat /\ Above # {}
  <2>1. \A x \in s : n - x \in Nat OBVIOUS
  <2>2. PICK x \in s : TRUE OBVIOUS
  <2>3. n - x \in Above BY <2>2
  <2> QED BY <2>1, <2>3
<1>2. PICK m \in Above : \A l \in Above : m <= l BY <1>1, LeastNumber
<1>3. PICK x \in s : m = n - x OBVIOUS
<1>4. \A y \in s : y <= x
  <2> TAKE y \in s
  <2>1. n - x <= n - y BY <1>2, <1>3
  <2> QED BY <2>1
<1> QED BY <1>3, <1>4

\* So Max of them is one of them.
LEMMA MaxOf == ASSUME NEW n \in Nat, NEW s \in SUBSET (1..n), s # {} PROVE Max(s) \in s
<1>1. s \in SUBSET (0..n) OBVIOUS
<1>2. PICK x \in s : \A y \in s : y <= x BY <1>1, Greatest
<1>3. \A y \in s : x >= y BY <1>2
<1> QED BY <1>3 DEF Max

\* The steps of a loop of n iterations over a state in S, and its run from base.
Steps(n, S) == [1..n -> [S -> S]]
IsRun(g, n, S, base, step) ==
    /\ g \in [0..n -> S] /\ g[0] = base
    /\ \A k \in 1..n : g[k] = step[k][g[k - 1]]
\* The recursion by which a fold is defined.
Solves(h, n, S, base, step) ==
    /\ h \in [SUBSET (1..n) -> S]
    /\ \A s \in SUBSET (1..n) : h[s] = IF s = {} THEN base ELSE step[Max(s)][h[s \ {Max(s)}]]
\* What is left of it for a function that has any values outside S.
Obeys(F, n, S, base, step) ==
    /\ F[{}] = base
    /\ \A s \in SUBSET (1..n) : (s # {} /\ F[s \ {Max(s)}] \in S) => F[s] = step[Max(s)][F[s \ {Max(s)}]]

\* The recursion of a fold has a solution.
LEMMA FoldExists ==
    ASSUME NEW n \in Nat, NEW S, NEW base \in S, NEW step \in Steps(n, S)
    PROVE  \E h : Solves(h, n, S, base, step)
<1> DEFINE T == {k \in 0..n : \E h : Solves(h, k, S, base, step)}
<1> USE DEF Steps
<1>1. 0 \in T
  <2> DEFINE h == [s \in SUBSET (1..0) |-> base]
  <2>1. 1..0 = {} OBVIOUS
  <2>2. \A s \in SUBSET (1..0) : s = {} BY <2>1
  <2>3. Solves(h, 0, S, base, step) BY <2>2 DEF Solves
  <2>4. 0 \in 0..n OBVIOUS
  <2> QED BY <2>3, <2>4
<1>2. ASSUME NEW k \in 1..n, k - 1 \in T PROVE k \in T
  <2>1. PICK g : Solves(g, k - 1, S, base, step) BY <1>2
  <2> DEFINE h == [s \in SUBSET (1..k) |-> IF k \in s THEN step[k][g[s \ {k}]] ELSE g[s]]
  <2>2. \A s \in SUBSET (1..k) : s \ {k} \in SUBSET (1..k-1) OBVIOUS
  <2>3. h \in [SUBSET (1..k) -> S]
    <3> SUFFICES ASSUME NEW s \in SUBSET (1..k) PROVE (IF k \in s THEN step[k][g[s \ {k}]] ELSE g[s]) \in S
      OBVIOUS
    <3>1. s \ {k} \in SUBSET (1..k-1) BY <2>2
    <3>2. k \notin s => s \ {k} = s OBVIOUS
    <3> QED BY <2>1, <3>1, <3>2 DEF Solves
  <2>4. ASSUME NEW s \in SUBSET (1..k)
        PROVE  h[s] = IF s = {} THEN base ELSE step[Max(s)][h[s \ {Max(s)}]]
    <3>1. s \ {k} \in SUBSET (1..k-1) BY <2>2
    <3>2. CASE k \in s
      <4>1. Max(s) = k
        <5>1. \A y \in s : k >= y OBVIOUS
        <5>2. \A x \in s : (\A y \in s : x >= y) => x = k BY <3>2
        <5> QED BY <3>2, <5>1, <5>2 DEF Max
      <4>2. h[s \ {k}] = g[s \ {k}] OBVIOUS
      <4> QED BY <3>2, <4>1, <4>2
    <3>3. CASE k \notin s
      <4>1. s \in SUBSET (1..k-1) /\ h[s] = g[s] BY <3>1, <3>3
      <4>2. CASE s = {} BY <2>1, <4>1, <4>2 DEF Solves
      <4>3. CASE s # {}
        <5>1. k - 1 \in Nat OBVIOUS
        <5>2. Max(s) \in s BY <4>1, <4>3, <5>1, MaxOf
        <5>3. h[s \ {Max(s)}] = g[s \ {Max(s)}] BY <3>3
        <5> QED BY <2>1, <4>1, <4>3, <5>2, <5>3 DEF Solves
      <4> QED BY <4>2, <4>3
    <3> QED BY <3>2, <3>3
  <2>5. Solves(h, k, S, base, step)
    <3> HIDE DEF h
    <3> QED BY <2>3, <2>4 DEF Solves
  <2>6. k \in 0..n OBVIOUS
  <2> QED BY <2>5, <2>6
<1>3. n \in T
  <2> HIDE DEF T
  <2>1. \A k \in 0..n : k \in T BY <1>1, <1>2, UpTo
  <2> QED BY <2>1
<1> QED BY <1>3

\* A solution gives the run.
LEMMA RunOfFold ==
    ASSUME NEW n \in Nat, NEW S, NEW base \in S, NEW step \in Steps(n, S), NEW F, Obeys(F, n, S, base, step)
    PROVE  \E g : IsRun(g, n, S, base, step) /\ g[n] = F[1..n]
<1> DEFINE T == {k \in 0..n : F[1..k] \in S}
           g == [k \in 0..n |-> F[1..k]]
<1> USE DEF Steps, Obeys
<1>1. 0 \in T
  <2>1. 1..0 = {} OBVIOUS
  <2> QED BY <2>1
<1>2. ASSUME NEW k \in 1..n, F[1..k-1] \in S PROVE F[1..k] = step[k][F[1..k-1]] /\ F[1..k] \in S
  <2>1. Max(1..k) = k /\ (1..k) \ {k} = 1..k-1 BY MaxInterval
  <2>2. 1..k \in SUBSET (1..n) /\ 1..k # {}
    <3>1. 1 \in 1..k OBVIOUS
    <3>2. 1..k \subseteq 1..n OBVIOUS
    <3> QED BY <3>1, <3>2
  <2>3. F[(1..k) \ {Max(1..k)}] \in S BY <1>2, <2>1
  <2>4. F[1..k] = step[Max(1..k)][F[(1..k) \ {Max(1..k)}]] BY <2>2, <2>3
  <2>5. F[1..k] = step[k][F[1..k-1]] BY <2>1, <2>4
  <2> QED BY <1>2, <2>5
<1>3. \A k \in 0..n : k \in T
  <2>1. \A k \in 1..n : k - 1 \in T => k \in T BY <1>2
  <2> HIDE DEF T
  <2> QED BY <1>1, <2>1, UpTo
<1>4. g \in [0..n -> S] BY <1>3
<1>5. \A k \in 1..n : g[k] = step[k][g[k - 1]] BY <1>2, <1>3
<1>6. g[0] = base
  <2>1. 1..0 = {} OBVIOUS
  <2> QED BY <2>1
<1>7. g[n] = F[1..n] OBVIOUS
<1> HIDE DEF g
<1> QED BY <1>4, <1>5, <1>6, <1>7 DEF IsRun

-----------------------------------------------------------------------------
(***************************************************************************)
(* The parsing loop                                                        *)
(***************************************************************************)
TableEntry == [id : 0..IdMod-1, type : ReportType]
ParseType == [current_id : 0..IdMod-1, use_report_ids : BOOLEAN, ble_reports : Seq(TableEntry)]

\* The parser's state keeps its type.
LEMMA ParseTypes ==
    /\ NothingParsed \in ParseType
    /\ \A parsed \in ParseType, item \in Item : ParseNext(parsed, item) \in ParseType
<1>1. NothingParsed \in ParseType BY DescriptorAssumption DEF NothingParsed, ParseType
<1>2. ASSUME NEW parsed \in ParseType, NEW item \in Item PROVE ParseNext(parsed, item) \in ParseType
  <2> DEFINE report == [id |-> parsed.current_id, type |-> item.kind]
  <2>1. CASE item.kind = "id"
    BY <2>1 DEF ParseNext, ParseType, Item, ReportType
  <2>2. CASE item.kind # "id" /\ item.kind \in ReportType
    <3>1. report \in TableEntry BY <2>2 DEF TableEntry, ParseType
    <3>2. Append(parsed.ble_reports, report) \in Seq(TableEntry) BY <3>1, AppendProperties DEF ParseType
    <3> QED BY <2>2, <3>2 DEF ParseNext, ParseType
  <2>3. CASE item.kind # "id" /\ item.kind \notin ReportType
    BY <2>3 DEF ParseNext
  <2> QED BY <2>1, <2>2, <2>3
<1> QED BY <1>1, <1>2

ParseSteps(items) == [k \in 1..Len(items) |-> [x \in ParseType |-> ParseNext(x, items[k])]]

\* The parsing loop runs item by item and ends with the table.
LEMMA ParseRun ==
    ASSUME NEW items \in Seq(Item)
    PROVE  \E g : /\ IsRun(g, Len(items), ParseType, NothingParsed, ParseSteps(items))
                  /\ g[Len(items)] = Parsed(items)
<1> DEFINE n == Len(items)
           step == ParseSteps(items)
           Body(f) == [s \in SUBSET DOMAIN items |->
                          IF s = {} THEN NothingParsed ELSE ParseNext(f[s \ {Max(s)}], items[Max(s)])]
           F == CHOOSE f : f = Body(f)
<1>1. n \in Nat /\ DOMAIN items = 1..n /\ \A k \in 1..n : items[k] \in Item OBVIOUS
<1>2. step \in Steps(n, ParseType) BY <1>1, ParseTypes DEF Steps, ParseSteps
<1>3. PICK h : Solves(h, n, ParseType, NothingParsed, step)
  BY <1>1, <1>2, ParseTypes, FoldExists
<1>4. ASSUME NEW s \in SUBSET (1..n), s # {}, NEW f, f[s \ {Max(s)}] \in ParseType
      PROVE  step[Max(s)][f[s \ {Max(s)}]] = ParseNext(f[s \ {Max(s)}], items[Max(s)])
  <2>1. Max(s) \in 1..n BY <1>1, <1>4, MaxOf
  <2> QED BY <1>4, <2>1 DEF ParseSteps
<1>5. h = Body(h)
  <2>1. ASSUME NEW s \in SUBSET (1..n) PROVE h[s] = Body(h)[s]
    <3>1. s \ {Max(s)} \in SUBSET (1..n) OBVIOUS
    <3>2. h[s \ {Max(s)}] \in ParseType BY <1>3, <3>1 DEF Solves
    <3> QED BY <1>1, <1>3, <1>4, <3>2 DEF Solves
  <2> QED BY <1>1, <1>3, <2>1 DEF Solves
<1>6. F = Body(F)
  <2> HIDE DEF Body
  <2> QED BY <1>5
<1>7. Parsed(items) = F[1..n] BY <1>1 DEF Parsed, FoldLeft, MapThenFoldSet
<1>8. F[{}] = NothingParsed BY <1>6
<1>9. ASSUME NEW s \in SUBSET (1..n), s # {}, F[s \ {Max(s)}] \in ParseType
      PROVE  F[s] = step[Max(s)][F[s \ {Max(s)}]]
  <2>1. F[s] = ParseNext(F[s \ {Max(s)}], items[Max(s)]) BY <1>1, <1>6, <1>9
  <2> HIDE DEF F, step
  <2> QED BY <1>4, <1>9, <2>1
<1> HIDE DEF F, step, n
<1>10. Obeys(F, n, ParseType, NothingParsed, step) BY <1>8, <1>9 DEF Obeys
<1>11. \E g : IsRun(g, n, ParseType, NothingParsed, step) /\ g[n] = F[1..n]
  BY <1>1, <1>2, <1>10, ParseTypes, RunOfFold
<1> QED BY <1>7, <1>11 DEF n, step

-----------------------------------------------------------------------------
(***************************************************************************)
(* Sums                                                                    *)
(***************************************************************************)
TotalSteps(numbers) == [k \in 1..Len(numbers) |-> [m \in Nat |-> m + numbers[k]]]

\* A sum runs number by number.
LEMMA TotalRun ==
    ASSUME NEW numbers \in Seq(Nat)
    PROVE  \E g : /\ IsRun(g, Len(numbers), Nat, 0, TotalSteps(numbers))
                  /\ g[Len(numbers)] = Total(numbers)
<1> DEFINE n == Len(numbers)
           step == TotalSteps(numbers)
           Body(f) == [s \in SUBSET DOMAIN numbers |->
                          IF s = {} THEN 0 ELSE f[s \ {Max(s)}] + numbers[Max(s)]]
           F == CHOOSE f : f = Body(f)
<1>1. n \in Nat /\ DOMAIN numbers = 1..n /\ \A k \in 1..n : numbers[k] \in Nat OBVIOUS
<1>2. step \in Steps(n, Nat) BY <1>1 DEF Steps, TotalSteps
<1>3. PICK h : Solves(h, n, Nat, 0, step)
  BY <1>1, <1>2, FoldExists
<1>4. ASSUME NEW s \in SUBSET (1..n), s # {}, NEW f, f[s \ {Max(s)}] \in Nat
      PROVE  step[Max(s)][f[s \ {Max(s)}]] = f[s \ {Max(s)}] + numbers[Max(s)]
  <2>1. Max(s) \in 1..n BY <1>1, <1>4, MaxOf
  <2> QED BY <1>4, <2>1 DEF TotalSteps
<1>5. h = Body(h)
  <2>1. ASSUME NEW s \in SUBSET (1..n) PROVE h[s] = Body(h)[s]
    <3>1. s \ {Max(s)} \in SUBSET (1..n) OBVIOUS
    <3>2. h[s \ {Max(s)}] \in Nat BY <1>3, <3>1 DEF Solves
    <3> QED BY <1>1, <1>3, <1>4, <3>2 DEF Solves
  <2> QED BY <1>1, <1>3, <2>1 DEF Solves
<1>6. F = Body(F)
  <2> HIDE DEF Body
  <2> QED BY <1>5
<1>7. Total(numbers) = F[1..n] BY <1>1 DEF Total, FoldLeft, MapThenFoldSet
<1>8. F[{}] = 0 BY <1>6
<1>9. ASSUME NEW s \in SUBSET (1..n), s # {}, F[s \ {Max(s)}] \in Nat
      PROVE  F[s] = step[Max(s)][F[s \ {Max(s)}]]
  <2>1. F[s] = F[s \ {Max(s)}] + numbers[Max(s)] BY <1>1, <1>6, <1>9
  <2> HIDE DEF F, step
  <2> QED BY <1>4, <1>9, <2>1
<1> HIDE DEF F, step, n
<1>10. Obeys(F, n, Nat, 0, step) BY <1>8, <1>9 DEF Obeys
<1>11. \E g : IsRun(g, n, Nat, 0, step) /\ g[n] = F[1..n]
  <2> DEFINE sums == Nat
             none == 0
  <2>1. none \in sums /\ step \in Steps(n, sums) /\ Obeys(F, n, sums, none, step) BY <1>2, <1>10
  <2> HIDE DEF sums, none
  <2>2. \E g : IsRun(g, n, sums, none, step) /\ g[n] = F[1..n] BY <1>1, <2>1, RunOfFold
  <2> QED BY <2>2 DEF sums, none
<1> QED BY <1>7, <1>11 DEF n, step

\* It grows by the number read.
LEMMA TotalStep ==
    ASSUME NEW numbers \in Seq(Nat), NEW g, IsRun(g, Len(numbers), Nat, 0, TotalSteps(numbers)),
           NEW k \in 1..Len(numbers)
    PROVE  g[k] = g[k - 1] + numbers[k] /\ g[k] \in Nat /\ g[k - 1] \in Nat /\ numbers[k] \in Nat
<1>1. Len(numbers) \in Nat /\ numbers[k] \in Nat OBVIOUS
<1>2. k \in 0..Len(numbers) /\ k - 1 \in 0..Len(numbers) BY <1>1
<1>3. g[k] \in Nat /\ g[k - 1] \in Nat BY <1>2 DEF IsRun
<1>4. g[k] = TotalSteps(numbers)[k][g[k - 1]] BY DEF IsRun
<1> QED BY <1>1, <1>3, <1>4 DEF TotalSteps

\* The same, counted from the number before.
LEMMA TotalNext ==
    ASSUME NEW numbers \in Seq(Nat), NEW g, IsRun(g, Len(numbers), Nat, 0, TotalSteps(numbers)),
           NEW k \in 0..Len(numbers), k + 1 <= Len(numbers)
    PROVE  g[k + 1] = g[k] + numbers[k + 1]
<1>1. Len(numbers) \in Nat OBVIOUS
<1> DEFINE j == k + 1
<1>2. j \in 1..Len(numbers) /\ j - 1 = k BY <1>1
<1>3. g[j] = g[j - 1] + numbers[j]
  <2> HIDE DEF j
  <2> QED BY <1>2, TotalStep
<1> QED BY <1>2, <1>3

\* A number put in anywhere.
LEMMA TotalInsert ==
    ASSUME NEW s \in Seq(Nat), NEW t \in Seq(Nat), NEW x \in Nat, NEW k \in 0..Len(s),
           Len(t) = Len(s) + 1, t[k + 1] = x,
           \A j \in 1..k : t[j] = s[j], \A j \in k+1..Len(s) : t[j + 1] = s[j]
    PROVE  Total(t) = Total(s) + x
<1> DEFINE n == Len(s)
<1>1. PICK g : IsRun(g, Len(s), Nat, 0, TotalSteps(s)) /\ g[Len(s)] = Total(s) BY TotalRun
<1>2. PICK f : IsRun(f, Len(t), Nat, 0, TotalSteps(t)) /\ f[Len(t)] = Total(t) BY TotalRun
<1>3. n \in Nat /\ k \in Nat OBVIOUS
<1> DEFINE T == {j \in 0..n : IF j <= k THEN f[j] = g[j] ELSE f[j + 1] = g[j] + x}
<1>4. 0 \in T BY <1>1, <1>2, <1>3 DEF IsRun
<1>5. f[k] = g[k] => f[k + 1] = g[k] + x
  <2>1. k \in 0..Len(t) /\ k + 1 <= Len(t) BY <1>3
  <2>2. f[k + 1] = f[k] + t[k + 1] BY <1>2, <2>1, TotalNext
  <2> QED BY <2>2
<1>6. ASSUME NEW j \in 1..n, j - 1 \in T PROVE j \in T
  <2>1. g[j] = g[j - 1] + s[j] /\ g[j - 1] \in Nat /\ s[j] \in Nat BY <1>1, <1>6, TotalStep
  <2>2. CASE j <= k
    <3>1. j \in 1..Len(t) BY <1>3
    <3>2. f[j] = f[j - 1] + t[j] BY <1>2, <3>1, TotalStep
    <3>3. t[j] = s[j] BY <2>2
    <3>4. f[j - 1] = g[j - 1] BY <1>6, <2>2
    <3> QED BY <2>1, <2>2, <3>2, <3>3, <3>4
  <2>3. CASE j > k
    <3>1. j \in 0..Len(t) /\ j + 1 <= Len(t) BY <1>3
    <3>2. f[j + 1] = f[j] + t[j + 1] BY <1>2, <3>1, TotalNext
    <3>3. t[j + 1] = s[j] BY <2>3
    <3>4. f[j] = g[j - 1] + x
      <4>1. CASE j - 1 = k BY <1>5, <1>6, <4>1
      <4>2. CASE j - 1 # k BY <1>6, <2>3, <4>2
      <4> QED BY <4>1, <4>2
    <3>5. f[j + 1] = g[j] + x BY <2>1, <3>2, <3>3, <3>4
    <3> QED BY <1>3, <2>3, <3>5
  <2> QED BY <2>2, <2>3
<1>7. n \in T
  <2> HIDE DEF T
  <2>1. \A j \in 0..n : j \in T BY <1>3, <1>4, <1>6, UpTo
  <2> QED BY <1>3, <2>1
<1> QED BY <1>1, <1>2, <1>5, <1>7

\* A sum of numbers is a number.
LEMMA TotalNat == ASSUME NEW s \in Seq(Nat) PROVE Total(s) \in Nat
<1>1. PICK g : IsRun(g, Len(s), Nat, 0, TotalSteps(s)) /\ g[Len(s)] = Total(s) BY TotalRun
<1>2. Len(s) \in 0..Len(s) OBVIOUS
<1> QED BY <1>1, <1>2 DEF IsRun

LEMMA TotalEmpty == Total(<<>>) = 0
<1>1. <<>> \in Seq(Nat) /\ Len(<<>>) = 0 OBVIOUS
<1>2. PICK g : IsRun(g, Len(<<>>), Nat, 0, TotalSteps(<<>>)) /\ g[Len(<<>>)] = Total(<<>>) BY <1>1, TotalRun
<1> QED BY <1>1, <1>2 DEF IsRun

\* A sum only grows.
LEMMA TotalGrows ==
    ASSUME NEW s \in Seq(Nat), NEW g, IsRun(g, Len(s), Nat, 0, TotalSteps(s)), NEW k \in 0..Len(s)
    PROVE  \A i \in 0..k : g[i] <= g[k]
<1> DEFINE n == Len(s)
           T == {j \in 0..n : \A i \in 0..j : g[i] <= g[j]}
<1>1. n \in Nat /\ \A j \in 0..n : g[j] \in Nat BY DEF IsRun
<1>2. 0 \in T BY <1>1
<1>3. ASSUME NEW j \in 1..n, j - 1 \in T PROVE j \in T
  <2>1. g[j] = g[j - 1] + s[j] /\ s[j] \in Nat /\ g[j - 1] \in Nat BY TotalStep
  <2>2. g[j - 1] <= g[j] BY <2>1
  <2>3. ASSUME NEW i \in 0..j PROVE g[i] <= g[j]
    <3>1. CASE i = j BY <1>1, <3>1
    <3>2. CASE i # j
      <4>1. i \in 0..j-1 BY <3>2
      <4>2. g[i] <= g[j - 1] BY <1>3, <4>1
      <4>3. i \in 0..n BY <1>1, <4>1
      <4> QED BY <1>1, <2>1, <2>2, <4>2, <4>3
    <3> QED BY <3>1, <3>2
  <2> QED BY <2>3, <1>1
<1>4. k \in T
  <2> HIDE DEF T
  <2>1. \A j \in 0..n : j \in T BY <1>1, <1>2, <1>3, UpTo
  <2> QED BY <1>1, <2>1
<1> QED BY <1>4

\* What has been summed up is no more than the whole.
LEMMA TotalSoFar ==
    ASSUME NEW s \in Seq(Nat), NEW g, IsRun(g, Len(s), Nat, 0, TotalSteps(s)), NEW k \in 0..Len(s)
    PROVE  g[k] <= g[Len(s)]
<1>1. Len(s) \in 0..Len(s) OBVIOUS
<1> QED BY <1>1, TotalGrows

Lengths(desc) == [p \in DOMAIN desc |-> desc[p].len]

\* The bytes of a descriptor are the sum of its items' lengths.
LEMMA LengthsType ==
    ASSUME NEW desc \in Seq(Item)
    PROVE  Lengths(desc) \in Seq(Nat) /\ Len(Lengths(desc)) = Len(desc) /\ Bytes(desc) = Total(Lengths(desc))
<1>1. DOMAIN desc = 1..Len(desc) /\ Len(desc) \in Nat OBVIOUS
<1>2. \A p \in 1..Len(desc) : desc[p].len \in Nat BY DEF Item
<1>3. Lengths(desc) \in [1..Len(desc) -> Nat] BY <1>1, <1>2 DEF Lengths
<1>4. Lengths(desc) \in Seq(Nat) BY <1>1, <1>3, IsASeq
<1>5. Len(Lengths(desc)) = Len(desc) BY <1>1, <1>3, <1>4
<1> QED BY <1>4, <1>5 DEF Bytes, Lengths

LEMMA BytesNat == ASSUME NEW desc \in Seq(Item) PROVE Bytes(desc) \in Nat
BY LengthsType, TotalNat

LEMMA BytesEmpty == Bytes(<<>>) = 0
<1>1. <<>> \in Seq(Item) OBVIOUS
<1>2. Lengths(<<>>) = <<>> BY DEF Lengths
<1> QED BY <1>1, <1>2, LengthsType, TotalEmpty

\* Items t hold one more than s, anywhere.
LEMMA BytesInsert ==
    ASSUME NEW s \in Seq(Item), NEW t \in Seq(Item), NEW item \in Item, NEW k \in 0..Len(s),
           Len(t) = Len(s) + 1, t[k + 1] = item,
           \A j \in 1..k : t[j] = s[j], \A j \in k+1..Len(s) : t[j + 1] = s[j]
    PROVE  Bytes(t) = Bytes(s) + item.len
<1>1. Lengths(s) \in Seq(Nat) /\ Len(Lengths(s)) = Len(s) /\ Bytes(s) = Total(Lengths(s)) BY LengthsType
<1>2. Lengths(t) \in Seq(Nat) /\ Len(Lengths(t)) = Len(t) /\ Bytes(t) = Total(Lengths(t)) BY LengthsType
<1>3. item.len \in Nat BY DEF Item
<1>4. Len(s) \in Nat /\ DOMAIN s = 1..Len(s) /\ DOMAIN t = 1..Len(s)+1 OBVIOUS
<1>5. Lengths(t)[k + 1] = item.len
  <2>1. k + 1 \in 1..Len(s)+1 BY <1>4
  <2> QED BY <1>4, <2>1 DEF Lengths
<1>6. \A j \in 1..k : Lengths(t)[j] = Lengths(s)[j]
  <2> TAKE j \in 1..k
  <2>1. j \in 1..Len(s) /\ j \in 1..Len(s)+1 BY <1>4
  <2> QED BY <1>4, <2>1 DEF Lengths
<1>7. \A j \in k+1..Len(s) : Lengths(t)[j + 1] = Lengths(s)[j]
  <2> TAKE j \in k+1..Len(s)
  <2>1. j \in 1..Len(s) /\ j + 1 \in 1..Len(s)+1 BY <1>4
  <2> QED BY <1>4, <2>1 DEF Lengths
<1> DEFINE a == Lengths(s)
           b == Lengths(t)
<1>8. /\ k \in 0..Len(a) /\ Len(b) = Len(a) + 1 /\ b[k + 1] = item.len
      /\ \A j \in 1..k : b[j] = a[j]
      /\ \A j \in k+1..Len(a) : b[j + 1] = a[j]
  BY <1>1, <1>2, <1>5, <1>6, <1>7
<1>9. a \in Seq(Nat) /\ b \in Seq(Nat) BY <1>1, <1>2
<1>10. Total(b) = Total(a) + item.len
  <2> HIDE DEF a, b
  <2> QED BY <1>3, <1>8, <1>9, TotalInsert
<1> QED BY <1>1, <1>2, <1>10

\* One more item adds its length.
LEMMA BytesAppend ==
    ASSUME NEW s \in Seq(Item), NEW item \in Item
    PROVE  Append(s, item) \in Seq(Item) /\ Bytes(Append(s, item)) = Bytes(s) + item.len
<1> DEFINE t == Append(s, item)
           k == Len(s)
<1>1. t \in Seq(Item) /\ Len(t) = Len(s) + 1 /\ t[k + 1] = item /\ \A j \in 1..k : t[j] = s[j]
  BY AppendProperties
<1>2. k \in 0..Len(s) /\ \A j \in k+1..Len(s) : t[j + 1] = s[j] OBVIOUS
<1> HIDE DEF t, k
<1>3. Bytes(t) = Bytes(s) + item.len BY <1>1, <1>2, BytesInsert
<1> QED BY <1>1, <1>3 DEF t

-----------------------------------------------------------------------------
(***************************************************************************)
(* Merging: types and lengths                                              *)
(***************************************************************************)
AssignedIds == [has_report_id : BOOLEAN, single_assigned_report_id : 0..IdMod-1, report_id_offset : 0..IdMod-1]
Combined == {comb \in [items : Seq(Item), bytes : 0..DescMax] : comb.bytes = Bytes(comb.items)}
MergedType == [next_report_id : 0..IdMod-1, itfs : Seq(AssignedIds), combined : Combined]

\* combined_desc_len stays the length of what the buffer holds, and within it.
LEMMA PutType ==
    ASSUME NEW comb \in Combined, NEW item \in Item
    PROVE  Put(comb, item) \in Combined
<1>1. comb.items \in Seq(Item) /\ comb.bytes \in 0..DescMax /\ comb.bytes = Bytes(comb.items)
      /\ comb = [items |-> comb.items, bytes |-> comb.bytes]
  BY DEF Combined
<1>2. item.len \in Nat /\ DescMax \in Nat BY DescriptorAssumption DEF Item
<1>3. Append(comb.items, item) \in Seq(Item) /\ Bytes(Append(comb.items, item)) = Bytes(comb.items) + item.len
  BY <1>1, BytesAppend
<1>4. CASE Fits(comb, item.len)
  <2>1. comb.bytes + item.len \in 0..DescMax BY <1>1, <1>2, <1>4 DEF Fits
  <2>2. Put(comb, item) = [items |-> Append(comb.items, item), bytes |-> comb.bytes + item.len]
    BY <1>1, <1>4 DEF Put
  <2> DEFINE items == Append(comb.items, item)
             bytes == comb.bytes + item.len
  <2>3. items \in Seq(Item) /\ bytes \in 0..DescMax /\ bytes = Bytes(items) BY <1>1, <1>3, <2>1
  <2>4. Put(comb, item) = [items |-> items, bytes |-> bytes] BY <2>2
  <2> HIDE DEF items, bytes
  <2> QED BY <2>3, <2>4 DEF Combined
<1>5. CASE ~Fits(comb, item.len) BY <1>5 DEF Put
<1> QED BY <1>4, <1>5

\* What is put into the combined descriptor are items.
LEMMA ItemTypes ==
    ASSUME NEW item \in Item, NEW from \in Nat
    PROVE  /\ [item EXCEPT !.from = from] \in Item
           /\ \A id \in 0..IdMod-1 : ReportIdItem(id, from) \in Item
           /\ \A offset \in Nat : Shifted(item, offset, from) \in Item
<1>1. [item EXCEPT !.from = from] \in Item BY DEF Item
<1>2. \A id \in 0..IdMod-1 : ReportIdItem(id, from) \in Item BY DEF Item, ReportIdItem
<1>3. ASSUME NEW offset \in Nat PROVE Shifted(item, offset, from) \in Item
  <2>1. CASE item.kind = "id"
    <3>1. (item.id + offset) % IdMod \in 0..IdMod-1 BY DescriptorAssumption DEF Item
    <3> QED BY <1>2, <2>1, <3>1 DEF Shifted
  <2>2. CASE item.kind = "idcut"
    <3>2. item.len \in Nat /\ item.len >= 2 /\ 0 \in 0..IdMod-1 BY <2>2, DescriptorAssumption DEF Item
    <3> DEFINE cut == [item EXCEPT !.kind = "id", !.id = 0, !.from = from]
               Kinds == {"id", "noid", "idcut", "collection", "other"} \cup ReportType
    <3>3. item \in [kind : Kinds, id : 0..IdMod-1, len : Nat, from : Nat] BY DEF Item
    <3>4. "id" \in Kinds OBVIOUS
    <3> HIDE DEF Kinds
    <3>5. cut \in [kind : Kinds, id : 0..IdMod-1, len : Nat, from : Nat] BY <3>2, <3>3, <3>4
    <3>6. cut.len = item.len BY <3>3
    <3>1. cut \in Item BY <3>2, <3>5, <3>6 DEF Item, Kinds
    <3> QED BY <2>2, <3>1 DEF Shifted
  <2>3. CASE item.kind # "id" /\ item.kind # "idcut" BY <1>1, <2>3 DEF Shifted
  <2> QED BY <2>1, <2>2, <2>3
<1> QED BY <1>1, <1>2, <1>3

\* With Report IDs
ShiftSteps(desc, offset, from) ==
    [k \in 1..Len(desc) |-> [comb \in Combined |-> Put(comb, Shifted(desc[k], offset, from))]]

LEMMA ShiftTypes ==
    ASSUME NEW desc \in Seq(Item), NEW offset \in Nat, NEW from \in Nat
    PROVE  \A comb \in Combined, k \in 1..Len(desc) : Put(comb, Shifted(desc[k], offset, from)) \in Combined
<1> SUFFICES ASSUME NEW comb \in Combined, NEW k \in 1..Len(desc)
             PROVE  Put(comb, Shifted(desc[k], offset, from)) \in Combined
  OBVIOUS
<1>1. desc[k] \in Item OBVIOUS
<1> QED BY <1>1, ItemTypes, PutType

\* The loop over the items of an interface with Report IDs.
LEMMA ShiftRun ==
    ASSUME NEW comb \in Combined, NEW desc \in Seq(Item), NEW offset \in Nat, NEW from \in Nat
    PROVE  \E g : /\ IsRun(g, Len(desc), Combined, comb, ShiftSteps(desc, offset, from))
                  /\ g[Len(desc)] = MergeWithIds(comb, desc, offset, from)
<1> DEFINE n == Len(desc)
           step == ShiftSteps(desc, offset, from)
           Body(f) == [s \in SUBSET DOMAIN desc |->
                          IF s = {} THEN comb ELSE Put(f[s \ {Max(s)}], Shifted(desc[Max(s)], offset, from))]
           F == CHOOSE f : f = Body(f)
<1>1. n \in Nat /\ DOMAIN desc = 1..n /\ \A k \in 1..n : desc[k] \in Item OBVIOUS
<1>2. step \in Steps(n, Combined) BY <1>1, ShiftTypes DEF Steps, ShiftSteps
<1>0. comb \in Combined OBVIOUS
<1>3. PICK h : Solves(h, n, Combined, comb, step)
  <2> HIDE DEF n, step
  <2> QED BY <1>0, <1>1, <1>2, FoldExists
<1>4. ASSUME NEW s \in SUBSET (1..n), s # {}, NEW f, f[s \ {Max(s)}] \in Combined
      PROVE  step[Max(s)][f[s \ {Max(s)}]] = Put(f[s \ {Max(s)}], Shifted(desc[Max(s)], offset, from))
  <2>1. Max(s) \in 1..n BY <1>1, <1>4, MaxOf
  <2> QED BY <1>4, <2>1 DEF ShiftSteps
<1>5. h = Body(h)
  <2>1. ASSUME NEW s \in SUBSET (1..n) PROVE h[s] = Body(h)[s]
    <3>1. s \ {Max(s)} \in SUBSET (1..n) OBVIOUS
    <3>2. h[s \ {Max(s)}] \in Combined BY <1>3, <3>1 DEF Solves
    <3> QED BY <1>1, <1>3, <1>4, <3>2 DEF Solves
  <2> QED BY <1>1, <1>3, <2>1 DEF Solves
<1>6. F = Body(F)
  <2> HIDE DEF Body
  <2> QED BY <1>5
<1>7. MergeWithIds(comb, desc, offset, from) = F[1..n] BY <1>1 DEF MergeWithIds, FoldLeft, MapThenFoldSet
<1>8. F[{}] = comb BY <1>6
<1>9. ASSUME NEW s \in SUBSET (1..n), s # {}, F[s \ {Max(s)}] \in Combined
      PROVE  F[s] = step[Max(s)][F[s \ {Max(s)}]]
  <2>1. F[s] = Put(F[s \ {Max(s)}], Shifted(desc[Max(s)], offset, from)) BY <1>1, <1>6, <1>9
  <2> HIDE DEF F, step
  <2> QED BY <1>4, <1>9, <2>1
<1> HIDE DEF F, step, n
<1>10. Obeys(F, n, Combined, comb, step) BY <1>8, <1>9 DEF Obeys
<1>11. \E g : IsRun(g, n, Combined, comb, step) /\ g[n] = F[1..n]
  BY <1>0, <1>1, <1>2, <1>10, RunOfFold
<1> QED BY <1>7, <1>11 DEF n, step


\* Without Report IDs
Copy == [inserted : BOOLEAN, comb : Combined]
CopySteps(desc, id, from) == [k \in 1..Len(desc) |-> [copy \in Copy |-> CopyItem(copy, desc[k], id, from)]]

LEMMA CopyTypes ==
    ASSUME NEW desc \in Seq(Item), NEW id \in 0..IdMod-1, NEW from \in Nat
    PROVE  \A copy \in Copy, k \in 1..Len(desc) : CopyItem(copy, desc[k], id, from) \in Copy
<1> SUFFICES ASSUME NEW copy \in Copy, NEW k \in 1..Len(desc)
             PROVE  CopyItem(copy, desc[k], id, from) \in Copy
  OBVIOUS
<1>1. desc[k] \in Item OBVIOUS
<1> DEFINE comb == Put(copy.comb, [desc[k] EXCEPT !.from = from])
<1>2. copy.comb \in Combined /\ copy.inserted \in BOOLEAN /\ copy = [inserted |-> copy.inserted, comb |-> copy.comb]
  BY DEF Copy
<1>3. [desc[k] EXCEPT !.from = from] \in Item /\ ReportIdItem(id, from) \in Item BY <1>1, ItemTypes
<1>4. comb \in Combined BY <1>2, <1>3, PutType
<1>5. Put(comb, ReportIdItem(id, from)) \in Combined
  <2> HIDE DEF comb
  <2> QED BY <1>3, <1>4, PutType
<1>6. [copy EXCEPT !.comb = comb] = [inserted |-> copy.inserted, comb |-> comb] BY <1>2
<1>7. CopyItem(copy, desc[k], id, from) \in {[copy EXCEPT !.comb = comb],
          [inserted |-> TRUE, comb |-> Put(comb, ReportIdItem(id, from))]}
  BY DEF CopyItem
<1> HIDE DEF comb
<1>8. [inserted |-> copy.inserted, comb |-> comb] \in Copy BY <1>2, <1>4 DEF Copy
<1>9. [inserted |-> TRUE, comb |-> Put(comb, ReportIdItem(id, from))] \in Copy BY <1>5 DEF Copy
<1> QED BY <1>6, <1>7, <1>8, <1>9

\* The loop over the items of an interface without.
LEMMA CopyRun ==
    ASSUME NEW comb \in Combined, NEW desc \in Seq(Item), NEW id \in 0..IdMod-1, NEW from \in Nat
    PROVE  \E g : /\ IsRun(g, Len(desc), Copy, [comb |-> comb, inserted |-> FALSE], CopySteps(desc, id, from))
                  /\ g[Len(desc)] = CopyWithoutIds(comb, desc, id, from)
<1> DEFINE n == Len(desc)
           step == CopySteps(desc, id, from)
           Body(f) == [s \in SUBSET DOMAIN desc |->
                          IF s = {} THEN [comb |-> comb, inserted |-> FALSE] ELSE CopyItem(f[s \ {Max(s)}], desc[Max(s)], id, from)]
           F == CHOOSE f : f = Body(f)
<1>1. n \in Nat /\ DOMAIN desc = 1..n /\ \A k \in 1..n : desc[k] \in Item OBVIOUS
<1>2. step \in Steps(n, Copy) BY <1>1, CopyTypes DEF Steps, CopySteps
<1>0. [comb |-> comb, inserted |-> FALSE] \in Copy BY DEF Copy
<1>3. PICK h : Solves(h, n, Copy, [comb |-> comb, inserted |-> FALSE], step)
  <2> HIDE DEF n, step
  <2> QED BY <1>0, <1>1, <1>2, FoldExists
<1>4. ASSUME NEW s \in SUBSET (1..n), s # {}, NEW f, f[s \ {Max(s)}] \in Copy
      PROVE  step[Max(s)][f[s \ {Max(s)}]] = CopyItem(f[s \ {Max(s)}], desc[Max(s)], id, from)
  <2>1. Max(s) \in 1..n BY <1>1, <1>4, MaxOf
  <2> QED BY <1>4, <2>1 DEF CopySteps
<1>5. h = Body(h)
  <2>1. ASSUME NEW s \in SUBSET (1..n) PROVE h[s] = Body(h)[s]
    <3>1. s \ {Max(s)} \in SUBSET (1..n) OBVIOUS
    <3>2. h[s \ {Max(s)}] \in Copy BY <1>3, <3>1 DEF Solves
    <3> QED BY <1>1, <1>3, <1>4, <3>2 DEF Solves
  <2> QED BY <1>1, <1>3, <2>1 DEF Solves
<1>6. F = Body(F)
  <2> HIDE DEF Body
  <2> QED BY <1>5
<1>7. CopyWithoutIds(comb, desc, id, from) = F[1..n] BY <1>1 DEF CopyWithoutIds, FoldLeft, MapThenFoldSet
<1>8. F[{}] = [comb |-> comb, inserted |-> FALSE] BY <1>6
<1>9. ASSUME NEW s \in SUBSET (1..n), s # {}, F[s \ {Max(s)}] \in Copy
      PROVE  F[s] = step[Max(s)][F[s \ {Max(s)}]]
  <2>1. F[s] = CopyItem(F[s \ {Max(s)}], desc[Max(s)], id, from) BY <1>1, <1>6, <1>9
  <2> HIDE DEF F, step
  <2> QED BY <1>4, <1>9, <2>1
<1> HIDE DEF F, step, n
<1>10. Obeys(F, n, Copy, [comb |-> comb, inserted |-> FALSE], step) BY <1>8, <1>9 DEF Obeys
<1>11. \E g : IsRun(g, n, Copy, [comb |-> comb, inserted |-> FALSE], step) /\ g[n] = F[1..n]
  BY <1>0, <1>1, <1>2, <1>10, RunOfFold
<1> QED BY <1>7, <1>11 DEF n, step

\* Inserting moves what lies behind by one.
LEMMA InsertAtPointwise ==
    ASSUME NEW s \in Seq(Item), NEW k \in 0..Len(s), NEW item \in Item
    PROVE  LET t == InsertAt(s, k + 1, item)
           IN  /\ t \in Seq(Item) /\ Len(t) = Len(s) + 1 /\ t[k + 1] = item
               /\ \A j \in 1..k : t[j] = s[j]
               /\ \A j \in k+1..Len(s) : t[j + 1] = s[j]
<1> DEFINE a == SubSeq(s, 1, k)
           b == SubSeq(s, k + 1, Len(s))
           c == a \o <<item>>
<1>1. Len(s) \in Nat /\ k \in Nat OBVIOUS
<1>2. a \in Seq(Item) /\ Len(a) = k /\ \A j \in 1..k : a[j] = s[j]
  <2>1. \A j \in 1..k : j \in 1..Len(s) OBVIOUS
  <2> QED BY <1>1, <2>1, SubSeqProperties
<1>3. b \in Seq(Item) /\ Len(b) = Len(s) - k /\ \A j \in 1..Len(s)-k : b[j] = s[k + j]
  <2>1. \A j \in k+1..Len(s) : j \in 1..Len(s) OBVIOUS
  <2> QED BY <1>1, <2>1, SubSeqProperties
<1>4. <<item>> \in Seq(Item) /\ Len(<<item>>) = 1 /\ <<item>>[1] = item OBVIOUS
<1> HIDE DEF a, b
<1>5. c \in Seq(Item) /\ Len(c) = k + 1 /\ c[k + 1] = item /\ \A j \in 1..k : c[j] = s[j]
  BY <1>1, <1>2, <1>4, ConcatProperties
<1> HIDE DEF c
<1>6. /\ c \o b \in Seq(Item) /\ Len(c \o b) = Len(s) + 1
      /\ \A j \in 1..k+1 : (c \o b)[j] = c[j]
      /\ \A j \in k+2..Len(s)+1 : (c \o b)[j] = b[j - (k + 1)]
  BY <1>1, <1>3, <1>5, ConcatProperties
<1>7. InsertAt(s, k + 1, item) = c \o b
  <2> DEFINE r == k + 1
  <2>1. r - 1 = k OBVIOUS
  <2> HIDE DEF r
  <2>2. InsertAt(s, r, item) = SubSeq(s, 1, r - 1) \o <<item>> \o SubSeq(s, r, Len(s)) BY DEF InsertAt
  <2>3. InsertAt(s, r, item) = SubSeq(s, 1, k) \o <<item>> \o SubSeq(s, r, Len(s)) BY <2>1, <2>2
  <2> QED BY <2>3 DEF a, b, c, r
<1>8. \A j \in k+1..Len(s) : (c \o b)[j + 1] = s[j]
  <2> TAKE j \in k+1..Len(s)
  <2>1. j + 1 \in k+2..Len(s)+1 /\ j - k \in 1..Len(s)-k BY <1>1
  <2>2. (c \o b)[j + 1] = b[j + 1 - (k + 1)] BY <1>6, <2>1
  <2>3. j + 1 - (k + 1) = j - k BY <1>1
  <2>4. b[j - k] = s[k + (j - k)] BY <1>3, <2>1
  <2>5. k + (j - k) = j BY <1>1
  <2> QED BY <2>2, <2>3, <2>4, <2>5
<1>9. k + 1 \in 1..k+1 /\ \A j \in 1..k : j \in 1..k+1 BY <1>1
<1> HIDE DEF c
<1> QED BY <1>5, <1>6, <1>7, <1>8, <1>9

\* Copying never shortens what is there.
LEMMA PutLength ==
    ASSUME NEW comb \in Combined, NEW item \in Item
    PROVE  Len(comb.items) <= Len(Put(comb, item).items) /\ Len(comb.items) \in Nat
<1>1. comb.items \in Seq(Item) /\ comb = [items |-> comb.items, bytes |-> comb.bytes] BY DEF Combined
<1>2. Len(Append(comb.items, item)) = Len(comb.items) + 1 /\ Len(comb.items) \in Nat BY <1>1, AppendProperties
<1>3. Put(comb, item).items \in {Append(comb.items, item), comb.items} BY <1>1 DEF Put
<1> QED BY <1>2, <1>3

LEMMA CopyItemLength ==
    ASSUME NEW copy \in Copy, NEW item \in Item, NEW id \in 0..IdMod-1, NEW from \in Nat
    PROVE  Len(copy.comb.items) <= Len(CopyItem(copy, item, id, from).comb.items)
<1> DEFINE comb == Put(copy.comb, [item EXCEPT !.from = from])
           more == Put(comb, ReportIdItem(id, from))
<1>1. copy.comb \in Combined /\ copy = [inserted |-> copy.inserted, comb |-> copy.comb] BY DEF Copy
<1>2. [item EXCEPT !.from = from] \in Item /\ ReportIdItem(id, from) \in Item BY ItemTypes
<1>3. comb \in Combined /\ Len(copy.comb.items) <= Len(comb.items) /\ Len(copy.comb.items) \in Nat
  BY <1>1, <1>2, PutType, PutLength
<1>4. CopyItem(copy, item, id, from).comb \in {comb, more}
  <2>1. [copy EXCEPT !.comb = comb].comb = comb BY <1>1
  <2>2. CopyItem(copy, item, id, from) \in {[copy EXCEPT !.comb = comb], [inserted |-> TRUE, comb |-> more]}
    BY DEF CopyItem
  <2>3. [inserted |-> TRUE, comb |-> more].comb = more OBVIOUS
  <2> HIDE DEF comb, more
  <2> QED BY <2>1, <2>2, <2>3
<1> HIDE DEF comb
<1>5. Len(comb.items) <= Len(more.items) /\ Len(comb.items) \in Nat BY <1>2, <1>3, PutLength
<1>6. more \in Combined BY <1>2, <1>3, PutType
<1>7. Len(more.items) \in Nat BY <1>6 DEF Combined
<1> HIDE DEF more
<1> QED BY <1>3, <1>4, <1>5, <1>7

\* Copying an interface never shortens the combined descriptor.
LEMMA CopyLength ==
    ASSUME NEW comb \in Combined, NEW desc \in Seq(Item), NEW id \in 0..IdMod-1, NEW from \in Nat
    PROVE  Len(comb.items) <= Len(CopyWithoutIds(comb, desc, id, from).comb.items)
<1> DEFINE n == Len(desc)
<1>1. PICK g : /\ IsRun(g, Len(desc), Copy, [comb |-> comb, inserted |-> FALSE], CopySteps(desc, id, from))
               /\ g[Len(desc)] = CopyWithoutIds(comb, desc, id, from)
  BY CopyRun
<1> DEFINE T == {k \in 0..n : Len(comb.items) <= Len(g[k].comb.items)}
<1>2. n \in Nat /\ Len(comb.items) \in Nat BY DEF Combined
<1>3. 0 \in T BY <1>1, <1>2 DEF IsRun
<1>4. ASSUME NEW k \in 1..n, k - 1 \in T PROVE k \in T
  <2>1. k - 1 \in 0..n /\ k \in 0..n BY <1>2
  <2>2. g[k - 1] \in Copy /\ g[k] \in Copy BY <1>1, <2>1 DEF IsRun
  <2>3. g[k] = CopySteps(desc, id, from)[k][g[k - 1]] BY <1>1 DEF IsRun
  <2>4. g[k] = CopyItem(g[k - 1], desc[k], id, from) BY <2>2, <2>3 DEF CopySteps
  <2>5. Len(g[k - 1].comb.items) <= Len(g[k].comb.items) BY <2>2, <2>4, CopyItemLength
  <2>6. Len(g[k - 1].comb.items) \in Nat /\ Len(g[k].comb.items) \in Nat BY <2>2 DEF Copy, Combined
  <2>7. Len(comb.items) <= Len(g[k - 1].comb.items) BY <1>4
  <2>8. Len(comb.items) <= Len(g[k].comb.items)
    <3> DEFINE a == Len(comb.items)
               b == Len(g[k - 1].comb.items)
               c == Len(g[k].comb.items)
    <3>1. a \in Nat /\ b \in Nat /\ c \in Nat /\ a <= b /\ b <= c BY <1>2, <2>5, <2>6, <2>7
    <3> HIDE DEF a, b, c
    <3>2. a <= c BY <3>1
    <3> QED BY <3>2 DEF a, c
  <2> QED BY <2>1, <2>8
<1>5. n \in T
  <2> HIDE DEF T
  <2>1. \A k \in 0..n : k \in T BY <1>2, <1>3, <1>4, UpTo
  <2> QED BY <1>2, <2>1
<1> QED BY <1>1, <1>5

\* Whatever is merged, buffer and length agree.
LEMMA MergeDescriptorType ==
    ASSUME NEW comb \in Combined, NEW desc \in Seq(Item), NEW itf \in AssignedIds, NEW from \in Nat
    PROVE  MergeDescriptor(comb, desc, itf, from) \in Combined
<1>0. itf.has_report_id \in BOOLEAN /\ itf.single_assigned_report_id \in 0..IdMod-1
      /\ itf.report_id_offset \in Nat /\ Len(desc) \in 0..Len(desc)
  BY DescriptorAssumption DEF AssignedIds
<1>1. CASE itf.has_report_id
  <2> DEFINE offset == itf.report_id_offset
  <2>1. offset \in Nat BY <1>0
  <2> HIDE DEF offset
  <2>2. PICK g : /\ IsRun(g, Len(desc), Combined, comb, ShiftSteps(desc, offset, from))
                 /\ g[Len(desc)] = MergeWithIds(comb, desc, offset, from)
    BY <2>1, ShiftRun
  <2>3. MergeWithIds(comb, desc, offset, from) \in Combined BY <1>0, <2>2 DEF IsRun
  <2> QED BY <1>1, <2>3 DEF MergeDescriptor, offset
<1>2. CASE ~itf.has_report_id
  <2> DEFINE id == itf.single_assigned_report_id
  <2>1. id \in 0..IdMod-1 BY <1>0
  <2> HIDE DEF id
  <2> DEFINE copied == CopyWithoutIds(comb, desc, id, from)
  <2>2. PICK g : /\ IsRun(g, Len(desc), Copy, [comb |-> comb, inserted |-> FALSE], CopySteps(desc, id, from))
                 /\ g[Len(desc)] = copied
    BY <2>1, CopyRun
  <2>3. copied \in Copy BY <1>0, <2>2 DEF IsRun
  <2> HIDE DEF copied
  <2>4. copied.comb.items \in Seq(Item) /\ copied.comb.bytes = Bytes(copied.comb.items)
        /\ copied.comb.bytes \in 0..DescMax /\ copied.comb \in Combined
    BY <2>3 DEF Copy, Combined
  <2>5. ASSUME ~copied.inserted, Fits(copied.comb, 2), Len(comb.items) <= Len(copied.comb.items)
        PROVE  [items |-> InsertAt(copied.comb.items, Len(comb.items) + 1, ReportIdItem(id, from)),
                bytes |-> copied.comb.bytes + 2] \in Combined
    <3> DEFINE s == copied.comb.items
               k == Len(comb.items)
               item == ReportIdItem(id, from)
               t == InsertAt(s, k + 1, item)
    <3>1. s \in Seq(Item) /\ k \in 0..Len(s) BY <2>4, <2>5 DEF Combined
    <3>2. item \in Item /\ item.len = 2 BY <2>1 DEF Item, ReportIdItem
    <3>3. Bytes(s) = copied.comb.bytes BY <2>4
    <3> HIDE DEF s, k, item
    <3>4. /\ t \in Seq(Item) /\ Len(t) = Len(s) + 1 /\ t[k + 1] = item
          /\ \A j \in 1..k : t[j] = s[j]
          /\ \A j \in k+1..Len(s) : t[j + 1] = s[j]
      BY <3>1, <3>2, InsertAtPointwise
    <3> HIDE DEF t
    <3>5. Bytes(t) = Bytes(s) + 2 BY <3>1, <3>2, <3>4, BytesInsert
    <3>6. copied.comb.bytes + 2 \in 0..DescMax
      <4>1. DescMax \in Nat BY DescriptorAssumption
      <4> QED BY <2>4, <2>5, <4>1 DEF Fits
    <3> DEFINE bytes == copied.comb.bytes + 2
    <3>7. bytes \in 0..DescMax /\ bytes = Bytes(t) BY <3>3, <3>5, <3>6
    <3> HIDE DEF bytes
    <3>8. [items |-> t, bytes |-> bytes] \in Combined BY <3>4, <3>7 DEF Combined
    <3> QED BY <3>8 DEF s, k, item, t, bytes
  <2>6. Len(comb.items) <= Len(copied.comb.items)
    BY <2>1, CopyLength DEF copied
  <2>7. MergeWithoutIds(comb, desc, id, from) \in Combined BY <2>4, <2>5, <2>6 DEF MergeWithoutIds, copied
  <2> QED BY <1>2, <2>7 DEF MergeDescriptor, id
<1> QED BY <1>0, <1>1, <1>2

\* The largest id a descriptor holds, and how many it uses up.
LEMMA MaxIdProperties ==
    ASSUME NEW desc \in Seq(Item)
    PROVE  /\ MaxId(desc) \in 0..IdMod-1
           /\ \A id \in IdsIn(desc) : id \in 0..IdMod-1 /\ id <= MaxId(desc)
           /\ IdsUsed(desc) \in 1..IdMod-1
<1>1. IdMod \in Nat /\ IdMod > 1 /\ IdMod - 1 \in Nat /\ 0 \in 0..IdMod-1 BY DescriptorAssumption
<1>2. IdsIn(desc) \in SUBSET (0..IdMod-1)
  <2>1. \A p \in DOMAIN desc : desc[p].id \in 0..IdMod-1 BY DEF Item
  <2> QED BY <2>1 DEF IdsIn, Positions
<1>3. CASE IdsIn(desc) = {}
  <2>1. MaxId(desc) = 0 BY <1>3 DEF MaxId
  <2> QED BY <1>1, <1>3, <2>1 DEF IdsUsed
<1>4. CASE IdsIn(desc) # {}
  <2>1. \E m \in IdsIn(desc) : \A x \in IdsIn(desc) : x <= m BY <1>1, <1>2, <1>4, Greatest
  <2>2. MaxId(desc) \in IdsIn(desc) /\ \A x \in IdsIn(desc) : x <= MaxId(desc) BY <1>4, <2>1 DEF MaxId
  <2>3. MaxId(desc) \in 0..IdMod-1 /\ \A x \in IdsIn(desc) : x \in 0..IdMod-1 BY <1>2, <2>2
  <2>4. IdsUsed(desc) \in 1..IdMod-1 BY <1>1, <2>3 DEF IdsUsed
  <2> QED BY <2>2, <2>3, <2>4
<1> QED BY <1>3, <1>4

\* The ids given to an interface are bytes.
LEMMA AssignedType ==
    ASSUME NEW desc \in Seq(Item), NEW next \in 0..IdMod-1
    PROVE  Assigned(desc, next) \in AssignedIds
<1>1. IdMod \in Nat /\ IdMod > 1 BY DescriptorAssumption
<1>2. ReportIdOffset(next) \in 0..IdMod-1 BY <1>1 DEF ReportIdOffset
<1>3. HasReportId(desc) \in BOOLEAN BY DEF HasReportId
<1> QED BY <1>1, <1>2, <1>3 DEF Assigned, AssignedIds

\* The loop over the interfaces
Descs == Seq(Seq(Item))
MergeSteps(descs) == [k \in 1..Len(descs) |-> [merged \in MergedType |-> MergeNext(merged, descs[k])]]

\* The state of the loop over the interfaces keeps its type.
LEMMA MergeTypes ==
    /\ NothingMerged \in MergedType
    /\ \A merged \in MergedType, desc \in Seq(Item) : MergeNext(merged, desc) \in MergedType
<1>0. IdMod \in Nat /\ IdMod > 1 /\ DescMax \in Nat BY DescriptorAssumption
<1>1. NothingMerged \in MergedType
  <2>1. [items |-> <<>>, bytes |-> 0] \in Combined BY <1>0, BytesEmpty DEF Combined
  <2> QED BY <1>0, <2>1 DEF NothingMerged, MergedType
<1>2. ASSUME NEW merged \in MergedType, NEW desc \in Seq(Item) PROVE MergeNext(merged, desc) \in MergedType
  <2> DEFINE itf == Assigned(desc, merged.next_report_id)
             from == Len(merged.itfs) + 1
             next == (merged.next_report_id + IdsUsed(desc)) % IdMod
             comb == MergeDescriptor(merged.combined, desc, itf, from)
  <2>1. merged.next_report_id \in 0..IdMod-1 /\ merged.itfs \in Seq(AssignedIds) /\ merged.combined \in Combined
    BY DEF MergedType
  <2>2. itf \in AssignedIds BY <2>1, AssignedType
  <2>3. from \in Nat BY <2>1
  <2>4. next \in 0..IdMod-1
    <3>1. IdsUsed(desc) \in 1..IdMod-1 BY MaxIdProperties
    <3> QED BY <1>0, <2>1, <3>1
  <2>5. Append(merged.itfs, itf) \in Seq(AssignedIds) BY <2>1, <2>2, AppendProperties
  <2> HIDE DEF itf, from, next
  <2>6. comb \in Combined BY <2>1, <2>2, <2>3, MergeDescriptorType
  <2>7. MergeNext(merged, desc) = [itfs |-> Append(merged.itfs, itf), combined |-> comb, next_report_id |-> next]
    BY DEF MergeNext, itf, from, next
  <2> HIDE DEF comb
  <2> QED BY <2>4, <2>5, <2>6, <2>7 DEF MergedType
<1> QED BY <1>1, <1>2

\* The loop over the interfaces runs one by one.
LEMMA MergeRun ==
    ASSUME NEW descs \in Descs
    PROVE  \E g : /\ IsRun(g, Len(descs), MergedType, NothingMerged, MergeSteps(descs))
                  /\ g[Len(descs)] = MergeAll(descs)
<1> DEFINE n == Len(descs)
           step == MergeSteps(descs)
           Body(f) == [s \in SUBSET DOMAIN descs |->
                          IF s = {} THEN NothingMerged ELSE MergeNext(f[s \ {Max(s)}], descs[Max(s)])]
           F == CHOOSE f : f = Body(f)
<1>1. n \in Nat /\ DOMAIN descs = 1..n /\ \A k \in 1..n : descs[k] \in Seq(Item) BY DEF Descs
<1>2. step \in Steps(n, MergedType) BY <1>1, MergeTypes DEF Steps, MergeSteps
<1>0. NothingMerged \in MergedType BY MergeTypes
<1>3. PICK h : Solves(h, n, MergedType, NothingMerged, step)
  <2> HIDE DEF n, step
  <2> QED BY <1>0, <1>1, <1>2, FoldExists
<1>4. ASSUME NEW s \in SUBSET (1..n), s # {}, NEW f, f[s \ {Max(s)}] \in MergedType
      PROVE  step[Max(s)][f[s \ {Max(s)}]] = MergeNext(f[s \ {Max(s)}], descs[Max(s)])
  <2>1. Max(s) \in 1..n BY <1>1, <1>4, MaxOf
  <2> QED BY <1>4, <2>1 DEF MergeSteps
<1>5. h = Body(h)
  <2>1. ASSUME NEW s \in SUBSET (1..n) PROVE h[s] = Body(h)[s]
    <3>1. s \ {Max(s)} \in SUBSET (1..n) OBVIOUS
    <3>2. h[s \ {Max(s)}] \in MergedType BY <1>3, <3>1 DEF Solves
    <3> QED BY <1>1, <1>3, <1>4, <3>2 DEF Solves
  <2> QED BY <1>1, <1>3, <2>1 DEF Solves
<1>6. F = Body(F)
  <2> HIDE DEF Body
  <2> QED BY <1>5
<1>7. MergeAll(descs) = F[1..n] BY <1>1 DEF MergeAll, FoldLeft, MapThenFoldSet
<1>8. F[{}] = NothingMerged BY <1>6
<1>9. ASSUME NEW s \in SUBSET (1..n), s # {}, F[s \ {Max(s)}] \in MergedType
      PROVE  F[s] = step[Max(s)][F[s \ {Max(s)}]]
  <2>1. F[s] = MergeNext(F[s \ {Max(s)}], descs[Max(s)]) BY <1>1, <1>6, <1>9
  <2> HIDE DEF F, step
  <2> QED BY <1>4, <1>9, <2>1
<1> HIDE DEF F, step, n
<1>10. Obeys(F, n, MergedType, NothingMerged, step) BY <1>8, <1>9 DEF Obeys
<1>11. \E g : IsRun(g, n, MergedType, NothingMerged, step) /\ g[n] = F[1..n]
  BY <1>0, <1>1, <1>2, <1>10, RunOfFold
<1> QED BY <1>7, <1>11 DEF n, step

-----------------------------------------------------------------------------
(***************************************************************************)
(* The last Report ID before a position                                    *)
(***************************************************************************)
\* q is the place of the last Report ID before p.
IsLastId(items, q, p) ==
    /\ q \in DOMAIN items /\ items[q].kind = "id" /\ q < p
    /\ \A r \in DOMAIN items : (items[r].kind = "id" /\ r < p) => r <= q
NoIdBefore(items, p) == \A r \in DOMAIN items : items[r].kind = "id" => ~(r < p)

\* The Report ID in force is the last one before, if there is one.
LEMMA CurrentIdIs ==
    ASSUME NEW items \in Seq(Item), NEW p \in Nat
    PROVE  /\ NoIdBefore(items, p) => CurrentId(items, p) = 0
           /\ \A q : IsLastId(items, q, p) => CurrentId(items, p) = items[q].id
<1> DEFINE before == {q \in Positions(items, {"id"}) : q < p}
<1>1. before = {q \in DOMAIN items : items[q].kind = "id" /\ q < p} BY DEF Positions
<1>2. CurrentId(items, p) = IF before = {} THEN 0 ELSE items[CHOOSE q \in before : \A r \in before : r <= q].id
  BY DEF CurrentId
<1> HIDE DEF before
<1>3. ASSUME NoIdBefore(items, p) PROVE CurrentId(items, p) = 0
  <2>1. before = {} BY <1>1, <1>3 DEF NoIdBefore
  <2> QED BY <1>2, <2>1
<1>4. ASSUME NEW q, IsLastId(items, q, p) PROVE CurrentId(items, p) = items[q].id
  <2>1. q \in before /\ \A r \in before : r <= q BY <1>1, <1>4 DEF IsLastId
  <2>2. \A x \in before : (\A r \in before : r <= x) => x = q
    <3> SUFFICES ASSUME NEW x \in before, \A r \in before : r <= x PROVE x = q OBVIOUS
    <3>1. x <= q /\ q <= x BY <2>1
    <3>2. x \in Nat /\ q \in Nat BY <1>1, <2>1
    <3> QED BY <3>1, <3>2
  <2>3. (CHOOSE x \in before : \A r \in before : r <= x) = q BY <2>1, <2>2
  <2> QED BY <1>2, <2>1, <2>3
<1> QED BY <1>3, <1>4

\* If there is one, there is a last one.
LEMMA LastIdExists ==
    ASSUME NEW items \in Seq(Item), NEW p \in Nat, ~NoIdBefore(items, p)
    PROVE  \E q : IsLastId(items, q, p)
<1> DEFINE before == {q \in DOMAIN items : items[q].kind = "id" /\ q < p}
<1>1. before # {} BY DEF NoIdBefore
<1>2. before \in SUBSET (0..p) OBVIOUS
<1>3. \E q \in before : \A r \in before : r <= q
  <2> HIDE DEF before
  <2> QED BY <1>1, <1>2, Greatest
<1> QED BY <1>3 DEF IsLastId

\* It is a byte.
LEMMA CurrentIdRange ==
    ASSUME NEW items \in Seq(Item), NEW p \in Nat
    PROVE  CurrentId(items, p) \in 0..IdMod-1
<1>1. CASE NoIdBefore(items, p) BY <1>1, CurrentIdIs, DescriptorAssumption
<1>2. CASE ~NoIdBefore(items, p)
  <2>1. PICK q : IsLastId(items, q, p) BY <1>2, LastIdExists
  <2>2. CurrentId(items, p) = items[q].id BY <2>1, CurrentIdIs
  <2>3. items[q] \in Item BY <2>1 DEF IsLastId
  <2> QED BY <2>2, <2>3 DEF Item
<1> QED BY <1>1, <1>2

\* From one position to the next.
LEMMA CurrentIdNext ==
    ASSUME NEW items \in Seq(Item), NEW k \in 1..Len(items)
    PROVE  CurrentId(items, k + 1) = IF items[k].kind = "id" THEN items[k].id ELSE CurrentId(items, k)
<1>1. k \in DOMAIN items /\ k \in Nat /\ k + 1 \in Nat /\ \A r \in DOMAIN items : r \in Nat OBVIOUS
<1>2. CASE items[k].kind = "id"
  <2>1. IsLastId(items, k, k + 1) BY <1>1, <1>2 DEF IsLastId
  <2> QED BY <1>1, <1>2, <2>1, CurrentIdIs
<1>3. CASE items[k].kind # "id" /\ NoIdBefore(items, k)
  <2>1. ASSUME NEW r \in DOMAIN items, items[r].kind = "id" PROVE ~(r < k + 1)
    <3>1. r # k BY <1>3, <2>1
    <3>2. ~(r < k) BY <1>3, <2>1 DEF NoIdBefore
    <3> QED BY <1>1, <3>1, <3>2
  <2>2. NoIdBefore(items, k + 1) BY <2>1 DEF NoIdBefore
  <2> QED BY <1>1, <1>3, <2>2, CurrentIdIs
<1>4. CASE items[k].kind # "id" /\ ~NoIdBefore(items, k)
  <2>1. PICK q : IsLastId(items, q, k) BY <1>1, <1>4, LastIdExists
  <2>2. ASSUME NEW r \in DOMAIN items, items[r].kind = "id", r < k + 1 PROVE r <= q
    <3>1. r # k BY <1>4, <2>2
    <3>2. r < k BY <1>1, <2>2, <3>1
    <3> QED BY <2>1, <2>2, <3>2 DEF IsLastId
  <2>3. q < k + 1 BY <1>1, <2>1 DEF IsLastId
  <2>4. IsLastId(items, q, k + 1) BY <2>1, <2>2, <2>3 DEF IsLastId
  <2> QED BY <1>1, <1>4, <2>1, <2>4, CurrentIdIs
<1> QED BY <1>2, <1>3, <1>4

LEMMA CurrentIdFirst == ASSUME NEW items \in Seq(Item) PROVE CurrentId(items, 1) = 0
<1>1. NoIdBefore(items, 1) BY DEF NoIdBefore
<1> QED BY <1>1, CurrentIdIs

-----------------------------------------------------------------------------
(***************************************************************************)
(* The table of reports                                                    *)
(***************************************************************************)
ReportsUpTo(items, k) ==
    {[id |-> CurrentId(items, p), type |-> items[p].kind] : p \in {q \in Positions(items, ReportType) : q <= k}}

\* What the table holds when the first k items have been parsed.
Table(parsed, items, k) ==
    /\ parsed \in ParseType
    /\ parsed.current_id = CurrentId(items, k + 1)
    /\ (parsed.use_report_ids <=> ~NoIdBefore(items, k + 1))
    /\ Len(parsed.ble_reports) <= MaxBleReports
    /\ \A i, j \in DOMAIN parsed.ble_reports : parsed.ble_reports[i] = parsed.ble_reports[j] => i = j
    /\ \A i \in DOMAIN parsed.ble_reports : parsed.ble_reports[i] \in ReportsUpTo(items, k)
    /\ Len(parsed.ble_reports) < MaxBleReports =>
         \A report \in ReportsUpTo(items, k) : \E i \in DOMAIN parsed.ble_reports : parsed.ble_reports[i] = report

\* One more item declares one more report, if it is one.
LEMMA ReportsNext ==
    ASSUME NEW items \in Seq(Item), NEW k \in 1..Len(items)
    PROVE  ReportsUpTo(items, k) =
               IF items[k].kind \in ReportType
               THEN ReportsUpTo(items, k - 1) \cup {[id |-> CurrentId(items, k), type |-> items[k].kind]}
               ELSE ReportsUpTo(items, k - 1)
<1> DEFINE S(j) == {q \in Positions(items, ReportType) : q <= j}
           Of(p) == [id |-> CurrentId(items, p), type |-> items[p].kind]
<1>1. k \in DOMAIN items /\ k \in Nat /\ \A q \in Positions(items, ReportType) : q \in Nat BY DEF Positions
<1>2. CASE items[k].kind \in ReportType
  <2>1. k \in Positions(items, ReportType) BY <1>1, <1>2 DEF Positions
  <2>2. S(k) = S(k - 1) \cup {k} BY <1>1, <2>1
  <2> HIDE DEF S
  <2>3. {Of(p) : p \in S(k)} = {Of(p) : p \in S(k - 1)} \cup {Of(k)} BY <2>2
  <2> QED BY <1>2, <2>3 DEF ReportsUpTo, S
<1>3. CASE items[k].kind \notin ReportType
  <2>1. k \notin Positions(items, ReportType) BY <1>3 DEF Positions
  <2>2. S(k) = S(k - 1) BY <1>1, <2>1
  <2> QED BY <1>3, <2>2 DEF ReportsUpTo
<1> QED BY <1>2, <1>3

\* Whether there is a Report ID so far.
LEMMA NoIdNext ==
    ASSUME NEW items \in Seq(Item), NEW k \in 1..Len(items)
    PROVE  NoIdBefore(items, k + 1) <=> (items[k].kind # "id" /\ NoIdBefore(items, k))
<1>1. k \in DOMAIN items /\ \A r \in DOMAIN items : r \in Nat /\ (r < k + 1) = (r = k \/ r < k) OBVIOUS
<1> QED BY <1>1, Zenon DEF NoIdBefore

\* An iteration of the parsing loop keeps table and id in step with what is declared so far.
LEMMA TableNext ==
    ASSUME NEW items \in Seq(Item), NEW k \in 1..Len(items), NEW parsed, Table(parsed, items, k - 1)
    PROVE  Table(ParseNext(parsed, items[k]), items, k)
<1> DEFINE after == ParseNext(parsed, items[k])
           report == [id |-> parsed.current_id, type |-> items[k].kind]
           reports == parsed.ble_reports
<1>0. k \in Nat /\ k - 1 + 1 = k /\ items[k] \in Item OBVIOUS
<1>1. /\ parsed \in ParseType /\ parsed.current_id = CurrentId(items, k)
      /\ (parsed.use_report_ids <=> ~NoIdBefore(items, k))
  BY <1>0 DEF Table
<1>2. after \in ParseType BY <1>0, <1>1, ParseTypes
<1>3. reports \in Seq(TableEntry) /\ parsed.use_report_ids \in BOOLEAN
      /\ parsed = [current_id |-> parsed.current_id, use_report_ids |-> parsed.use_report_ids, ble_reports |-> reports]
  BY <1>1 DEF ParseType
<1>4. /\ Len(reports) <= MaxBleReports
      /\ \A i, j \in DOMAIN reports : reports[i] = reports[j] => i = j
      /\ \A i \in DOMAIN reports : reports[i] \in ReportsUpTo(items, k - 1)
      /\ Len(reports) < MaxBleReports =>
           \A r \in ReportsUpTo(items, k - 1) : \E i \in DOMAIN reports : reports[i] = r
  BY DEF Table
<1>5. CurrentId(items, k + 1) = IF items[k].kind = "id" THEN items[k].id ELSE parsed.current_id
  BY <1>1, CurrentIdNext
<1>6. ~NoIdBefore(items, k + 1) <=> (items[k].kind = "id" \/ parsed.use_report_ids) BY <1>1, NoIdNext
<1>7. CASE items[k].kind = "id"
  <2>1. after = [current_id |-> items[k].id, use_report_ids |-> TRUE, ble_reports |-> reports]
    <3> DEFINE first == [parsed EXCEPT !.current_id = items[k].id]
    <3>1. after = [first EXCEPT !.use_report_ids = TRUE] BY <1>7 DEF ParseNext, ReportType
    <3>2. first = [current_id |-> items[k].id, use_report_ids |-> parsed.use_report_ids, ble_reports |-> reports]
      BY <1>3
    <3> HIDE DEF after, reports, first
    <3> QED BY <3>1, <3>2
  <2>2. ReportsUpTo(items, k) = ReportsUpTo(items, k - 1) BY <1>7, ReportsNext DEF ReportType
  <2> HIDE DEF after, reports
  <2>3. after.current_id = CurrentId(items, k + 1) /\ (after.use_report_ids <=> ~NoIdBefore(items, k + 1))
        /\ after.ble_reports = reports
    BY <1>5, <1>6, <1>7, <2>1
  <2> QED BY <1>2, <1>4, <2>2, <2>3 DEF Table, after
<1>8. CASE items[k].kind \in ReportType /\ report \notin Range(reports) /\ Len(reports) < MaxBleReports
  <2>0. items[k].kind # "id" BY <1>8 DEF ReportType
  <2>1. after = [current_id |-> parsed.current_id, use_report_ids |-> parsed.use_report_ids,
                 ble_reports |-> Append(reports, report)]
    BY <1>3, <1>8, <2>0 DEF ParseNext
  <2>2. ReportsUpTo(items, k) = ReportsUpTo(items, k - 1) \cup {report} BY <1>1, <1>8, ReportsNext
  <2>3. report \in TableEntry BY <1>1, <1>8 DEF TableEntry, ParseType
  <2>4. \A i \in DOMAIN reports : reports[i] # report BY <1>8 DEF Range
  <2> DEFINE more == Append(reports, report)
             n == Len(reports)
  <2> HIDE DEF report
  <2>5. /\ n \in Nat /\ DOMAIN reports = 1..n /\ DOMAIN more = 1..n+1 /\ Len(more) = n + 1
        /\ more[n + 1] = report /\ \A i \in 1..n : more[i] = reports[i]
    BY <1>3, <2>3, AppendProperties
  <2> HIDE DEF after, reports, more
  <2>6. after.current_id = CurrentId(items, k + 1) /\ (after.use_report_ids <=> ~NoIdBefore(items, k + 1))
        /\ after.ble_reports = more
    BY <1>5, <1>6, <2>0, <2>1 DEF more
  <2> HIDE DEF n
  <2>7. Len(more) <= MaxBleReports BY <1>8, <2>5, DescriptorAssumption DEF n
  <2>8. \A i \in 1..n+1 : i = n + 1 \/ i \in 1..n BY <2>5
  <2>9. \A i, j \in DOMAIN more : more[i] = more[j] => i = j BY <1>4, <2>4, <2>5, <2>8
  <2>10. \A i \in DOMAIN more : more[i] \in ReportsUpTo(items, k) BY <1>4, <2>2, <2>5, <2>8
  <2>11. \A r \in ReportsUpTo(items, k) : \E i \in DOMAIN more : more[i] = r
    <3> SUFFICES ASSUME NEW r \in ReportsUpTo(items, k) PROVE \E i \in DOMAIN more : more[i] = r OBVIOUS
    <3>1. CASE r = report
      <4>1. n + 1 \in DOMAIN more BY <2>5
      <4> QED BY <2>5, <3>1, <4>1
    <3>2. CASE r \in ReportsUpTo(items, k - 1)
      <4>1. PICK i \in DOMAIN reports : reports[i] = r BY <1>4, <1>8, <3>2
      <4>2. i \in DOMAIN more /\ i \in 1..n BY <2>5, <4>1
      <4> QED BY <2>5, <4>1, <4>2
    <3> QED BY <2>2, <3>1, <3>2
  <2> QED BY <1>2, <2>6, <2>7, <2>9, <2>10, <2>11 DEF Table, after
<1>9. CASE items[k].kind # "id"
           /\ ~(items[k].kind \in ReportType /\ report \notin Range(reports) /\ Len(reports) < MaxBleReports)
  <2>1. after = parsed BY <1>9 DEF ParseNext
  <2>2. ReportsUpTo(items, k - 1) \subseteq ReportsUpTo(items, k) BY ReportsNext
  <2>3. ASSUME Len(reports) < MaxBleReports, NEW r \in ReportsUpTo(items, k)
        PROVE  \E i \in DOMAIN reports : reports[i] = r
    <3>1. CASE r \in ReportsUpTo(items, k - 1) BY <1>4, <2>3, <3>1
    <3>2. CASE r \notin ReportsUpTo(items, k - 1)
      <4>1. items[k].kind \in ReportType /\ r = report BY <1>1, <2>3, <3>2, ReportsNext
      <4>2. report \in Range(reports) BY <1>9, <2>3, <4>1
      <4> QED BY <4>1, <4>2 DEF Range
    <3> QED BY <3>1, <3>2
  <2> HIDE DEF after, reports
  <2>4. after.current_id = CurrentId(items, k + 1) /\ (after.use_report_ids <=> ~NoIdBefore(items, k + 1))
        /\ after.ble_reports = reports
    BY <1>1, <1>5, <1>6, <1>9, <2>1 DEF reports
  <2> QED BY <1>2, <1>4, <2>2, <2>3, <2>4 DEF Table, after
<1>10. items[k].kind \in ReportType => items[k].kind # "id" BY DEF ReportType
<1> QED BY <1>7, <1>8, <1>9, <1>10

\* So after the whole descriptor they are in step with all of it.
LEMMA ParsedTable == ASSUME NEW items \in Seq(Item) PROVE Table(Parsed(items), items, Len(items))
<1> DEFINE n == Len(items)
<1>1. PICK g : /\ IsRun(g, Len(items), ParseType, NothingParsed, ParseSteps(items))
               /\ g[Len(items)] = Parsed(items)
  BY ParseRun
<1> DEFINE T == {k \in 0..n : Table(g[k], items, k)}
<1>2. n \in Nat OBVIOUS
<1>3. 0 \in T
  <2>1. g[0] = NothingParsed BY <1>1 DEF IsRun
  <2>2. ReportsUpTo(items, 0) = {}
    <3>1. \A q \in Positions(items, ReportType) : ~(q <= 0) BY DEF Positions
    <3> QED BY <3>1 DEF ReportsUpTo
  <2>3. 0 + 1 = 1 /\ NoIdBefore(items, 1) BY DEF NoIdBefore
  <2>4. /\ NothingParsed.ble_reports = <<>> /\ NothingParsed.current_id = 0
        /\ NothingParsed.use_report_ids = FALSE /\ DOMAIN <<>> = {} /\ Len(<<>>) = 0
    BY DEF NothingParsed
  <2>5. Table(NothingParsed, items, 0)
    BY <2>2, <2>3, <2>4, ParseTypes, CurrentIdFirst, DescriptorAssumption DEF Table
  <2> QED BY <1>2, <2>1, <2>5
<1>4. ASSUME NEW k \in 1..n, k - 1 \in T PROVE k \in T
  <2>1. k - 1 \in 0..n /\ k \in 0..n BY <1>2
  <2>2. g[k] = ParseSteps(items)[k][g[k - 1]] /\ g[k - 1] \in ParseType BY <1>1, <2>1 DEF IsRun
  <2>3. g[k] = ParseNext(g[k - 1], items[k]) BY <2>2 DEF ParseSteps
  <2>4. Table(g[k - 1], items, k - 1) BY <1>4
  <2> QED BY <2>1, <2>3, <2>4, TableNext
<1>5. n \in T
  <2> HIDE DEF T
  <2>1. \A k \in 0..n : k \in T BY <1>2, <1>3, <1>4, UpTo
  <2> QED BY <1>2, <2>1
<1> QED BY <1>1, <1>5

\* The table holds the reports of the items, as many as it has room for.
LEMMA DeclaredFinite == ASSUME NEW items \in Seq(Item) PROVE IsFiniteSet(Declared(items))
<1> DEFINE S == Positions(items, ReportType)
           f == [p \in S |-> [id |-> CurrentId(items, p), type |-> items[p].kind]]
<1>1. IsFiniteSet(1..Len(items)) BY FS_Interval
<1>2. S \in SUBSET (1..Len(items)) BY DEF Positions
<1>3. IsFiniteSet(S)
  <2> HIDE DEF S
  <2> QED BY <1>1, <1>2, FS_Subset
<1>4. f \in Surjection(S, Declared(items)) BY DEF Surjection, Declared
<1> QED
  <2> HIDE DEF S, f
  <2> QED BY <1>3, <1>4, FS_Surjection

\* The table holds declared reports, each once, and all of them if there is room.
LEMMA TableComplete ==
    ASSUME NEW items \in Seq(Item)
    PROVE  LET reports == Parsed(items).ble_reports
           IN  /\ reports \in Seq(TableEntry)
               /\ \A i, j \in DOMAIN reports : reports[i] = reports[j] => i = j
               /\ \A i \in DOMAIN reports : reports[i] \in Declared(items)
               /\ Len(reports) <= MaxBleReports
               /\ Len(reports) = Min({Cardinality(Declared(items)), MaxBleReports})
               /\ Cardinality(Declared(items)) <= MaxBleReports =>
                    \A report \in Declared(items) : \E i \in DOMAIN reports : reports[i] = report
<1> DEFINE reports == Parsed(items).ble_reports
           n == Len(reports)
           declared == Declared(items)
           c == Cardinality(declared)
<1>1. Table(Parsed(items), items, Len(items)) BY ParsedTable
<1>2. ReportsUpTo(items, Len(items)) = declared
  <2>1. {q \in Positions(items, ReportType) : q <= Len(items)} = Positions(items, ReportType) BY DEF Positions
  <2> QED BY <2>1 DEF ReportsUpTo, Declared
<1>3. /\ reports \in Seq(TableEntry) /\ n <= MaxBleReports
      /\ \A i, j \in DOMAIN reports : reports[i] = reports[j] => i = j
      /\ \A i \in DOMAIN reports : reports[i] \in declared
      /\ n < MaxBleReports => \A r \in declared : \E i \in DOMAIN reports : reports[i] = r
  BY <1>1, <1>2 DEF Table, ParseType
<1>4. IsFiniteSet(declared) /\ c \in Nat BY DeclaredFinite, FS_CardinalityType
<1>5. DOMAIN reports = 1..n /\ n \in Nat BY <1>3
<1> HIDE DEF reports, declared, n
<1> DEFINE f == [i \in 1..n |-> reports[i]]
<1>6. f \in Injection(1..n, declared)
  <2>1. f \in [1..n -> declared] BY <1>3, <1>5
  <2>2. \A i, j \in 1..n : f[i] = f[j] => i = j BY <1>3, <1>5
  <2> HIDE DEF f
  <2> QED BY <2>1, <2>2 DEF Injection, IsInjective
<1>7. IsFiniteSet(1..n) /\ Cardinality(1..n) = n BY <1>5, FS_Interval
<1> HIDE DEF f
<1>8. n <= c /\ (n = c <=> f \in Surjection(1..n, declared)) BY <1>4, <1>6, <1>7, FS_Injection
<1>9. n < MaxBleReports => n = c
  <2> SUFFICES ASSUME n < MaxBleReports PROVE f \in Surjection(1..n, declared) BY <1>8
  <2>1. \A r \in declared : \E i \in 1..n : f[i] = r BY <1>3, <1>5 DEF f
  <2>2. f \in [1..n -> declared] BY <1>3, <1>5 DEF f
  <2> QED BY <2>1, <2>2 DEF Surjection
<1>10. MaxBleReports \in Nat BY DescriptorAssumption
<1> HIDE DEF c
<1>11. n = Min({c, MaxBleReports})
  <2>1. n \in {c, MaxBleReports} /\ n <= c /\ n <= MaxBleReports BY <1>3, <1>4, <1>5, <1>8, <1>9, <1>10
  <2>2. \A x \in {c, MaxBleReports} : (\A y \in {c, MaxBleReports} : x =< y) => x = n
    BY <1>3, <1>4, <1>5, <1>10, <2>1
  <2> QED BY <2>1, <2>2 DEF Min
<1>12. ASSUME c <= MaxBleReports PROVE \A r \in declared : \E i \in DOMAIN reports : reports[i] = r
  <2>1. CASE n < MaxBleReports BY <1>3, <2>1
  <2>2. CASE ~(n < MaxBleReports)
    <3>1. n = c BY <1>3, <1>4, <1>5, <1>8, <1>10, <1>12, <2>2
    <3>2. f \in Surjection(1..n, declared) BY <1>8, <3>1
    <3> QED BY <1>5, <3>2 DEF Surjection, f
  <2> QED BY <2>1, <2>2
<1> QED BY <1>3, <1>11, <1>12 DEF reports, declared, n, c

\* The entry found for a report that is in the table.
LEMMA EntryFound ==
    ASSUME NEW parsed \in ParseType, NEW byte,
           \E i \in DOMAIN parsed.ble_reports :
               parsed.ble_reports[i] = [id |-> IF parsed.use_report_ids THEN byte ELSE 0, type |-> "input"]
    PROVE  /\ EntryFor(parsed, byte) \in DOMAIN parsed.ble_reports
           /\ parsed.ble_reports[EntryFor(parsed, byte)]
                = [id |-> IF parsed.use_report_ids THEN byte ELSE 0, type |-> "input"]
<1> DEFINE reports == parsed.ble_reports
           wanted == [id |-> IF parsed.use_report_ids THEN byte ELSE 0, type |-> "input"]
           I == {i \in 1..Len(reports) : reports[i] = wanted}
<1>1. reports \in Seq(TableEntry) BY DEF ParseType
<1>2. DOMAIN reports = 1..Len(reports) /\ Len(reports) \in Nat BY <1>1
<1>3. I # {} /\ I \in SUBSET Nat BY <1>2
<1>4. EntryFor(parsed, byte) = IF I # {} THEN Min(I) ELSE 0 BY DEF EntryFor, SelectInSeq
<1> HIDE DEF I
<1>5. \E i \in I : \A j \in I : i <= j BY <1>3, LeastNumber
<1>6. EntryFor(parsed, byte) \in I BY <1>3, <1>4, <1>5 DEF Min
<1> QED BY <1>2, <1>6 DEF I

-----------------------------------------------------------------------------
(***************************************************************************)
(* What an interface adds to the combined descriptor when everything fits  *)
(***************************************************************************)
Placed(item, from) == [item EXCEPT !.from = from]
SegmentWithIds(desc, offset, from) == [k \in 1..Len(desc) |-> Shifted(desc[k], offset, from)]
\* c is the place of the Collection the new Report ID follows, 0 without one.
SegmentWithoutIds(desc, c, id, from) ==
    [k \in 1..Len(desc)+1 |-> IF k <= c THEN Placed(desc[k], from)
                              ELSE IF k = c + 1 THEN ReportIdItem(id, from)
                              ELSE Placed(desc[k - 1], from)]
IsPlace(desc, c) ==
    /\ c \in 0..Len(desc)
    /\ c # 0 => desc[c].kind = "collection"
    /\ \A q \in 1..Len(desc) : desc[q].kind = "collection" => c # 0 /\ c <= q

\* items is base, followed by the first k of segment.
Grown(items, base, segment, k) ==
    /\ items \in Seq(Item) /\ Len(items) = Len(base) + k
    /\ \A j \in 1..Len(base) : items[j] = base[j]
    /\ \A j \in 1..k : items[Len(base) + j] = segment[j]

LEMMA GrownNone == ASSUME NEW base \in Seq(Item), NEW segment PROVE Grown(base, base, segment, 0)
BY DEF Grown

\* Appending the next item of the segment makes it one longer.
LEMMA GrownAppend ==
    ASSUME NEW base \in Seq(Item), NEW items, NEW segment, NEW k \in Nat, Grown(items, base, segment, k),
           segment[k + 1] \in Item
    PROVE  Grown(Append(items, segment[k + 1]), base, segment, k + 1)
<1> DEFINE item == segment[k + 1]
           more == Append(items, item)
           b == Len(base)
<1>1. items \in Seq(Item) /\ Len(items) = b + k /\ b \in Nat /\ item \in Item BY DEF Grown
<1> HIDE DEF item
<1>2. /\ more \in Seq(Item) /\ Len(more) = b + k + 1 /\ more[b + k + 1] = item
      /\ \A j \in 1..b+k : more[j] = items[j]
  BY <1>1, AppendProperties
<1> HIDE DEF more
<1>3. \A j \in 1..b : more[j] = base[j]
  <2> TAKE j \in 1..b
  <2>1. j \in 1..b+k BY <1>1
  <2> QED BY <1>2, <2>1 DEF Grown
<1>4. ASSUME NEW j \in 1..k+1 PROVE more[b + j] = segment[j]
  <2>1. CASE j = k + 1
    <3>1. b + j = b + k + 1 BY <1>1, <2>1
    <3> QED BY <1>2, <2>1, <3>1 DEF item
  <2>2. CASE j # k + 1
    <3>1. j \in 1..k /\ b + j \in 1..b+k BY <1>1, <2>2
    <3>2. more[b + j] = items[b + j] BY <1>2, <3>1
    <3> QED BY <3>1, <3>2 DEF Grown
  <2> QED BY <2>1, <2>2
<1>5. Len(more) = b + (k + 1) BY <1>1, <1>2
<1> QED BY <1>2, <1>3, <1>4, <1>5 DEF Grown, more, item

\* Only the items appended matter.
LEMMA GrownSame ==
    ASSUME NEW base \in Seq(Item), NEW items, NEW a, NEW b, NEW k \in Nat, Grown(items, base, a, k),
           \A j \in 1..k : a[j] = b[j]
    PROVE  Grown(items, base, b, k)
BY DEF Grown

\* What fits is appended.
LEMMA PutFits ==
    ASSUME NEW comb \in Combined, NEW item \in Item, comb.bytes + item.len <= DescMax
    PROVE  /\ Put(comb, item).items = Append(comb.items, item)
           /\ Put(comb, item).bytes = comb.bytes + item.len
<1>1. comb = [items |-> comb.items, bytes |-> comb.bytes] BY DEF Combined
<1>2. Put(comb, item) = [items |-> Append(comb.items, item), bytes |-> comb.bytes + item.len]
  BY <1>1 DEF Put, Fits
<1> QED BY <1>2

\* If everything fits, an interface with Report IDs is appended with its ids shifted.
LEMMA ShiftFits ==
    ASSUME NEW comb \in Combined, NEW desc \in Seq(Item), NEW offset \in Nat, NEW from \in Nat,
           comb.bytes + Bytes(desc) <= DescMax
    PROVE  LET merged == MergeWithIds(comb, desc, offset, from)
           IN  /\ Grown(merged.items, comb.items, SegmentWithIds(desc, offset, from), Len(desc))
               /\ merged.bytes <= comb.bytes + Bytes(desc)
<1> DEFINE n == Len(desc)
           base == comb.items
           seg == SegmentWithIds(desc, offset, from)
           s == Lengths(desc)
<1>1. PICK g : /\ IsRun(g, Len(desc), Combined, comb, ShiftSteps(desc, offset, from))
               /\ g[Len(desc)] = MergeWithIds(comb, desc, offset, from)
  BY ShiftRun
<1>2. s \in Seq(Nat) /\ Len(s) = n /\ Bytes(desc) = Total(s) /\ n \in Nat BY LengthsType
<1>3. PICK t : IsRun(t, Len(s), Nat, 0, TotalSteps(s)) /\ t[Len(s)] = Total(s)
  <2> HIDE DEF s
  <2> QED BY <1>2, TotalRun
<1>4. base \in Seq(Item) /\ comb.bytes \in Nat /\ DescMax \in Nat BY DescriptorAssumption DEF Combined
<1> DEFINE T == {k \in 0..n : Grown(g[k].items, base, seg, k) /\ g[k].bytes <= comb.bytes + t[k]}
<1>5. 0 \in T
  <2>1. g[0] = comb BY <1>1 DEF IsRun
  <2>2. t[0] = 0 BY <1>3 DEF IsRun
  <2>3. Grown(comb.items, base, seg, 0) BY <1>4, GrownNone
  <2>4. 0 \in 0..n BY <1>2
  <2> HIDE DEF seg, base
  <2> QED BY <1>4, <2>1, <2>2, <2>3, <2>4
<1>6. ASSUME NEW k \in 1..n, k - 1 \in T PROVE k \in T
  <2>1. k - 1 \in 0..n /\ k \in 0..n /\ k - 1 \in Nat /\ k - 1 + 1 = k /\ desc[k] \in Item BY <1>2
  <2> DEFINE item == Shifted(desc[k], offset, from)
             before == g[k - 1]
  <2>2. g[k] = Put(before, item) /\ before \in Combined
    <3>1. g[k - 1] \in Combined /\ g[k] = ShiftSteps(desc, offset, from)[k][g[k - 1]] BY <1>1, <2>1 DEF IsRun
    <3> QED BY <3>1 DEF ShiftSteps
  <2>3. item \in Item /\ item.len \in Nat /\ item.len <= desc[k].len /\ desc[k].len \in Nat
    <3>1. item \in Item BY <2>1, ItemTypes
    <3>2. item.len <= desc[k].len
      <4>1. CASE desc[k].kind = "id" BY <2>1, <4>1 DEF Shifted, ReportIdItem, Item
      <4>2. CASE desc[k].kind # "id"
        <5>1. item.len = desc[k].len BY <2>1, <4>2 DEF Shifted, Item
        <5> QED BY <2>1, <5>1 DEF Item
      <4> QED BY <4>1, <4>2
    <3> QED BY <2>1, <3>1, <3>2 DEF Item
  <2>4. seg[k] = item BY DEF SegmentWithIds
  <2>5. t[k] = t[k - 1] + desc[k].len /\ t[k - 1] \in Nat /\ t[k] \in Nat /\ t[k] <= Bytes(desc)
    <3>1. s[k] = desc[k].len BY <2>1 DEF Lengths
    <3>2. k \in 1..Len(s) /\ k \in 0..Len(s) BY <1>2, <2>1
    <3> HIDE DEF s
    <3> QED BY <1>2, <1>3, <3>1, <3>2, TotalStep, TotalSoFar
  <2>6. Bytes(desc) \in Nat /\ before.bytes \in Nat /\ before.bytes <= comb.bytes + t[k - 1]
        /\ Grown(before.items, base, seg, k - 1)
    BY <1>6, <2>2, BytesNat DEF Combined
  <2> HIDE DEF item, before, seg, base
  <2> DEFINE stored == before.bytes
             sofar  == t[k - 1]
             own    == desc[k].len
             length == item.len
             whole  == Bytes(desc)
             start  == comb.bytes
  <2>a. /\ stored \in Nat /\ sofar \in Nat /\ own \in Nat /\ length \in Nat /\ whole \in Nat /\ start \in Nat
        /\ stored <= start + sofar /\ length <= own /\ start + whole <= DescMax
    BY <1>4, <2>3, <2>5, <2>6
  <2>b. sofar + own <= whole BY <2>5
  <2>c. stored + length <= DescMax /\ stored + length <= start + (sofar + own)
    <3> HIDE DEF stored, sofar, own, length, whole, start
    <3> QED BY <1>4, <2>a, <2>b
  <2>d. sofar + own = t[k] BY <2>5
  <2> HIDE DEF sofar, own, whole, start
  <2>7. before.bytes + item.len <= DescMax BY <2>c
  <2>8. g[k].items = Append(before.items, item) /\ g[k].bytes = before.bytes + item.len
    BY <2>2, <2>3, <2>7, PutFits
  <2>9. g[k].bytes <= comb.bytes + t[k]
    <3>1. g[k].bytes <= start + t[k] BY <2>8, <2>c, <2>d
    <3> QED BY <3>1 DEF start
  <2>10. Grown(g[k].items, base, seg, k)
    <3> DEFINE j == k - 1
    <3>1. j \in Nat /\ j + 1 = k /\ seg[j + 1] = item /\ Grown(before.items, base, seg, j) BY <2>1, <2>4, <2>6
    <3> HIDE DEF j
    <3>2. Grown(Append(before.items, seg[j + 1]), base, seg, j + 1) BY <1>4, <2>3, <3>1, GrownAppend
    <3> QED BY <2>8, <3>1, <3>2
  <2> QED BY <2>1, <2>9, <2>10
<1>7. n \in T
  <2> HIDE DEF T
  <2>1. \A k \in 0..n : k \in T BY <1>2, <1>5, <1>6, UpTo
  <2> QED BY <1>2, <2>1
<1> QED BY <1>1, <1>2, <1>3, <1>7

\* An item that is no first Collection is copied ...
LEMMA CopyPlain ==
    ASSUME NEW copy \in Copy, NEW item \in Item, NEW id \in 0..IdMod-1, NEW from \in Nat,
           copy.comb.bytes + item.len <= DescMax, item.kind = "collection" => copy.inserted
    PROVE  LET after == CopyItem(copy, item, id, from)
           IN  /\ after.inserted = copy.inserted
               /\ after.comb.items = Append(copy.comb.items, Placed(item, from))
               /\ after.comb.bytes = copy.comb.bytes + item.len
<1> DEFINE placed == [item EXCEPT !.from = from]
           comb == Put(copy.comb, placed)
<1>1. copy.comb \in Combined /\ copy = [inserted |-> copy.inserted, comb |-> copy.comb] BY DEF Copy
<1>2. placed \in Item /\ placed.len = item.len
  <2>1. placed.len = item.len BY DEF Item
  <2> QED BY <2>1, ItemTypes
<1>3. CopyItem(copy, item, id, from) = [copy EXCEPT !.comb = comb] BY DEF CopyItem
<1> HIDE DEF placed
<1>4. comb.items = Append(copy.comb.items, placed) /\ comb.bytes = copy.comb.bytes + item.len
  BY <1>1, <1>2, PutFits
<1> HIDE DEF comb
<1>5. CopyItem(copy, item, id, from) = [inserted |-> copy.inserted, comb |-> comb] BY <1>1, <1>3
<1> QED BY <1>4, <1>5 DEF placed, Placed

\* ... and the first Collection is followed by the new Report ID.
LEMMA CopyInserts ==
    ASSUME NEW copy \in Copy, NEW item \in Item, NEW id \in 0..IdMod-1, NEW from \in Nat,
           copy.comb.bytes + item.len + 2 <= DescMax, item.kind = "collection", ~copy.inserted
    PROVE  LET after == CopyItem(copy, item, id, from)
           IN  /\ after.inserted = TRUE
               /\ after.comb.items = Append(Append(copy.comb.items, Placed(item, from)), ReportIdItem(id, from))
               /\ after.comb.bytes = copy.comb.bytes + item.len + 2
<1> DEFINE placed == [item EXCEPT !.from = from]
           comb == Put(copy.comb, placed)
           new == ReportIdItem(id, from)
<1>1. copy.comb \in Combined /\ copy.comb.bytes \in Nat /\ item.len \in Nat /\ DescMax \in Nat
  BY DescriptorAssumption DEF Copy, Combined, Item
<1>2. placed \in Item /\ placed.len = item.len
  <2>1. placed.len = item.len BY DEF Item
  <2> QED BY <2>1, ItemTypes
<1>3. new \in Item /\ new.len = 2
  <2>1. new.len = 2 BY DEF ReportIdItem
  <2> QED BY <2>1, ItemTypes
<1>4. Fits(comb, 2) => CopyItem(copy, item, id, from) = [inserted |-> TRUE, comb |-> Put(comb, new)]
  BY DEF CopyItem
<1> HIDE DEF placed, new
<1>5. copy.comb.bytes + item.len <= DescMax BY <1>1
<1>6. comb.items = Append(copy.comb.items, placed) /\ comb.bytes = copy.comb.bytes + item.len
  BY <1>1, <1>2, <1>5, PutFits
<1>7. comb \in Combined BY <1>1, <1>2, PutType
<1> HIDE DEF comb
<1>8. comb.bytes + 2 <= DescMax BY <1>1, <1>6
<1>9. Put(comb, new).items = Append(comb.items, new) /\ Put(comb, new).bytes = comb.bytes + 2
  BY <1>3, <1>7, <1>8, PutFits
<1>10. CopyItem(copy, item, id, from) = [inserted |-> TRUE, comb |-> Put(comb, new)] BY <1>4, <1>8 DEF Fits
<1> QED BY <1>1, <1>6, <1>9, <1>10 DEF placed, new, Placed

\* The items of desc, placed, without a new Report ID.
PlainSegment(desc, from) == [k \in 1..Len(desc) |-> Placed(desc[k], from)]

\* If everything fits, an interface without Report IDs is copied with one behind its first Collection.
LEMMA CopyFits ==
    ASSUME NEW comb \in Combined, NEW desc \in Seq(Item), NEW id \in 0..IdMod-1, NEW from \in Nat,
           NEW c, IsPlace(desc, c), comb.bytes + Bytes(desc) + 2 <= DescMax
    PROVE  LET copied == CopyWithoutIds(comb, desc, id, from)
           IN  IF c = 0
               THEN /\ ~copied.inserted /\ Grown(copied.comb.items, comb.items, PlainSegment(desc, from), Len(desc))
                    /\ copied.comb.bytes <= comb.bytes + Bytes(desc)
               ELSE /\ copied.inserted
                    /\ Grown(copied.comb.items, comb.items, SegmentWithoutIds(desc, c, id, from), Len(desc) + 1)
                    /\ copied.comb.bytes <= comb.bytes + Bytes(desc) + 2
<1> DEFINE n == Len(desc)
           base == comb.items
           plain == PlainSegment(desc, from)
           seg == SegmentWithoutIds(desc, c, id, from)
           s == Lengths(desc)
<1>1. PICK g : /\ IsRun(g, Len(desc), Copy, [comb |-> comb, inserted |-> FALSE], CopySteps(desc, id, from))
               /\ g[Len(desc)] = CopyWithoutIds(comb, desc, id, from)
  BY CopyRun
<1>2. s \in Seq(Nat) /\ Len(s) = n /\ Bytes(desc) = Total(s) /\ n \in Nat BY LengthsType
<1>3. PICK t : IsRun(t, Len(s), Nat, 0, TotalSteps(s)) /\ t[Len(s)] = Total(s)
  <2> HIDE DEF s
  <2> QED BY <1>2, TotalRun
<1>4. base \in Seq(Item) /\ comb.bytes \in Nat /\ DescMax \in Nat /\ c \in 0..n /\ Bytes(desc) \in Nat
  BY DescriptorAssumption, BytesNat DEF Combined, IsPlace
<1> DEFINE Still(k) == ~g[k].inserted /\ Grown(g[k].comb.items, base, plain, k) /\ g[k].comb.bytes <= comb.bytes + t[k]
           Done(k) == g[k].inserted /\ Grown(g[k].comb.items, base, seg, k + 1) /\ g[k].comb.bytes <= comb.bytes + t[k] + 2
           T == {k \in 0..n : IF c # 0 /\ c <= k THEN Done(k) ELSE Still(k)}
<1>5. 0 \in T
  <2>1. g[0] = [comb |-> comb, inserted |-> FALSE] BY <1>1 DEF IsRun
  <2>2. t[0] = 0 BY <1>3 DEF IsRun
  <2>3. Grown(comb.items, base, plain, 0) BY <1>4, GrownNone
  <2>4. 0 \in 0..n /\ ~(c # 0 /\ c <= 0) BY <1>2, <1>4
  <2>5. Still(0)
    <3> HIDE DEF plain, base
    <3> QED BY <1>4, <2>1, <2>2, <2>3
  <2> HIDE DEF Still, Done
  <2> QED BY <2>4, <2>5
<1>6. ASSUME NEW k \in 1..n, k - 1 \in T PROVE k \in T
  <2> DEFINE j == k - 1
             before == g[j]
             item == desc[k]
             placed == Placed(item, from)
             new == ReportIdItem(id, from)
  <2>1. j \in 0..n /\ k \in 0..n /\ j \in Nat /\ j + 1 = k /\ j < k /\ item \in Item /\ item.len \in Nat
    <3>1. desc[k] \in Item OBVIOUS
    <3> QED BY <1>2, <3>1 DEF Item
  <2>2. g[k] = CopyItem(before, item, id, from) /\ before \in Copy
    <3>1. g[k - 1] \in Copy /\ g[k] = CopySteps(desc, id, from)[k][g[k - 1]] BY <1>1, <2>1 DEF IsRun
    <3> QED BY <3>1 DEF CopySteps
  <2>3. t[k] = t[j] + item.len /\ t[j] \in Nat /\ t[k] \in Nat /\ t[k] <= Bytes(desc)
    <3>1. s[k] = desc[k].len BY DEF Lengths
    <3>2. k \in 1..Len(s) /\ k \in 0..Len(s) BY <1>2
    <3> HIDE DEF s
    <3> QED BY <1>2, <1>3, <3>1, <3>2, TotalStep, TotalSoFar
  <2>4. before.comb.bytes \in Nat BY <2>2 DEF Copy, Combined
  <2>12. /\ before.comb.bytes <= comb.bytes + t[j] =>
              /\ before.comb.bytes + item.len <= comb.bytes + t[k]
              /\ before.comb.bytes + item.len + 2 <= comb.bytes + t[k] + 2
              /\ before.comb.bytes + item.len <= DescMax /\ before.comb.bytes + item.len + 2 <= DescMax
         /\ before.comb.bytes <= comb.bytes + t[j] + 2 =>
              /\ before.comb.bytes + item.len <= comb.bytes + t[k] + 2
              /\ before.comb.bytes + item.len <= DescMax
    <3> DEFINE a == before.comb.bytes
               l == item.len
               b == comb.bytes
               u == t[j]
               v == t[k]
               all == Bytes(desc)
    <3>1. a \in Nat /\ l \in Nat /\ b \in Nat /\ u \in Nat /\ v \in Nat /\ all \in Nat /\ DescMax \in Nat
          /\ v = u + l /\ v <= all /\ b + all + 2 <= DescMax
      BY <1>4, <2>1, <2>3, <2>4
    <3> HIDE DEF a, l, b, u, v, all
    <3>2. /\ a <= b + u => a + l <= b + v /\ a + l + 2 <= b + v + 2 /\ a + l <= DescMax /\ a + l + 2 <= DescMax
          /\ a <= b + u + 2 => a + l <= b + v + 2 /\ a + l <= DescMax
      BY <3>1
    <3> QED BY <3>2 DEF a, l, b, u, v
  <2>5. placed \in Item /\ new \in Item BY <2>1, ItemTypes DEF Placed
  <2>6. plain[k] = placed BY DEF PlainSegment
  <2>7. k \in 1..n+1 /\ k + 1 \in 1..n+1 /\ k + 1 - 1 = k BY <1>2
  <2>8. IF c # 0 /\ c <= j THEN Done(j) ELSE Still(j) BY <1>6
  <2>9. CASE c # 0 /\ c <= j
    <3>1. before.inserted /\ Grown(before.comb.items, base, seg, k) /\ before.comb.bytes <= comb.bytes + t[j] + 2
      BY <2>1, <2>8, <2>9
    <3>2. seg[k + 1] = placed
      <4>1. ~(k + 1 <= c) /\ k + 1 # c + 1 BY <1>4, <2>1, <2>9
      <4> QED BY <2>7, <4>1 DEF SegmentWithoutIds
    <3> HIDE DEF j, before, item, placed, new, seg, plain, base, s
    <3>6. before.comb.bytes + item.len <= comb.bytes + t[k] + 2 /\ before.comb.bytes + item.len <= DescMax
      BY <2>12, <3>1
    <3>7. g[k].inserted = before.inserted /\ g[k].comb.items = Append(before.comb.items, placed)
          /\ g[k].comb.bytes = before.comb.bytes + item.len
      <4>1. item.kind = "collection" => before.inserted BY <3>1
      <4>2. before.comb.bytes + item.len <= DescMax BY <3>6
      <4> QED BY <2>1, <2>2, <4>1, <4>2, CopyPlain DEF placed
    <3>8. k \in Nat BY <2>1
    <3>9. Grown(Append(before.comb.items, seg[k + 1]), base, seg, k + 1) BY <1>4, <2>5, <3>1, <3>2, <3>8, GrownAppend
    <3>10. Done(k) BY <3>1, <3>2, <3>6, <3>7, <3>9
    <3>11. c <= k BY <1>4, <2>1, <2>9
    <3> HIDE DEF Done, Still
    <3> QED BY <2>1, <2>9, <3>10, <3>11
  <2>10. CASE c # 0 /\ c = k
    <3>1. ~before.inserted /\ Grown(before.comb.items, base, plain, j) /\ before.comb.bytes <= comb.bytes + t[j]
      BY <2>1, <2>8, <2>10
    <3>2. item.kind = "collection" BY <2>10 DEF IsPlace
    <3>3. \A i \in 1..j : plain[i] = seg[i]
      <4> TAKE i \in 1..j
      <4>1. i \in 1..n /\ i \in 1..n+1 /\ i <= c BY <1>2, <2>1, <2>10
      <4> QED BY <4>1 DEF PlainSegment, SegmentWithoutIds
    <3>4. seg[k] = placed /\ seg[k + 1] = new
      <4>1. k <= c /\ ~(k + 1 <= c) /\ k + 1 = c + 1 BY <2>1, <2>10
      <4> QED BY <2>7, <4>1 DEF SegmentWithoutIds
    <3> HIDE DEF j, before, item, placed, new, seg, plain, base, s
    <3>5. Grown(before.comb.items, base, seg, j) BY <1>4, <2>1, <3>1, <3>3, GrownSame
    <3>6. Grown(Append(before.comb.items, seg[j + 1]), base, seg, j + 1)
      <4>1. seg[j + 1] \in Item BY <2>1, <2>5, <3>4
      <4> QED BY <1>4, <2>1, <3>5, <4>1, GrownAppend
    <3> DEFINE one == Append(before.comb.items, placed)
    <3>7. Grown(one, base, seg, k) BY <2>1, <3>4, <3>6
    <3> HIDE DEF one
    <3>8. Grown(Append(one, seg[k + 1]), base, seg, k + 1)
      <4>1. seg[k + 1] \in Item /\ k \in Nat BY <2>1, <2>5, <3>4
      <4> QED BY <1>4, <3>7, <4>1, GrownAppend
    <3>12. before.comb.bytes + item.len + 2 <= comb.bytes + t[k] + 2 /\ before.comb.bytes + item.len + 2 <= DescMax
      BY <2>12, <3>1
    <3>13. g[k].inserted = TRUE /\ g[k].comb.items = Append(one, new)
           /\ g[k].comb.bytes = before.comb.bytes + item.len + 2
      <4>1. ~before.inserted BY <3>1
      <4>2. before.comb.bytes + item.len + 2 <= DescMax BY <3>12
      <4>3. /\ CopyItem(before, item, id, from).inserted = TRUE
            /\ CopyItem(before, item, id, from).comb.items
                 = Append(Append(before.comb.items, Placed(item, from)), ReportIdItem(id, from))
            /\ CopyItem(before, item, id, from).comb.bytes = before.comb.bytes + item.len + 2
        BY <2>1, <2>2, <3>2, <4>1, <4>2, CopyInserts
      <4> QED BY <2>2, <4>3 DEF placed, new, one
    <3>14. Done(k) BY <3>4, <3>8, <3>12, <3>13
    <3>15. c <= k BY <2>1, <2>10
    <3> HIDE DEF Done, Still
    <3> QED BY <2>1, <2>10, <3>14, <3>15
  <2>11. CASE c = 0 \/ c > k
    <3>0. ~(c # 0 /\ c <= j) /\ ~(c # 0 /\ c <= k) BY <1>4, <2>1, <2>11
    <3>1. ~before.inserted /\ Grown(before.comb.items, base, plain, j) /\ before.comb.bytes <= comb.bytes + t[j]
      BY <2>8, <3>0
    <3>2. item.kind # "collection" BY <3>0 DEF IsPlace
    <3> HIDE DEF j, before, item, placed, new, seg, plain, base, s
    <3>6. before.comb.bytes + item.len <= comb.bytes + t[k] /\ before.comb.bytes + item.len <= DescMax
      BY <2>12, <3>1
    <3>7. g[k].inserted = before.inserted /\ g[k].comb.items = Append(before.comb.items, placed)
          /\ g[k].comb.bytes = before.comb.bytes + item.len
      BY <2>1, <2>2, <3>2, <3>6, CopyPlain DEF placed
    <3>8. Grown(Append(before.comb.items, plain[j + 1]), base, plain, j + 1)
      <4>1. plain[j + 1] \in Item BY <2>1, <2>5, <2>6
      <4> QED BY <1>4, <2>1, <3>1, <4>1, GrownAppend
    <3>9. Still(k) BY <2>1, <2>6, <3>1, <3>6, <3>7, <3>8
    <3> HIDE DEF Done, Still
    <3> QED BY <2>1, <3>0, <3>9
  <2> QED BY <1>4, <2>1, <2>9, <2>10, <2>11
<1>7. n \in T
  <2> HIDE DEF T
  <2>1. \A k \in 0..n : k \in T BY <1>2, <1>5, <1>6, UpTo
  <2> QED BY <1>2, <2>1
<1>8. IF c = 0 THEN Still(n) ELSE Done(n)
  <2>1. c # 0 => c <= n BY <1>4
  <2> HIDE DEF Still, Done
  <2> QED BY <1>7, <2>1
<1> QED BY <1>1, <1>2, <1>3, <1>8

\* There is a first Collection, or none.
LEMMA PlaceExists == ASSUME NEW desc \in Seq(Item) PROVE \E c : IsPlace(desc, c)
<1> DEFINE collections == {q \in 1..Len(desc) : desc[q].kind = "collection"}
<1>1. CASE collections = {}
  <2>1. IsPlace(desc, 0) BY <1>1 DEF IsPlace
  <2> QED BY <2>1
<1>2. CASE collections # {}
  <2>1. collections \in SUBSET Nat OBVIOUS
  <2>2. \E c \in collections : \A q \in collections : c <= q
    <3> HIDE DEF collections
    <3> QED BY <1>2, <2>1, LeastNumber
  <2>3. PICK c \in collections : \A q \in collections : c <= q BY <2>2
  <2>4. IsPlace(desc, c) BY <2>3 DEF IsPlace
  <2> QED BY <2>4
<1> QED BY <1>1, <1>2

\* Without a Collection the Report ID is put in front, so there is always one.
LEMMA WithoutIdsFits ==
    ASSUME NEW comb \in Combined, NEW desc \in Seq(Item), NEW id \in 0..IdMod-1, NEW from \in Nat,
           NEW c, IsPlace(desc, c), comb.bytes + Bytes(desc) + 2 <= DescMax
    PROVE  LET merged == MergeWithoutIds(comb, desc, id, from)
           IN  /\ Grown(merged.items, comb.items, SegmentWithoutIds(desc, c, id, from), Len(desc) + 1)
               /\ merged.bytes <= comb.bytes + Bytes(desc) + 2
<1> DEFINE copied == CopyWithoutIds(comb, desc, id, from)
           base == comb.items
           seg == SegmentWithoutIds(desc, c, id, from)
           n == Len(desc)
           new == ReportIdItem(id, from)
<1>1. /\ c = 0 => /\ ~copied.inserted /\ Grown(copied.comb.items, base, PlainSegment(desc, from), n)
                  /\ copied.comb.bytes <= comb.bytes + Bytes(desc)
      /\ c # 0 => /\ copied.inserted /\ Grown(copied.comb.items, base, seg, n + 1)
                  /\ copied.comb.bytes <= comb.bytes + Bytes(desc) + 2
  BY CopyFits
<1>2. copied \in Copy
  <2>1. PICK g : /\ IsRun(g, Len(desc), Copy, [comb |-> comb, inserted |-> FALSE], CopySteps(desc, id, from))
                 /\ g[Len(desc)] = CopyWithoutIds(comb, desc, id, from)
    BY CopyRun
  <2>2. Len(desc) \in 0..Len(desc) OBVIOUS
  <2> QED BY <2>1, <2>2 DEF IsRun
<1>3. /\ n \in Nat /\ base \in Seq(Item) /\ Len(base) \in Nat /\ Bytes(desc) \in Nat /\ comb.bytes \in Nat
      /\ DescMax \in Nat
  BY DescriptorAssumption, BytesNat DEF Combined
<1>4. copied.comb.bytes \in Nat BY <1>2 DEF Copy, Combined
<1>5. CASE c # 0
  <2>1. MergeWithoutIds(comb, desc, id, from) = copied.comb BY <1>1, <1>5 DEF MergeWithoutIds
  <2> HIDE DEF copied, base, seg
  <2> QED BY <1>1, <1>5, <2>1 DEF base, seg
<1>6. CASE c = 0
  <2> DEFINE s == copied.comb.items
             k == Len(base)
             t == InsertAt(s, k + 1, new)
             plain == PlainSegment(desc, from)
  <2>1. copied.comb.bytes + 2 <= comb.bytes + Bytes(desc) + 2 /\ copied.comb.bytes + 2 <= DescMax
    <3> DEFINE a == copied.comb.bytes
               b == comb.bytes
               all == Bytes(desc)
    <3>1. a \in Nat /\ b \in Nat /\ all \in Nat /\ DescMax \in Nat /\ a <= b + all /\ b + all + 2 <= DescMax
      BY <1>1, <1>3, <1>4, <1>6
    <3> HIDE DEF a, b, all
    <3>2. a + 2 <= b + all + 2 /\ a + 2 <= DescMax BY <3>1
    <3> QED BY <3>2 DEF a, b, all
  <2>2. MergeWithoutIds(comb, desc, id, from) = [items |-> t, bytes |-> copied.comb.bytes + 2]
    BY <1>1, <1>6, <2>1 DEF MergeWithoutIds, Fits
  <2>3. s \in Seq(Item) /\ Len(s) = k + n /\ (\A j \in 1..k : s[j] = base[j]) /\ (\A j \in 1..n : s[k + j] = plain[j])
    BY <1>1, <1>6 DEF Grown
  <2>4. new \in Item BY DEF Item, ReportIdItem
  <2>5. k \in 0..Len(s) BY <1>3, <2>3
  <2> HIDE DEF s, k, new, copied, base, plain
  <2>6. /\ t \in Seq(Item) /\ Len(t) = Len(s) + 1 /\ t[k + 1] = new
        /\ \A j \in 1..k : t[j] = s[j]
        /\ \A j \in k+1..Len(s) : t[j + 1] = s[j]
    BY <2>3, <2>4, <2>5, InsertAtPointwise
  <2> HIDE DEF t
  <2>7. k \in Nat /\ k = Len(base) BY <1>3 DEF k
  <2>8. ASSUME NEW j \in 1..n+1 PROVE t[k + j] = seg[j]
    <3>1. CASE j = 1
      <4>1. 1 \in 1..Len(desc)+1 /\ ~(1 <= 0) /\ 1 = 0 + 1 BY <1>3
      <4>2. seg[1] = new BY <1>6, <4>1 DEF SegmentWithoutIds, new
      <4> QED BY <2>6, <3>1, <4>2
    <3>2. CASE j # 1
      <4> DEFINE i == j - 1
      <4>1. i \in 1..n /\ k + i \in k+1..Len(s) /\ k + i + 1 = k + j BY <1>3, <2>3, <2>7, <3>2
      <4>2. t[k + i + 1] = s[k + i]
        <5> DEFINE m == k + i
        <5>1. m \in k+1..Len(s) BY <4>1
        <5> HIDE DEF m
        <5>2. t[m + 1] = s[m] BY <2>6, <5>1
        <5> QED BY <5>2 DEF m
      <4>3. s[k + i] = plain[i] BY <2>3, <4>1
      <4>4. j \in 1..Len(desc)+1 /\ ~(j <= 0) /\ j # 0 + 1 BY <1>3, <3>2
      <4>5. seg[j] = Placed(desc[j - 1], from) BY <1>6, <4>4 DEF SegmentWithoutIds
      <4>6. plain[i] = Placed(desc[i], from) BY <4>1 DEF plain, PlainSegment
      <4> QED BY <4>1, <4>2, <4>3, <4>5, <4>6
    <3> QED BY <3>1, <3>2
  <2> HIDE DEF seg
  <2>9. Grown(t, base, seg, n + 1)
    <3>1. Len(t) = Len(base) + (n + 1) BY <1>3, <2>3, <2>6, <2>7
    <3>2. \A j \in 1..Len(base) : t[j] = base[j] BY <2>3, <2>6, <2>7
    <3> HIDE DEF n
    <3> QED BY <2>6, <2>7, <2>8, <3>1, <3>2 DEF Grown
  <2> DEFINE bytes == copied.comb.bytes + 2
  <2>10. bytes <= comb.bytes + Bytes(desc) + 2 BY <2>1
  <2>11. MergeWithoutIds(comb, desc, id, from) = [items |-> t, bytes |-> bytes] BY <2>2
  <2> HIDE DEF bytes
  <2>12. /\ MergeWithoutIds(comb, desc, id, from).items = t
         /\ MergeWithoutIds(comb, desc, id, from).bytes = bytes
    BY <2>11
  <2> QED BY <2>9, <2>10, <2>12 DEF base, seg
<1> QED BY <1>5, <1>6

\* What is wanted of the items an interface adds: they are marked as its own, the ids it declares
\* are its own, a Report ID of its own precedes each report, and every id it sends is declared.
Segment(seg, desc, next, from) ==
    LET itf == Assigned(desc, next)
    IN  /\ seg \in Seq(Item)
        /\ \A k \in DOMAIN seg : seg[k].from = from
        /\ \A k \in DOMAIN seg : seg[k].kind = "id" => next <= seg[k].id /\ seg[k].id < next + IdsUsed(desc)
        /\ \A k \in DOMAIN seg : seg[k].kind \in ReportType => ~NoIdBefore(seg, k)
        /\ \A id \in InputIdsOf(desc) :
             \E k \in DOMAIN seg : seg[k].kind = "input" /\ CurrentId(seg, k) = ForwardedId(itf, id)

LEMMA PlacedProperties ==
    ASSUME NEW item \in Item, NEW from \in Nat
    PROVE  Placed(item, from) \in Item /\ Placed(item, from).kind = item.kind
           /\ Placed(item, from).id = item.id /\ Placed(item, from).from = from
<1>1. Placed(item, from) \in Item BY ItemTypes DEF Placed
<1>2. item \in [kind : {"id", "noid", "idcut", "collection", "other"} \cup ReportType,
                id : 0..IdMod-1, len : Nat, from : Nat] BY DEF Item
<1> QED BY <1>1, <1>2 DEF Placed

\* Shifted, the reports of an interface have the ids it is forwarded with, all from next on.
LEMMA SegmentWithIdsOk ==
    ASSUME NEW desc \in Seq(Item), WellFormed(desc), HasReportId(desc), NEW next \in 1..IdMod-1, NEW from \in Nat,
           next + IdsUsed(desc) <= IdMod
    PROVE  Segment(SegmentWithIds(desc, Assigned(desc, next).report_id_offset, from), desc, next, from)
<1> DEFINE offset == Assigned(desc, next).report_id_offset
           seg == SegmentWithIds(desc, offset, from)
           n == Len(desc)
<1>0. IdMod \in Nat /\ IdMod > 1 /\ n \in Nat /\ DOMAIN desc = 1..n BY DescriptorAssumption
<1>1. offset = next - 1 /\ offset \in Nat
  <2>1. offset = ReportIdOffset(next) BY DEF Assigned
  <2> HIDE DEF offset
  <2>2. next = 1 \/ next > 1 BY <1>0
  <2> QED BY <1>0, <2>1, <2>2 DEF ReportIdOffset
<1>2. /\ Positions(desc, {"noid", "idcut"}) = {} /\ 0 \notin IdsIn(desc)
      /\ \A p \in Positions(desc, ReportType) : CurrentId(desc, p) # 0
  BY DEF WellFormed
<1>3. \A k \in 1..n : desc[k].kind \notin {"noid", "idcut"} BY <1>0, <1>2 DEF Positions
<1>4. MaxId(desc) \in 0..IdMod-1 /\ \A id \in IdsIn(desc) : id \in 0..IdMod-1 /\ id <= MaxId(desc)
  BY MaxIdProperties
<1>5. MaxId(desc) > 0 /\ IdsUsed(desc) = MaxId(desc)
  <2>1. PICK p \in Positions(desc, {"id", "noid", "idcut"}) : TRUE BY DEF HasReportId
  <2>2. desc[p].kind = "id" /\ p \in 1..n BY <1>0, <1>3, <2>1 DEF Positions
  <2>3. desc[p].id \in IdsIn(desc) BY <2>2 DEF IdsIn, Positions
  <2>4. desc[p].id # 0 BY <1>2, <2>3
  <2>5. MaxId(desc) > 0 BY <1>0, <1>4, <2>3, <2>4
  <2> QED BY <2>5 DEF IdsUsed
<1>6. ASSUME NEW k \in 1..n, desc[k].kind = "id"
      PROVE  /\ desc[k].id \in 1..IdMod-1 /\ desc[k].id + offset \in 0..IdMod-1
             /\ (desc[k].id + offset) % IdMod = desc[k].id + offset
             /\ next <= desc[k].id + offset /\ desc[k].id + offset < next + IdsUsed(desc)
  <2>1. desc[k].id \in IdsIn(desc) BY <1>0, <1>6 DEF IdsIn, Positions
  <2>2. desc[k].id # 0 /\ desc[k].id \in 0..IdMod-1 /\ desc[k].id <= MaxId(desc) BY <1>2, <1>4, <2>1
  <2> DEFINE a == desc[k].id
             m == MaxId(desc)
  <2>3. a \in Nat /\ a >= 1 /\ a <= m /\ m \in Nat /\ next \in Nat /\ next >= 1 /\ next + m <= IdMod
    BY <1>0, <1>4, <1>5, <2>2
  <2> HIDE DEF a, m, offset
  <2>4. /\ a \in 1..IdMod-1 /\ a + offset \in 0..IdMod-1 /\ next <= a + offset /\ a + offset < next + m
    BY <1>0, <1>1, <2>3
  <2>5. (a + offset) % IdMod = a + offset
    <3> DEFINE b == a + offset
    <3>1. b \in 0..IdMod-1 BY <2>4
    <3> HIDE DEF b
    <3>2. b % IdMod = b BY <1>0, <3>1
    <3> QED BY <3>2 DEF b
  <2> QED BY <1>5, <2>4, <2>5 DEF a, m
<1>7. ASSUME NEW k \in 1..n
      PROVE  /\ seg[k] \in Item /\ seg[k].from = from /\ seg[k].kind = desc[k].kind
             /\ desc[k].kind = "id" => seg[k].id = desc[k].id + offset
  <2>1. desc[k] \in Item /\ seg[k] = Shifted(desc[k], offset, from) BY <1>0 DEF SegmentWithIds
  <2>2. CASE desc[k].kind = "id"
    <3>1. seg[k] = ReportIdItem(desc[k].id + offset, from) BY <1>6, <2>1, <2>2 DEF Shifted
    <3>2. ReportIdItem(desc[k].id + offset, from) \in Item BY <1>6, <2>1, <2>2, ItemTypes
    <3> QED BY <2>2, <3>1, <3>2 DEF ReportIdItem
  <2>3. CASE desc[k].kind # "id"
    <3>1. seg[k] = Placed(desc[k], from) BY <1>3, <2>1, <2>3 DEF Shifted, Placed
    <3>2. seg[k] \in Item /\ seg[k].kind = desc[k].kind /\ seg[k].from = from
      <4> HIDE DEF seg
      <4>1. desc[k] \in Item BY <2>1
      <4>2. /\ Placed(desc[k], from) \in Item /\ Placed(desc[k], from).kind = desc[k].kind
            /\ Placed(desc[k], from).from = from
        BY <4>1, PlacedProperties
      <4> QED BY <3>1, <4>2
    <3> HIDE DEF seg
    <3> QED BY <2>3, <3>2
  <2> QED BY <2>2, <2>3
<1>8. DOMAIN seg = 1..n /\ seg \in [1..n -> Item] BY <1>7 DEF SegmentWithIds
<1>9. seg \in Seq(Item) BY <1>0, <1>8, IsASeq
<1> HIDE DEF seg, offset, n
<1>10. ASSUME NEW p \in 1..n, ~NoIdBefore(desc, p)
       PROVE  ~NoIdBefore(seg, p) /\ CurrentId(seg, p) = CurrentId(desc, p) + offset
              /\ CurrentId(desc, p) + offset = (CurrentId(desc, p) + offset) % IdMod
  <2>0. p \in Nat BY <1>0
  <2>1. PICK q : IsLastId(desc, q, p) BY <1>10, <2>0, LastIdExists
  <2>2. q \in 1..n /\ desc[q].kind = "id" /\ q < p BY <1>0, <2>1 DEF IsLastId
  <2>3. IsLastId(seg, q, p) BY <1>0, <1>7, <1>8, <2>1 DEF IsLastId
  <2>4. CurrentId(seg, p) = seg[q].id /\ CurrentId(desc, p) = desc[q].id BY <1>9, <2>0, <2>1, <2>3, CurrentIdIs
  <2>5. ~NoIdBefore(seg, p) BY <2>3 DEF NoIdBefore, IsLastId
  <2> QED BY <1>6, <1>7, <2>2, <2>4, <2>5
<1>11. ASSUME NEW p \in 1..n, desc[p].kind \in ReportType PROVE ~NoIdBefore(desc, p)
  <2>1. p \in Positions(desc, ReportType) BY <1>0, <1>11 DEF Positions
  <2>2. CurrentId(desc, p) # 0 BY <1>2, <2>1
  <2> QED BY <1>0, <2>2, CurrentIdIs
<1>12. ASSUME NEW id \in InputIdsOf(desc)
       PROVE  \E k \in DOMAIN seg : seg[k].kind = "input" /\ CurrentId(seg, k) = ForwardedId(Assigned(desc, next), id)
  <2>1. PICK p \in 1..n : desc[p].kind = "input" /\ CurrentId(desc, p) = id
    BY <1>0, <1>12 DEF InputIdsOf, Positions
  <2>2. desc[p].kind \in ReportType BY <2>1 DEF ReportType
  <2>3. CurrentId(seg, p) = (id + offset) % IdMod BY <1>10, <1>11, <2>1, <2>2
  <2>4. ForwardedId(Assigned(desc, next), id) = (id + offset) % IdMod BY DEF ForwardedId, Assigned, offset
  <2> QED BY <1>7, <1>8, <2>1, <2>3, <2>4
<1>13. \A k \in DOMAIN seg : seg[k].kind \in ReportType => ~NoIdBefore(seg, k) BY <1>7, <1>8, <1>10, <1>11
<1>14. \A k \in DOMAIN seg : seg[k].kind = "id" => next <= seg[k].id /\ seg[k].id < next + IdsUsed(desc)
  BY <1>6, <1>7, <1>8
<1>15. Segment(seg, desc, next, from) BY <1>7, <1>8, <1>9, <1>12, <1>13, <1>14 DEF Segment
<1> QED BY <1>15 DEF seg, offset

\* With one id in front, all reports of an interface have the id it is forwarded with.
LEMMA SegmentWithoutIdsOk ==
    ASSUME NEW desc \in Seq(Item), WellFormed(desc), ~HasReportId(desc), NEW next \in 1..IdMod-1, NEW from \in Nat,
           NEW c, IsPlace(desc, c)
    PROVE  Segment(SegmentWithoutIds(desc, c, Assigned(desc, next).single_assigned_report_id, from), desc, next, from)
<1> DEFINE seg == SegmentWithoutIds(desc, c, next, from)
           n == Len(desc)
<1>0. IdMod \in Nat /\ IdMod > 1 /\ n \in Nat /\ DOMAIN desc = 1..n /\ c \in 0..n
  BY DescriptorAssumption DEF IsPlace
<1>1. Assigned(desc, next).single_assigned_report_id = next BY DEF Assigned
<1>2. \A k \in 1..n : desc[k].kind \notin {"id", "noid", "idcut"} BY <1>0 DEF HasReportId, Positions
<1>3. next \in 0..IdMod-1 /\ next \in Nat BY <1>0
<1>4. ReportIdItem(next, from) \in Item BY <1>3 DEF Item, ReportIdItem
<1>5. ASSUME NEW k \in 1..n+1
      PROVE  /\ seg[k] \in Item /\ seg[k].from = from
             /\ seg[k].kind = "id" <=> k = c + 1
             /\ k = c + 1 => seg[k].id = next
             /\ k <= c => seg[k].kind = desc[k].kind
             /\ k > c + 1 => seg[k].kind = desc[k - 1].kind /\ k - 1 \in 1..n
  <2>1. CASE k <= c
    <3>1. k \in 1..n /\ ~(k = c + 1) /\ ~(k > c + 1) BY <1>0, <2>1
    <3>2. seg[k] = Placed(desc[k], from) /\ desc[k] \in Item BY <2>1, <3>1 DEF SegmentWithoutIds
    <3> QED BY <1>2, <2>1, <3>1, <3>2, PlacedProperties
  <2>2. CASE k = c + 1
    <3>1. ~(k <= c) /\ ~(k > c + 1) BY <1>0, <2>2
    <3>2. seg[k] = ReportIdItem(next, from) BY <2>2, <3>1 DEF SegmentWithoutIds
    <3> QED BY <1>4, <2>2, <3>1, <3>2 DEF ReportIdItem
  <2>3. CASE k > c + 1
    <3> DEFINE j == k - 1
    <3>1. ~(k <= c) /\ ~(k = c + 1) /\ j \in 1..n BY <1>0, <2>3
    <3>2. seg[k] = Placed(desc[j], from) BY <3>1 DEF SegmentWithoutIds
    <3> HIDE DEF j, seg
    <3>3. desc[j] \in Item BY <3>1
    <3>4. seg[k] \in Item /\ seg[k].kind = desc[j].kind /\ seg[k].from = from
      <4>1. /\ Placed(desc[j], from) \in Item /\ Placed(desc[j], from).kind = desc[j].kind
            /\ Placed(desc[j], from).from = from
        BY <3>3, PlacedProperties
      <4> QED BY <3>2, <4>1
    <3>5. seg[k].kind # "id" BY <1>2, <3>1, <3>4
    <3> QED BY <2>3, <3>1, <3>4, <3>5 DEF j
  <2>4. k <= c \/ k = c + 1 \/ k > c + 1 BY <1>0
  <2> QED BY <2>1, <2>2, <2>3, <2>4
<1>6. DOMAIN seg = 1..n+1 /\ seg \in [1..n+1 -> Item] BY <1>5 DEF SegmentWithoutIds
<1>7. seg \in Seq(Item)
  <2>1. n + 1 \in Nat BY <1>0
  <2> QED BY <1>6, <2>1, IsASeq
<1>8. \A p \in 1..n : desc[p].kind \in ReportType => c < p
  <2> SUFFICES ASSUME NEW p \in 1..n, desc[p].kind \in ReportType PROVE c < p OBVIOUS
  <2>1. p \in Positions(desc, ReportType) BY <1>0 DEF Positions
  <2>2. Positions(desc, {"collection"}) = {} \/ \E q \in Positions(desc, {"collection"}) : q < p
    BY <2>1 DEF WellFormed
  <2>3. CASE c = 0 BY <1>0, <2>3
  <2>4. CASE c # 0
    <3>1. c \in 1..n /\ desc[c].kind = "collection" BY <1>0, <2>4 DEF IsPlace
    <3>2. c \in Positions(desc, {"collection"}) BY <1>0, <3>1 DEF Positions
    <3>3. PICK q \in Positions(desc, {"collection"}) : q < p BY <2>2, <3>2
    <3>4. q \in 1..n /\ desc[q].kind = "collection" BY <1>0, <3>3 DEF Positions
    <3>5. c <= q BY <3>4 DEF IsPlace
    <3> QED BY <1>0, <3>3, <3>4, <3>5
  <2> QED BY <2>3, <2>4
<1> HIDE DEF seg, n
<1>9. ASSUME NEW k \in 1..n+1, k > c + 1
      PROVE  ~NoIdBefore(seg, k) /\ CurrentId(seg, k) = next
  <2>1. c + 1 \in 1..n+1 /\ k \in Nat /\ c + 1 < k BY <1>0, <1>9
  <2>2. seg[c + 1].kind = "id" /\ seg[c + 1].id = next BY <1>5, <2>1
  <2>3. \A r \in 1..n+1 : (seg[r].kind = "id" /\ r < k) => r <= c + 1
    <3> SUFFICES ASSUME NEW r \in 1..n+1, seg[r].kind = "id" PROVE r <= c + 1 OBVIOUS
    <3>1. r = c + 1 BY <1>5
    <3> QED BY <1>0, <3>1
  <2>4. IsLastId(seg, c + 1, k) BY <1>6, <2>1, <2>2, <2>3 DEF IsLastId
  <2>5. ~NoIdBefore(seg, k) BY <1>6, <2>1, <2>2 DEF NoIdBefore
  <2> QED BY <1>7, <2>1, <2>2, <2>4, <2>5, CurrentIdIs
<1>10. ASSUME NEW k \in 1..n+1, seg[k].kind \in ReportType PROVE k > c + 1
  <2>1. CASE k <= c
    <3>1. k \in 1..n /\ desc[k].kind \in ReportType BY <1>0, <1>5, <1>10, <2>1
    <3>2. c < k BY <1>8, <3>1
    <3> QED BY <1>0, <2>1, <3>2
  <2>2. k # c + 1
    <3>1. seg[k].kind # "id" BY <1>10 DEF ReportType
    <3> QED BY <1>5, <3>1
  <2> QED BY <1>0, <2>1, <2>2
<1>11. IdsUsed(desc) = 1 BY DEF IdsUsed
<1>12. \A k \in DOMAIN seg : seg[k].kind = "id" => next <= seg[k].id /\ seg[k].id < next + IdsUsed(desc)
  <2> SUFFICES ASSUME NEW k \in DOMAIN seg, seg[k].kind = "id"
               PROVE  next <= seg[k].id /\ seg[k].id < next + IdsUsed(desc)
    OBVIOUS
  <2>1. seg[k].id = next BY <1>5, <1>6
  <2> QED BY <1>3, <1>11, <2>1
<1>13. \A k \in DOMAIN seg : seg[k].kind \in ReportType => ~NoIdBefore(seg, k) BY <1>6, <1>9, <1>10
<1>14. ASSUME NEW id \in InputIdsOf(desc)
       PROVE  \E k \in DOMAIN seg : seg[k].kind = "input" /\ CurrentId(seg, k) = ForwardedId(Assigned(desc, next), id)
  <2>1. PICK p \in 1..n : desc[p].kind = "input" BY <1>0, <1>14 DEF InputIdsOf, Positions
  <2>2. c < p BY <1>8, <2>1 DEF ReportType
  <2> DEFINE k == p + 1
  <2>3. k \in 1..n+1 /\ k > c + 1 /\ k - 1 = p BY <1>0, <2>2
  <2> HIDE DEF k
  <2>4. seg[k].kind = "input" BY <1>5, <2>1, <2>3
  <2>5. CurrentId(seg, k) = next BY <1>9, <2>3
  <2>6. ForwardedId(Assigned(desc, next), id) = next BY DEF ForwardedId, Assigned
  <2> QED BY <1>6, <2>3, <2>4, <2>5, <2>6
<1>15. Segment(seg, desc, next, from) BY <1>5, <1>6, <1>7, <1>12, <1>13, <1>14 DEF Segment
<1> QED BY <1>1, <1>15 DEF seg

\* Either way an interface adds a segment with its reports under the ids it is forwarded with.
LEMMA MergeDescriptorFits ==
    ASSUME NEW comb \in Combined, NEW desc \in Seq(Item), WellFormed(desc), NEW next \in 1..IdMod-1, NEW from \in Nat,
           next + IdsUsed(desc) <= IdMod, comb.bytes + Bytes(desc) + 2 <= DescMax
    PROVE  LET merged == MergeDescriptor(comb, desc, Assigned(desc, next), from)
           IN  /\ \E seg : Segment(seg, desc, next, from) /\ Grown(merged.items, comb.items, seg, Len(seg))
               /\ merged.bytes <= comb.bytes + Bytes(desc) + 2
<1> DEFINE itf == Assigned(desc, next)
           merged == MergeDescriptor(comb, desc, itf, from)
<1>0. IdMod \in Nat /\ DescMax \in Nat /\ comb.bytes \in Nat /\ Bytes(desc) \in Nat /\ Len(desc) \in Nat
  BY DescriptorAssumption, BytesNat DEF Combined
<1>1. next \in 0..IdMod-1 /\ itf.has_report_id = HasReportId(desc) BY <1>0 DEF Assigned
<1>2. itf \in AssignedIds BY <1>1, AssignedType
<1>3. merged \in Combined
  <2> HIDE DEF itf
  <2> QED BY <1>2, MergeDescriptorType
<1>4. CASE HasReportId(desc)
  <2> DEFINE offset == itf.report_id_offset
             seg == SegmentWithIds(desc, offset, from)
  <2>1. offset \in Nat BY <1>2 DEF AssignedIds
  <2>2. merged = MergeWithIds(comb, desc, offset, from) BY <1>1, <1>4 DEF MergeDescriptor
  <2>3. Segment(seg, desc, next, from) BY <1>4, SegmentWithIdsOk
  <2>4. Len(seg) = Len(desc)
    <3>1. DOMAIN seg = 1..Len(desc) /\ seg \in Seq(Item) BY <2>3 DEF Segment, SegmentWithIds
    <3> HIDE DEF seg
    <3> QED BY <1>0, <3>1
  <2>5. comb.bytes + Bytes(desc) <= DescMax BY <1>0
  <2> HIDE DEF offset, merged, itf
  <2>6. Grown(merged.items, comb.items, seg, Len(desc)) /\ merged.bytes <= comb.bytes + Bytes(desc)
    BY <2>1, <2>2, <2>5, ShiftFits
  <2>7. merged.bytes \in Nat BY <1>3 DEF Combined
  <2>8. merged.bytes <= comb.bytes + Bytes(desc) + 2 BY <1>0, <2>6, <2>7
  <2> HIDE DEF seg
  <2> QED BY <2>3, <2>4, <2>6, <2>8 DEF merged, itf
<1>5. CASE ~HasReportId(desc)
  <2> DEFINE id == itf.single_assigned_report_id
  <2>1. id \in 0..IdMod-1 BY <1>2 DEF AssignedIds
  <2>2. merged = MergeWithoutIds(comb, desc, id, from) BY <1>1, <1>5 DEF MergeDescriptor
  <2>3. PICK c : IsPlace(desc, c) BY PlaceExists
  <2> DEFINE seg == SegmentWithoutIds(desc, c, id, from)
  <2>4. Segment(seg, desc, next, from) BY <1>5, <2>3, SegmentWithoutIdsOk
  <2>5. Len(seg) = Len(desc) + 1
    <3>1. DOMAIN seg = 1..Len(desc)+1 /\ seg \in Seq(Item) BY <2>4 DEF Segment, SegmentWithoutIds
    <3> HIDE DEF seg
    <3> QED BY <1>0, <3>1
  <2> HIDE DEF id, merged, itf
  <2>6. Grown(merged.items, comb.items, seg, Len(desc) + 1) /\ merged.bytes <= comb.bytes + Bytes(desc) + 2
    BY <2>1, <2>2, <2>3, WithoutIdsFits
  <2> HIDE DEF seg
  <2> QED BY <2>4, <2>5, <2>6 DEF merged, itf
<1> QED BY <1>4, <1>5

-----------------------------------------------------------------------------
(***************************************************************************)
(* The loop over the interfaces, when everything fits                      *)
(***************************************************************************)
\* Of the first k interfaces: u[i] is how many ids the first i of them use up.
Served(items, itfs, descs, u, k) ==
    /\ items \in Seq(Item)
    /\ \A p \in DOMAIN items : items[p].from \in 1..k
    /\ \A p \in DOMAIN items : items[p].kind = "id" =>
         1 + u[items[p].from - 1] <= items[p].id /\ items[p].id < 1 + u[items[p].from]
    /\ \A p \in DOMAIN items : items[p].kind \in ReportType =>
         \E q : IsLastId(items, q, p) /\ items[q].from = items[p].from
    /\ \A i \in 1..k : \A id \in InputIdsOf(descs[i]) :
         \E p \in DOMAIN items : /\ items[p].kind = "input" /\ items[p].from = i
                                 /\ CurrentId(items, p) = ForwardedId(itfs[i], id)

\* The Report ID in force is the same in the grown descriptor, before the segment and in it.
LEMMA GrownLastId ==
    ASSUME NEW base \in Seq(Item), NEW seg \in Seq(Item), NEW items, Grown(items, base, seg, Len(seg))
    PROVE  /\ \A p \in DOMAIN base : \A q : IsLastId(base, q, p) => IsLastId(items, q, p)
           /\ \A r \in DOMAIN seg : \A q : IsLastId(seg, q, r) => IsLastId(items, Len(base) + q, Len(base) + r)
<1> DEFINE b == Len(base)
           n == Len(seg)
<1>1. /\ b \in Nat /\ n \in Nat /\ DOMAIN base = 1..b /\ DOMAIN seg = 1..n /\ DOMAIN items = 1..b+n
      /\ \A j \in 1..b : items[j] = base[j]
      /\ \A j \in 1..n : items[b + j] = seg[j]
  BY DEF Grown
<1> HIDE DEF b, n
<1>2. ASSUME NEW p \in DOMAIN base, NEW q, IsLastId(base, q, p) PROVE IsLastId(items, q, p)
  <2>1. q \in 1..b /\ q \in 1..b+n /\ q < p BY <1>1, <1>2 DEF IsLastId
  <2>2. ASSUME NEW r \in 1..b+n, items[r].kind = "id", r < p PROVE r <= q
    <3>1. r \in 1..b BY <1>1, <2>2
    <3> QED BY <1>1, <1>2, <2>2, <3>1 DEF IsLastId
  <2> QED BY <1>1, <1>2, <2>1, <2>2 DEF IsLastId
<1>3. ASSUME NEW r \in DOMAIN seg, NEW q, IsLastId(seg, q, r) PROVE IsLastId(items, b + q, b + r)
  <2>1. q \in 1..n /\ b + q \in 1..b+n /\ b + q < b + r /\ r \in 1..n BY <1>1, <1>3 DEF IsLastId
  <2>2. items[b + q].kind = "id" BY <1>1, <1>3, <2>1 DEF IsLastId
  <2>3. ASSUME NEW x \in 1..b+n, items[x].kind = "id", x < b + r PROVE x <= b + q
    <3>1. CASE x <= b BY <1>1, <2>1, <3>1
    <3>2. CASE ~(x <= b)
      <4> DEFINE y == x - b
      <4>1. y \in 1..n /\ x = b + y /\ y < r BY <1>1, <2>1, <2>3, <3>2
      <4> HIDE DEF y
      <4>2. seg[y].kind = "id" BY <1>1, <2>3, <4>1
      <4>3. y <= q BY <1>1, <1>3, <4>1, <4>2 DEF IsLastId
      <4> QED BY <1>1, <2>1, <4>1, <4>3
    <3> QED BY <3>1, <3>2
  <2> QED BY <1>1, <2>1, <2>2, <2>3 DEF IsLastId
<1> QED BY <1>2, <1>3 DEF b

\* One more interface merged leaves those before it as they are and serves its own reports.
LEMMA ServedNext ==
    ASSUME NEW descs \in Descs, NEW k \in 1..Len(descs), NEW u \in [0..Len(descs) -> Nat],
           u[k] = u[k - 1] + IdsUsed(descs[k]),
           NEW base, NEW itfs \in Seq(AssignedIds), Len(itfs) = k - 1, Served(base, itfs, descs, u, k - 1),
           NEW seg, Segment(seg, descs[k], 1 + u[k - 1], k),
           NEW items, Grown(items, base, seg, Len(seg))
    PROVE  Served(items, Append(itfs, Assigned(descs[k], 1 + u[k - 1])), descs, u, k)
<1> DEFINE b == Len(base)
           n == Len(seg)
           itf == Assigned(descs[k], 1 + u[k - 1])
           more == Append(itfs, itf)
<1>0. /\ base \in Seq(Item) /\ seg \in Seq(Item) /\ items \in Seq(Item) /\ k \in Nat /\ Len(descs) \in Nat
      /\ u[k - 1] \in Nat /\ k - 1 \in Nat
  BY DEF Served, Segment, Grown, Descs
<1>1. /\ b \in Nat /\ n \in Nat /\ DOMAIN base = 1..b /\ DOMAIN seg = 1..n /\ DOMAIN items = 1..b+n
      /\ \A j \in 1..b : items[j] = base[j]
      /\ \A j \in 1..n : items[b + j] = seg[j]
  <2>1. b \in Nat /\ n \in Nat /\ DOMAIN base = 1..b /\ DOMAIN seg = 1..n BY <1>0
  <2>2. Len(items) = b + n /\ DOMAIN items = 1..Len(items) BY <1>0 DEF Grown
  <2>3. (\A j \in 1..b : items[j] = base[j]) /\ \A j \in 1..n : items[b + j] = seg[j] BY DEF Grown
  <2> HIDE DEF b, n
  <2> QED BY <2>1, <2>2, <2>3
<1>2. \A i \in 1..k-1 : more[i] = itfs[i]
  <2> HIDE DEF itf
  <2> QED BY <1>0
<1>3. more[k] = itf
  <2>1. k = Len(itfs) + 1 BY <1>0
  <2> HIDE DEF itf
  <2> QED BY <2>1
<1> HIDE DEF b, n, more
<1>4. \A x \in 1..b+n : x \in 1..b \/ \E j \in 1..n : x = b + j
  <2> SUFFICES ASSUME NEW x \in 1..b+n, ~(x \in 1..b) PROVE \E j \in 1..n : x = b + j OBVIOUS
  <2>1. x - b \in 1..n /\ x = b + (x - b) BY <1>1
  <2> QED BY <2>1
<1>5. \A x \in 1..b : x \in 1..b+n BY <1>1
<1>6. \A j \in 1..n : b + j \in 1..b+n BY <1>1
<1>7. ASSUME NEW x \in 1..b+n
      PROVE  /\ items[x].from \in 1..k
             /\ items[x].kind = "id" =>
                  1 + u[items[x].from - 1] <= items[x].id /\ items[x].id < 1 + u[items[x].from]
             /\ items[x].kind \in ReportType => \E q : IsLastId(items, q, x) /\ items[q].from = items[x].from
  <2>1. CASE x \in 1..b
    <3>1. items[x] = base[x] /\ x \in DOMAIN base BY <1>1, <2>1
    <3>2. items[x].from \in 1..k-1 BY <3>1 DEF Served
    <3>3. items[x].kind = "id" =>
             1 + u[items[x].from - 1] <= items[x].id /\ items[x].id < 1 + u[items[x].from]
      BY <3>1 DEF Served
    <3>4. ASSUME items[x].kind \in ReportType PROVE \E q : IsLastId(items, q, x) /\ items[q].from = items[x].from
      <4>1. PICK q : IsLastId(base, q, x) /\ base[q].from = base[x].from BY <3>1, <3>4 DEF Served
      <4>2. q \in 1..b BY <1>1, <4>1 DEF IsLastId
      <4>3. IsLastId(items, q, x) BY <1>0, <3>1, <4>1, GrownLastId
      <4> QED BY <1>1, <3>1, <4>1, <4>2, <4>3
    <3> QED BY <1>0, <3>2, <3>3, <3>4
  <2>2. CASE \E j \in 1..n : x = b + j
    <3>1. PICK j \in 1..n : x = b + j BY <2>2
    <3>2. items[x] = seg[j] /\ j \in DOMAIN seg BY <1>1, <3>1
    <3>3. seg[j].from = k BY <3>2 DEF Segment
    <3>4. seg[j].kind = "id" => 1 + u[k - 1] <= seg[j].id /\ seg[j].id < 1 + u[k]
      <4>1. seg[j].kind = "id" => 1 + u[k - 1] <= seg[j].id /\ seg[j].id < 1 + u[k - 1] + IdsUsed(descs[k])
        BY <3>2 DEF Segment
      <4>2. 1 + u[k - 1] + IdsUsed(descs[k]) = 1 + u[k]
        <5>1. descs[k] \in Seq(Item) BY DEF Descs
        <5>2. IdsUsed(descs[k]) \in 1..IdMod-1 BY <5>1, MaxIdProperties
        <5> QED BY <1>0, <5>2, DescriptorAssumption
      <4> QED BY <4>1, <4>2
    <3>5. ASSUME seg[j].kind \in ReportType PROVE \E q : IsLastId(items, q, x) /\ items[q].from = items[x].from
      <4>1. ~NoIdBefore(seg, j) BY <3>2, <3>5 DEF Segment
      <4>2. j \in Nat BY <1>1, <3>1
      <4>3. PICK q : IsLastId(seg, q, j) BY <1>0, <4>1, <4>2, LastIdExists
      <4>4. q \in 1..n BY <1>1, <4>3 DEF IsLastId
      <4>5. IsLastId(items, b + q, b + j) BY <1>0, <3>2, <4>3, GrownLastId DEF b
      <4>6. items[b + q] = seg[q] /\ seg[q].from = k BY <1>1, <4>4 DEF Segment
      <4> QED BY <3>1, <3>2, <3>3, <4>5, <4>6
    <3>6. k \in 1..k BY <1>0
    <3> QED BY <3>2, <3>3, <3>4, <3>5, <3>6
  <2> QED BY <1>4, <2>1, <2>2
<1>8. ASSUME NEW i \in 1..k, NEW id \in InputIdsOf(descs[i])
      PROVE  \E p \in DOMAIN items : /\ items[p].kind = "input" /\ items[p].from = i
                                     /\ CurrentId(items, p) = ForwardedId(more[i], id)
  <2>1. CASE i \in 1..k-1
    <3>1. PICK p \in DOMAIN base : /\ base[p].kind = "input" /\ base[p].from = i
                                   /\ CurrentId(base, p) = ForwardedId(itfs[i], id)
      BY <2>1, <1>8 DEF Served
    <3>2. p \in 1..b /\ p \in DOMAIN items /\ p \in Nat /\ items[p] = base[p] BY <1>1, <1>5, <3>1
    <3>3. PICK q : IsLastId(base, q, p) BY <3>1 DEF Served, ReportType
    <3>4. q \in 1..b BY <1>1, <3>3 DEF IsLastId
    <3>5. IsLastId(items, q, p) BY <1>0, <3>1, <3>3, GrownLastId
    <3>6. CurrentId(items, p) = items[q].id /\ CurrentId(base, p) = base[q].id
      BY <1>0, <3>2, <3>3, <3>5, CurrentIdIs
    <3> QED BY <1>1, <1>2, <2>1, <3>1, <3>2, <3>4, <3>6
  <2>2. CASE i = k
    <3>1. PICK j \in DOMAIN seg : seg[j].kind = "input" /\ CurrentId(seg, j) = ForwardedId(itf, id)
      BY <1>8, <2>2 DEF Segment
    <3>2. j \in 1..n /\ j \in Nat /\ b + j \in Nat /\ b + j \in DOMAIN items /\ items[b + j] = seg[j]
      BY <1>1, <1>6, <3>1
    <3>3. ~NoIdBefore(seg, j) BY <3>1 DEF Segment, ReportType
    <3>4. PICK q : IsLastId(seg, q, j) BY <1>0, <3>2, <3>3, LastIdExists
    <3>5. q \in 1..n BY <1>1, <3>4 DEF IsLastId
    <3>6. IsLastId(items, b + q, b + j) BY <1>0, <3>1, <3>4, GrownLastId DEF b
    <3>7. CurrentId(items, b + j) = items[b + q].id /\ CurrentId(seg, j) = seg[q].id
      BY <1>0, <3>2, <3>4, <3>6, CurrentIdIs
    <3>8. seg[j].from = k BY <3>1 DEF Segment
    <3> HIDE DEF itf
    <3> QED BY <1>1, <1>3, <2>2, <3>1, <3>2, <3>5, <3>7, <3>8
  <2>3. i \in 1..k-1 \/ i = k BY <1>0
  <2> QED BY <2>1, <2>2, <2>3
<1>9. Served(items, more, descs, u, k) BY <1>0, <1>1, <1>7, <1>8 DEF Served
<1> QED BY <1>9 DEF more

IdCounts(descs) == [i \in DOMAIN descs |-> IdsUsed(descs[i])]
ByteCounts(descs) == [i \in DOMAIN descs |-> Bytes(descs[i]) + 2]

\* The ids and bytes needed are sums over the interfaces.
LEMMA CountTypes ==
    ASSUME NEW descs \in Descs
    PROVE  /\ IdCounts(descs) \in Seq(Nat) /\ Len(IdCounts(descs)) = Len(descs)
           /\ IdsNeeded(descs) = Total(IdCounts(descs))
           /\ ByteCounts(descs) \in Seq(Nat) /\ Len(ByteCounts(descs)) = Len(descs)
           /\ BytesNeeded(descs) = Total(ByteCounts(descs))
<1> DEFINE n == Len(descs)
<1>1. DOMAIN descs = 1..n /\ n \in Nat /\ \A i \in 1..n : descs[i] \in Seq(Item) BY DEF Descs
<1>2. \A i \in 1..n : IdsUsed(descs[i]) \in Nat
  <2> TAKE i \in 1..n
  <2>1. IdsUsed(descs[i]) \in 1..IdMod-1 BY <1>1, MaxIdProperties
  <2> QED BY <2>1
<1>3. \A i \in 1..n : Bytes(descs[i]) + 2 \in Nat
  <2> TAKE i \in 1..n
  <2>1. Bytes(descs[i]) \in Nat BY <1>1, BytesNat
  <2> QED BY <2>1
<1>4. IdCounts(descs) \in [1..n -> Nat] /\ ByteCounts(descs) \in [1..n -> Nat]
  BY <1>1, <1>2, <1>3 DEF IdCounts, ByteCounts
<1> HIDE DEF n
<1>5. IdCounts(descs) \in Seq(Nat) /\ ByteCounts(descs) \in Seq(Nat) BY <1>1, <1>4, IsASeq
<1>6. Len(IdCounts(descs)) = n /\ Len(ByteCounts(descs)) = n BY <1>1, <1>4, <1>5
<1>7. IdsNeeded(descs) = Total(IdCounts(descs)) /\ BytesNeeded(descs) = Total(ByteCounts(descs))
  BY DEF IdsNeeded, BytesNeeded, IdCounts, ByteCounts
<1> QED BY <1>5, <1>6, <1>7 DEF n

\* One step of the run.
LEMMA MergeStep ==
    ASSUME NEW descs \in Descs, NEW g, IsRun(g, Len(descs), MergedType, NothingMerged, MergeSteps(descs)),
           NEW k \in 1..Len(descs)
    PROVE  g[k - 1] \in MergedType /\ g[k] \in MergedType /\ g[k] = MergeNext(g[k - 1], descs[k])
<1>1. Len(descs) \in Nat BY DEF Descs
<1>2. k - 1 \in 0..Len(descs) /\ k \in 0..Len(descs) BY <1>1
<1>3. g[k - 1] \in MergedType /\ g[k] \in MergedType /\ g[k] = MergeSteps(descs)[k][g[k - 1]] BY <1>2 DEF IsRun
<1> QED BY <1>3 DEF MergeSteps

\* Each iteration adds the ids of one interface.
LEMMA MergeLength ==
    ASSUME NEW descs \in Descs, NEW g, IsRun(g, Len(descs), MergedType, NothingMerged, MergeSteps(descs))
    PROVE  \A k \in 0..Len(descs) : g[k] \in MergedType /\ Len(g[k].itfs) = k
<1> DEFINE n == Len(descs)
           T == {k \in 0..n : g[k] \in MergedType /\ Len(g[k].itfs) = k}
<1>1. n \in Nat BY DEF Descs
<1>2. 0 \in T
  <2>1. g[0] = NothingMerged BY DEF IsRun
  <2> QED BY <1>1, <2>1, MergeTypes DEF NothingMerged
<1>3. ASSUME NEW k \in 1..n, k - 1 \in T PROVE k \in T
  <2>1. g[k - 1] \in MergedType /\ g[k] \in MergedType /\ g[k] = MergeNext(g[k - 1], descs[k]) BY MergeStep
  <2> DEFINE itf == Assigned(descs[k], g[k - 1].next_report_id)
  <2>2. g[k].itfs = Append(g[k - 1].itfs, itf) BY <2>1 DEF MergeNext
  <2>3. g[k - 1].itfs \in Seq(AssignedIds) /\ Len(g[k - 1].itfs) = k - 1 BY <1>3, <2>1 DEF MergedType
  <2> HIDE DEF itf
  <2>4. Len(g[k].itfs) = Len(g[k - 1].itfs) + 1 BY <2>2, <2>3
  <2> QED BY <1>1, <2>1, <2>3, <2>4
<1>4. \A k \in 0..n : k \in T
  <2> HIDE DEF T
  <2> QED BY <1>1, <1>2, <1>3, UpTo
<1> QED BY <1>4

\* Within the limits every interface is served when all are merged.
LEMMA MergedServed ==
    ASSUME NEW descs \in Descs, \A i \in DOMAIN descs : WellFormed(descs[i]),
           IdsNeeded(descs) < IdMod, BytesNeeded(descs) <= DescMax,
           NEW u, IsRun(u, Len(IdCounts(descs)), Nat, 0, TotalSteps(IdCounts(descs)))
    PROVE  LET merged == MergeAll(descs)
           IN  merged \in MergedType /\ Served(merged.combined.items, merged.itfs, descs, u, Len(descs))
<1> DEFINE n == Len(descs)
           ids == IdCounts(descs)
           bytes == ByteCounts(descs)
<1>1. PICK g : /\ IsRun(g, Len(descs), MergedType, NothingMerged, MergeSteps(descs))
               /\ g[Len(descs)] = MergeAll(descs)
  BY MergeRun
<1>2. /\ ids \in Seq(Nat) /\ Len(ids) = n /\ IdsNeeded(descs) = Total(ids)
      /\ bytes \in Seq(Nat) /\ Len(bytes) = n /\ BytesNeeded(descs) = Total(bytes)
      /\ n \in Nat /\ DOMAIN descs = 1..n
  BY CountTypes DEF Descs
<1>3. PICK v : IsRun(v, Len(bytes), Nat, 0, TotalSteps(bytes)) /\ v[Len(bytes)] = Total(bytes)
  <2> HIDE DEF bytes
  <2> QED BY <1>2, TotalRun
<1>4. u \in [0..n -> Nat] /\ u[0] = 0 /\ v[0] = 0 /\ IdMod \in Nat /\ IdMod > 1 /\ DescMax \in Nat
  BY <1>2, <1>3, DescriptorAssumption DEF IsRun
<1>5. u[n] = Total(ids)
  <2>1. PICK w : IsRun(w, Len(ids), Nat, 0, TotalSteps(ids)) /\ w[Len(ids)] = Total(ids)
    <3> HIDE DEF ids
    <3> QED BY <1>2, TotalRun
  <2> DEFINE E == {k \in 0..n : w[k] = u[k]}
  <2>2. 0 \in E BY <1>2, <1>4, <2>1 DEF IsRun
  <2>3. ASSUME NEW k \in 1..n, k - 1 \in E PROVE k \in E
    <3>1. k \in 1..Len(ids) /\ k \in 0..n BY <1>2
    <3> HIDE DEF ids
    <3>2. u[k] = u[k - 1] + ids[k] /\ w[k] = w[k - 1] + ids[k] BY <1>2, <2>1, <3>1, TotalStep DEF ids
    <3> QED BY <2>3, <3>1, <3>2
  <2>4. \A k \in 0..n : k \in E
    <3> HIDE DEF E
    <3> QED BY <1>2, <2>2, <2>3, UpTo
  <2>5. n \in 0..n BY <1>2
  <2> QED BY <1>2, <2>1, <2>4, <2>5
<1> DEFINE T == {k \in 0..n : /\ Served(g[k].combined.items, g[k].itfs, descs, u, k)
                              /\ g[k].next_report_id = (1 + u[k]) % IdMod
                              /\ g[k].combined.bytes <= v[k]}
<1>6. 0 \in T
  <2>1. g[0] = NothingMerged BY <1>1 DEF IsRun
  <2>2. /\ g[0].combined.items = <<>> /\ g[0].itfs = <<>> /\ g[0].next_report_id = 1 /\ g[0].combined.bytes = 0
    BY <2>1 DEF NothingMerged
  <2>3. Served(<<>>, <<>>, descs, u, 0) BY DEF Served
  <2>4. (1 + u[0]) % IdMod = 1 BY <1>4
  <2>5. 0 \in 0..n BY <1>2
  <2> QED BY <1>4, <2>2, <2>3, <2>4, <2>5
<1>7. ASSUME NEW k \in 1..n, k - 1 \in T PROVE k \in T
  <2> DEFINE j == k - 1
             m == g[j]
             desc == descs[k]
             next == 1 + u[j]
             itf == Assigned(desc, next)
             comb == MergeDescriptor(m.combined, desc, itf, k)
  <2>1. j \in 0..n /\ k \in 0..n /\ j + 1 = k /\ j \in Nat /\ k \in Nat BY <1>2
  <2>2. desc \in Seq(Item) /\ WellFormed(desc)
    <3>1. k \in DOMAIN descs BY <1>2
    <3>2. descs[k] \in Seq(Item) BY DEF Descs
    <3> QED BY <3>1, <3>2
  <2>3. m \in MergedType /\ g[k] = MergeNext(m, desc) BY <1>1, MergeStep
  <2>4. Len(m.itfs) = j BY <1>1, <2>1, MergeLength
  <2>5. IdsUsed(desc) \in 1..IdMod-1 /\ Bytes(desc) \in Nat BY <2>2, MaxIdProperties, BytesNat
  <2>6. ids[k] = IdsUsed(desc) /\ bytes[k] = Bytes(desc) + 2 BY <1>2 DEF IdCounts, ByteCounts
  <2>7. /\ u[k] = u[j] + IdsUsed(desc) /\ u[j] \in Nat /\ u[k] \in Nat /\ u[k] <= u[n]
        /\ v[k] = v[j] + (Bytes(desc) + 2) /\ v[j] \in Nat /\ v[k] \in Nat /\ v[k] <= v[n]
    <3>1. k \in 1..Len(ids) /\ k \in 0..Len(ids) /\ k \in 1..Len(bytes) /\ k \in 0..Len(bytes) BY <1>2, <2>1
    <3>2. IsRun(u, Len(ids), Nat, 0, TotalSteps(ids)) OBVIOUS
    <3> HIDE DEF ids, bytes
    <3>3. u[k] = u[j] + ids[k] /\ u[j] \in Nat /\ u[k] \in Nat /\ u[k] <= u[Len(ids)]
      BY <1>2, <3>1, <3>2, TotalStep, TotalSoFar
    <3>4. v[k] = v[j] + bytes[k] /\ v[j] \in Nat /\ v[k] \in Nat /\ v[k] <= v[Len(bytes)]
      BY <1>2, <1>3, <3>1, TotalStep, TotalSoFar
    <3> QED BY <1>2, <2>6, <3>3, <3>4
  <2>8. u[k] < IdMod /\ v[k] <= DescMax
    <3>1. u[n] < IdMod /\ v[n] <= DescMax BY <1>2, <1>3, <1>5
    <3>2. u[n] \in Nat /\ v[n] \in Nat
      <4>1. n \in 0..n /\ n \in 0..Len(bytes) BY <1>2
      <4>2. v \in [0..Len(bytes) -> Nat] BY <1>3 DEF IsRun
      <4> QED BY <1>4, <4>1, <4>2
    <3> DEFINE a == u[k]
               b == u[n]
               c == v[k]
               d == v[n]
    <3>3. a \in Nat /\ b \in Nat /\ c \in Nat /\ d \in Nat /\ a <= b /\ b < IdMod /\ c <= d /\ d <= DescMax
      BY <2>7, <3>1, <3>2
    <3> HIDE DEF a, b, c, d
    <3>4. a < IdMod /\ c <= DescMax BY <1>4, <3>3
    <3> QED BY <3>4 DEF a, c
  <2>9. next \in 1..IdMod-1 /\ next + IdsUsed(desc) <= IdMod /\ next % IdMod = next
        /\ (next + IdsUsed(desc)) % IdMod = (1 + u[k]) % IdMod
    <3> DEFINE a == u[j]
               d == IdsUsed(desc)
    <3>1. a \in Nat /\ d \in 1..IdMod-1 /\ u[k] = a + d /\ u[k] < IdMod BY <1>2, <1>4, <2>5, <2>7, <2>8
    <3> HIDE DEF a, d
    <3>2. 1 + a \in 1..IdMod-1 /\ 1 + a + d <= IdMod BY <1>4, <3>1
    <3>3. (1 + a) % IdMod = 1 + a
      <4> DEFINE x == 1 + a
      <4>1. x \in 1..IdMod-1 BY <3>2
      <4> HIDE DEF x
      <4>2. x % IdMod = x BY <1>4, <4>1
      <4> QED BY <4>2 DEF x
    <3>4. 1 + a + d = 1 + u[k] BY <3>1
    <3> QED BY <3>2, <3>3, <3>4 DEF a, d
  <2>10. m.next_report_id = next /\ m.combined.bytes <= v[j] /\ Served(m.combined.items, m.itfs, descs, u, j)
    <3>1. j \in T BY <1>7
    <3>2. m.next_report_id = (1 + u[j]) % IdMod /\ m.combined.bytes <= v[j]
          /\ Served(m.combined.items, m.itfs, descs, u, j)
      BY <3>1
    <3> QED BY <2>9, <3>2
  <2>11. m.combined \in Combined /\ m.combined.bytes \in Nat /\ m.itfs \in Seq(AssignedIds)
    BY <2>3 DEF MergedType, Combined
  <2>12. m.combined.bytes + Bytes(desc) + 2 <= v[k] /\ m.combined.bytes + Bytes(desc) + 2 <= DescMax
    <3> DEFINE a == m.combined.bytes
               d == Bytes(desc)
    <3>1. a \in Nat /\ d \in Nat /\ v[k] = v[j] + (d + 2) /\ a <= v[j] /\ v[k] <= DescMax /\ v[j] \in Nat /\ v[k] \in Nat
      BY <1>4, <2>5, <2>7, <2>8, <2>10, <2>11
    <3> HIDE DEF a, d, j
    <3>2. a + d + 2 <= v[k] /\ a + d + 2 <= DescMax BY <1>4, <3>1
    <3> QED BY <3>2 DEF a, d
  <2>13. g[k] = [itfs |-> Append(m.itfs, itf), combined |-> comb,
                 next_report_id |-> (next + IdsUsed(desc)) % IdMod]
    BY <2>1, <2>3, <2>4, <2>10 DEF MergeNext
  <2> HIDE DEF j, m, desc, next, itf, comb
  <2>14. PICK seg : Segment(seg, desc, next, k) /\ Grown(comb.items, m.combined.items, seg, Len(seg))
    BY <2>1, <2>2, <2>9, <2>11, <2>12, MergeDescriptorFits DEF comb, itf
  <2>15. comb.bytes <= v[k]
    <3>1. comb.bytes <= m.combined.bytes + Bytes(desc) + 2
      BY <2>1, <2>2, <2>9, <2>11, <2>12, MergeDescriptorFits DEF comb, itf
    <3>2. comb \in Combined
      <4>1. g[k] \in MergedType BY <1>1, MergeStep
      <4>2. g[k].combined = comb BY <2>13
      <4> QED BY <4>1, <4>2 DEF MergedType
    <3>3. comb.bytes \in Nat BY <3>2 DEF Combined
    <3> DEFINE a == m.combined.bytes + Bytes(desc) + 2
    <3>4. a \in Nat /\ a <= v[k] /\ comb.bytes <= a /\ v[k] \in Nat BY <2>5, <2>7, <2>11, <2>12, <3>1
    <3> HIDE DEF a
    <3> QED BY <3>3, <3>4
  <2>16. Served(comb.items, Append(m.itfs, itf), descs, u, k)
    <3>1. Len(m.itfs) = k - 1 /\ Served(m.combined.items, m.itfs, descs, u, k - 1) BY <2>4, <2>10 DEF j
    <3>2. Segment(seg, descs[k], 1 + u[k - 1], k) BY <2>14 DEF desc, next, j
    <3>3. u[k] = u[k - 1] + IdsUsed(descs[k]) BY <2>7 DEF desc, j
    <3>4. itf = Assigned(descs[k], 1 + u[k - 1]) BY DEF itf, desc, next, j
    <3>5. u \in [0..Len(descs) -> Nat] BY <1>4
    <3> DEFINE more == Append(m.itfs, Assigned(descs[k], 1 + u[k - 1]))
    <3>6. Served(comb.items, more, descs, u, k)
      BY <2>11, <2>14, <3>1, <3>2, <3>3, <3>5, ServedNext
    <3> QED BY <3>4, <3>6
  <2>17. /\ g[k].combined.items = comb.items /\ g[k].combined.bytes = comb.bytes
         /\ g[k].itfs = Append(m.itfs, itf) /\ g[k].next_report_id = (1 + u[k]) % IdMod
    BY <2>9, <2>13
  <2> QED BY <2>1, <2>15, <2>16, <2>17
<1>8. n \in T
  <2> HIDE DEF T
  <2>1. \A k \in 0..n : k \in T BY <1>2, <1>6, <1>7, UpTo
  <2> QED BY <1>2, <2>1
<1>9. g[n] \in MergedType
  <2>1. n \in 0..n BY <1>2
  <2> QED BY <1>1, <2>1 DEF IsRun
<1> QED BY <1>1, <1>8, <1>9

\* A report of a mounted interface has an entry in the table, under an id no other interface declares.
LEMMA ReportHome ==
    ASSUME NEW descs \in Descs, WithinLimits(descs, MergeAll(descs).combined.items),
           NEW i \in DOMAIN descs, NEW id \in InputIdsOf(descs[i])
    PROVE  LET merged == MergeAll(descs)
               items == merged.combined.items
               byte == ForwardedId(merged.itfs[i], id)
           IN  /\ Declarers(items, byte) = {i}
               /\ Parsed(items) \in ParseType /\ Parsed(items).use_report_ids
               /\ EntryFor(Parsed(items), byte) \in DOMAIN Parsed(items).ble_reports
               /\ Parsed(items).ble_reports[EntryFor(Parsed(items), byte)] = [id |-> byte, type |-> "input"]
<1> DEFINE merged == MergeAll(descs)
           items == merged.combined.items
           byte == ForwardedId(merged.itfs[i], id)
           n == Len(descs)
           ids == IdCounts(descs)
<1>1. /\ \A j \in DOMAIN descs : WellFormed(descs[j])
      /\ IdsNeeded(descs) < IdMod /\ BytesNeeded(descs) <= DescMax
      /\ Cardinality(Declared(items)) <= MaxBleReports
  BY DEF WithinLimits
<1>2. ids \in Seq(Nat) /\ Len(ids) = n /\ DOMAIN descs = 1..n /\ n \in Nat BY CountTypes DEF Descs
<1>3. PICK u : IsRun(u, Len(ids), Nat, 0, TotalSteps(ids))
  <2> HIDE DEF ids
  <2> QED BY <1>2, TotalRun
<1>4. Served(items, merged.itfs, descs, u, n) BY <1>1, <1>3, MergedServed
<1>5. items \in Seq(Item) BY <1>4 DEF Served
<1> HIDE DEF merged
<1>6. PICK p \in DOMAIN items : items[p].kind = "input" /\ items[p].from = i /\ CurrentId(items, p) = byte
  <2>1. i \in 1..n BY <1>2
  <2> QED BY <1>4, <2>1 DEF Served
<1> HIDE DEF items, byte
<1>7. ASSUME NEW q \in Positions(items, ReportType), CurrentId(items, q) = byte
      PROVE  items[q].from \in 1..n /\ 1 + u[items[q].from - 1] <= byte /\ byte < 1 + u[items[q].from]
  <2>1. q \in DOMAIN items /\ items[q].kind \in ReportType /\ q \in Nat BY <1>5 DEF Positions
  <2>2. PICK r : IsLastId(items, r, q) /\ items[r].from = items[q].from BY <1>4, <2>1 DEF Served
  <2>3. byte = items[r].id BY <1>5, <1>7, <2>1, <2>2, CurrentIdIs
  <2>4. r \in DOMAIN items /\ items[r].kind = "id" BY <2>2 DEF IsLastId
  <2>5. items[r].from \in 1..n /\ 1 + u[items[r].from - 1] <= items[r].id /\ items[r].id < 1 + u[items[r].from]
    BY <1>4, <2>4 DEF Served
  <2> QED BY <2>2, <2>3, <2>5
<1>8. byte \in Nat
  <2>1. p \in Nat BY <1>5
  <2>2. byte \in 0..IdMod-1 BY <1>5, <1>6, <2>1, CurrentIdRange
  <2> QED BY <2>2
<1>9. \A j \in 0..n : u[j] \in Nat /\ \A m \in 0..j : u[m] <= u[j]
  <2>1. \A j \in 0..Len(ids) : u[j] \in Nat BY <1>3 DEF IsRun
  <2>2. \A j \in 0..Len(ids) : \A m \in 0..j : u[m] <= u[j]
    <3> HIDE DEF ids
    <3> QED BY <1>2, <1>3, TotalGrows
  <2> HIDE DEF ids, n
  <2> QED BY <1>2, <2>1, <2>2
<1>10. ASSUME NEW a \in 1..n, NEW b \in 1..n, 1 + u[a - 1] <= byte, byte < 1 + u[a],
              1 + u[b - 1] <= byte, byte < 1 + u[b]
       PROVE  ~(a < b)
  <2> SUFFICES ASSUME a < b PROVE FALSE OBVIOUS
  <2>1. a \in 0..b-1 /\ b - 1 \in 0..n /\ a \in 0..n BY <1>2, <1>10
  <2>2. u[a] <= u[b - 1] /\ u[a] \in Nat /\ u[b - 1] \in Nat BY <1>9, <2>1
  <2> QED BY <1>8, <1>10, <2>2
<1>11. p \in Positions(items, ReportType) BY <1>6 DEF Positions, ReportType
<1>12. ASSUME NEW q \in Positions(items, ReportType), CurrentId(items, q) = byte PROVE items[q].from = i
  <2> DEFINE a == items[q].from
             b == items[p].from
  <2>1. a \in 1..n /\ 1 + u[a - 1] <= byte /\ byte < 1 + u[a] BY <1>7, <1>12
  <2>2. b \in 1..n /\ 1 + u[b - 1] <= byte /\ byte < 1 + u[b] BY <1>6, <1>7, <1>11
  <2> HIDE DEF a, b
  <2>3. ~(a < b) /\ ~(b < a) BY <1>10, <2>1, <2>2
  <2>4. a = b BY <1>2, <2>1, <2>2, <2>3
  <2> QED BY <1>6, <2>4 DEF a, b
<1>13. Declarers(items, byte) = {i} BY <1>6, <1>11, <1>12 DEF Declarers
<1>14. [id |-> byte, type |-> "input"] \in Declared(items) BY <1>6, <1>11 DEF Declared
<1> DEFINE parsed == Parsed(items)
<1>15. Table(parsed, items, Len(items)) BY <1>5, ParsedTable
<1>16. parsed \in ParseType /\ parsed.use_report_ids
  <2>1. PICK r : IsLastId(items, r, p) BY <1>4, <1>6 DEF Served, ReportType, items
  <2>2. r \in DOMAIN items /\ items[r].kind = "id" /\ r < Len(items) + 1 BY <1>5, <2>1 DEF IsLastId
  <2>3. ~NoIdBefore(items, Len(items) + 1) BY <2>2 DEF NoIdBefore
  <2> HIDE DEF parsed
  <2> QED BY <1>15, <2>3 DEF Table
<1>17. \E k \in DOMAIN parsed.ble_reports : parsed.ble_reports[k] = [id |-> byte, type |-> "input"]
  <2>1. Cardinality(Declared(items)) <= MaxBleReports BY <1>1 DEF items, merged
  <2> QED BY <1>5, <1>14, <2>1, TableComplete
<1> HIDE DEF parsed
<1>18. /\ EntryFor(parsed, byte) \in DOMAIN parsed.ble_reports
       /\ parsed.ble_reports[EntryFor(parsed, byte)] = [id |-> byte, type |-> "input"]
  <2>1. \E k \in DOMAIN parsed.ble_reports :
            parsed.ble_reports[k] = [id |-> IF parsed.use_report_ids THEN byte ELSE 0, type |-> "input"]
    BY <1>16, <1>17
  <2> QED BY <1>16, <2>1, EntryFound
<1> QED BY <1>13, <1>16, <1>18 DEF parsed, items, byte, merged


\* What the loop makes of the interfaces is well formed and has ids for each of them.
LEMMA MergeAllType ==
    ASSUME NEW descs \in Descs
    PROVE  MergeAll(descs) \in MergedType /\ Len(MergeAll(descs).itfs) = Len(descs)
<1>1. PICK g : IsRun(g, Len(descs), MergedType, NothingMerged, MergeSteps(descs)) /\ g[Len(descs)] = MergeAll(descs)
  BY MergeRun
<1>2. Len(descs) \in Nat BY DEF Descs
<1>3. Len(descs) \in 0..Len(descs) BY <1>2
<1>4. g[Len(descs)] \in MergedType /\ Len(g[Len(descs)].itfs) = Len(descs) BY <1>1, <1>3, MergeLength
<1> QED BY <1>1, <1>4

LEMMA MergeAllNone == MergeAll(<<>>) = NothingMerged
<1>1. <<>> \in Descs /\ Len(<<>>) = 0 BY DEF Descs
<1>2. PICK g : IsRun(g, 0, MergedType, NothingMerged, MergeSteps(<<>>)) /\ g[0] = MergeAll(<<>>)
  <2> DEFINE e == <<>>
  <2>1. e \in Descs /\ Len(e) = 0 BY <1>1
  <2> HIDE DEF e
  <2>2. \E g : IsRun(g, 0, MergedType, NothingMerged, MergeSteps(e)) /\ g[0] = MergeAll(e) BY <2>1, MergeRun
  <2> QED BY <2>2 DEF e
<1> QED BY <1>2 DEF IsRun

\* One more interface is one more iteration.
LEMMA MergeAppend ==
    ASSUME NEW descs \in Descs, NEW desc \in Seq(Item)
    PROVE  MergeAll(Append(descs, desc)) = MergeNext(MergeAll(descs), desc)
<1> DEFINE n == Len(descs)
           more == Append(descs, desc)
<1>1. n \in Nat /\ descs \in Seq(Seq(Item)) BY DEF Descs
<1>2. more \in Descs /\ Len(more) = n + 1 /\ (\A k \in 1..n : more[k] = descs[k]) /\ more[n + 1] = desc
  BY <1>1, AppendProperties DEF Descs
<1> HIDE DEF more
<1>3. PICK g : IsRun(g, n, MergedType, NothingMerged, MergeSteps(descs)) /\ g[n] = MergeAll(descs)
  BY MergeRun
<1>4. PICK h : IsRun(h, Len(more), MergedType, NothingMerged, MergeSteps(more)) /\ h[Len(more)] = MergeAll(more)
  BY <1>2, MergeRun
<1> DEFINE T == {k \in 0..n : h[k] = g[k]}
<1>5. 0 \in T
  <2>1. h[0] = g[0] BY <1>3, <1>4 DEF IsRun
  <2> QED BY <1>1, <2>1
<1>6. ASSUME NEW k \in 1..n, k - 1 \in T PROVE k \in T
  <2>1. k \in 1..Len(more) /\ k \in 0..n BY <1>1, <1>2
  <2>2. g[k] = MergeNext(g[k - 1], descs[k]) BY <1>3, MergeStep
  <2>3. h[k] = MergeNext(h[k - 1], more[k]) BY <1>2, <1>4, <2>1, MergeStep
  <2>4. h[k - 1] = g[k - 1] /\ more[k] = descs[k] BY <1>2, <1>6
  <2> QED BY <2>1, <2>2, <2>3, <2>4
<1>7. \A k \in 0..n : k \in T
  <2> HIDE DEF T, n
  <2> QED BY <1>1, <1>5, <1>6, UpTo
<1>8. h[n] = g[n]
  <2>1. n \in 0..n BY <1>1
  <2> QED BY <1>7, <2>1
<1>9. h[n + 1] = MergeNext(h[n], desc)
  <2> DEFINE j == n + 1
  <2>1. j \in 1..Len(more) /\ j - 1 = n /\ j = n + 1 BY <1>1, <1>2
  <2> HIDE DEF n, j
  <2>2. h[j] = MergeNext(h[j - 1], more[j]) BY <1>2, <1>4, <2>1, MergeStep
  <2>3. more[j] = desc BY <1>2, <2>1
  <2>4. h[j] = MergeNext(h[n], desc) BY <2>1, <2>2, <2>3
  <2> QED BY <2>1, <2>4
<1>10. MergeAll(more) = MergeNext(MergeAll(descs), desc) BY <1>2, <1>3, <1>4, <1>8, <1>9
<1> QED BY <1>10 DEF more
=============================================================================
