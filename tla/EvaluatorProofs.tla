--------------------------- MODULE EvaluatorProofs ---------------------------
(***************************************************************************)
(* Proofs about the evaluators.  For any players, clients, numbers, values *)
(* and letters and any history of bloops: what they make of the pruned     *)
(* collections is what the whole history says.  For any time zones and any *)
(* division of the day: the time evaluator finds the configured time.  For *)
(* any registration number: the number predicates hold exactly for the     *)
(* numbers they are named after.                                           *)
(***************************************************************************)
EXTENDS Evaluators, TimeEvaluator, BloopProviderProofs, CountingLemmas, TLAPS

-----------------------------------------------------------------------------

(* The greatest number of 1..n.                                             *)
LEMMA MaxOfInterval ==
    ASSUME NEW n \in Nat \ {0}
    PROVE  Max(1..n) = n /\ (1..n) \ {n} = 1..(n - 1) /\ 1..n # {}
<1>1. \A x \in 1..n : (\A y \in 1..n : x >= y) => x = n
  OBVIOUS
<1>2. n \in 1..n /\ \A y \in 1..n : n >= y
  OBVIOUS
<1>3. Max(1..n) = n
  BY <1>1, <1>2 DEF Max
<1>4. \A x : x \in (1..n) \ {n} <=> x \in 1..(n - 1)
  OBVIOUS
<1> QED BY <1>2, <1>3, <1>4

(* Some numbers up to n have a greatest one.                                *)
LEMMA MaxOfNumbers ==
    ASSUME NEW n \in Nat, NEW s \in SUBSET (1..n), s # {}
    PROVE  Max(s) \in s /\ \A y \in s : y <= Max(s)
<1> DEFINE T == {d \in 0..n : n - d \in s}
<1>1. T # {} /\ T \subseteq Nat
  <2>1. PICK x : x \in s
    OBVIOUS
  <2>2. x \in 1..n
    BY <2>1
  <2>3. n - (n - x) = x /\ n - x \in 0..n
    BY <2>2, Mirrored
  <2>4. n - x \in T
    BY <2>1, <2>3
  <2> QED BY <2>4
<1>2. PICK d \in T : \A e \in T : d <= e
  BY <1>1, NatLeast
<1>3. ASSUME NEW y \in s PROVE n - d >= y
  <2>1. y \in 1..n /\ n - (n - y) = y /\ n - y \in 0..n
    BY Mirrored
  <2>2. d <= n - y /\ d \in Nat
    BY <1>2, <2>1
  <2> QED BY <2>1, <2>2
<1>4. \E x \in s : \A y \in s : x >= y
  BY <1>2, <1>3
<1>5. Max(s) \in s /\ \A y \in s : Max(s) >= y
  BY <1>4 DEF Max
<1> QED BY <1>5

(* A fold from the left is what is left after one step for every entry.     *)
FoldsStepwise(op(_, _), base, q) ==
    \E f : /\ f[0] = base
           /\ \A k \in 1..Len(q) : f[k] = op(f[k - 1], q[k])
           /\ FoldLeft(op, base, q) = f[Len(q)]

(* The library defines it over the subsets of the domain.                   *)
LEMMA FoldEquations ==
    ASSUME NEW op(_, _), NEW base, NEW B, NEW q \in Seq(B)
    PROVE  FoldsStepwise(op, base, q)
<1> DEFINE N == Len(q)
<1> DEFINE Body(g, s) == IF s = {} THEN base ELSE op(g[s \ {Max(s)}], q[Max(s)])
<1> DEFINE Upon(g, n) == [s \in SUBSET (1..n) |-> Body(g, s)]
<1> DEFINE P == {n \in Nat : \E g : g = Upon(g, n)}
<1>1. 0 \in P
  <2> DEFINE g == [s \in SUBSET (1..0) |-> base]
  <2>1. \A s \in SUBSET (1..0) : s = {}
    OBVIOUS
  <2>2. g = Upon(g, 0)
    BY <2>1
  <2> QED BY <2>2
<1>2. ASSUME NEW n \in Nat, n \in P PROVE n + 1 \in P
  <2>1. PICK g : g = Upon(g, n)
    BY <1>2
  <2> DEFINE h == Upon(g, n + 1)
  <2>2. \A t \in SUBSET (1..n) : t \in SUBSET (1..(n + 1))
    OBVIOUS
  <2>3. \A t \in SUBSET (1..n) : g[t] = Body(g, t)
    BY <2>1
  <2>4. \A t \in SUBSET (1..(n + 1)) : h[t] = Body(g, t)
    OBVIOUS
  <2>5. ASSUME NEW s \in SUBSET (1..(n + 1)), s # {} PROVE s \ {Max(s)} \in SUBSET (1..n)
    <3>1. n + 1 \in Nat
      OBVIOUS
    <3>2. Max(s) \in s /\ \A y \in s : y <= Max(s)
      BY <2>5, <3>1, MaxOfNumbers
    <3>3. \A y \in s : y \in 1..(n + 1)
      OBVIOUS
    <3>4. ASSUME NEW y \in s, y # Max(s) PROVE y \in 1..n
      <4> DEFINE m == Max(s)
      <4>1. y \in 1..(n + 1) /\ m \in 1..(n + 1) /\ y <= m /\ y # m
        BY <3>2, <3>3, <3>4
      <4> HIDE DEF m
      <4> QED BY <4>1
    <3> QED BY <3>4
  <2> HIDE DEF h
  <2>6. \A s \in SUBSET (1..(n + 1)) : Body(g, s) = Body(h, s)
    BY <2>2, <2>3, <2>4, <2>5
  <2>7. h = Upon(h, n + 1)
    <3>1. h = Upon(g, n + 1)
      BY DEF h
    <3> HIDE DEF Body
    <3> QED BY <2>6, <3>1
  <2>8. \E d : d = Upon(d, n + 1)
    <3> HIDE DEF Upon
    <3> QED BY <2>7
  <2>9. n + 1 \in Nat
    OBVIOUS
  <2> HIDE DEF Upon
  <2> QED BY <2>8, <2>9
<1>3. N \in P
  <2>1. N \in Nat
    OBVIOUS
  <2> HIDE DEF P, N
  <2> QED BY <1>1, <1>2, <2>1, NatSetInduction
<1> DEFINE iter == CHOOSE g : g = Upon(g, N)
<1>4. iter = Upon(iter, N)
  <2> HIDE DEF Upon
  <2> QED BY <1>3
<1>5. FoldLeft(op, base, q) = iter[1..N]
  <2>1. FoldLeft(op, base, q) = (CHOOSE g : g = [s \in SUBSET (DOMAIN q) |-> Body(g, s)])[DOMAIN q]
    BY DEF FoldLeft, MapThenFoldSet
  <2>2. DOMAIN q = 1..N
    OBVIOUS
  <2> HIDE DEF Body
  <2> QED BY <2>1, <2>2
<1> HIDE DEF iter
<1> DEFINE f == [n \in 0..N |-> iter[1..n]]
<1>6. N \in Nat
  OBVIOUS
<1>7. f[0] = base
  <2>1. 1..0 = {} /\ 1..0 \in SUBSET (1..N) /\ 0 \in 0..N
    BY <1>6
  <2> QED BY <1>4, <2>1
<1>8. ASSUME NEW k \in 1..N PROVE f[k] = op(f[k - 1], q[k])
  <2>1. k \in Nat \ {0} /\ 1..k \in SUBSET (1..N) /\ k \in 0..N /\ k - 1 \in 0..N
    BY <1>6
  <2>2. Max(1..k) = k /\ (1..k) \ {k} = 1..(k - 1) /\ 1..k # {}
    BY <2>1, MaxOfInterval
  <2>3. iter[1..k] = op(iter[1..(k - 1)], q[k])
    BY <1>4, <2>1, <2>2
  <2> QED BY <2>1, <2>3
<1>9. f[N] = iter[1..N]
  BY <1>6
<1> HIDE DEF f
<1> QED BY <1>5, <1>7, <1>8, <1>9 DEF FoldsStepwise

-----------------------------------------------------------------------------
(* A filter that lets through nothing behind what it stops keeps how the    *)
(* sequence begins.                                                         *)
LEMMA FilteredFront ==
    ASSUME NEW B, NEW s \in Seq(B), NEW S,
           \A i, j \in DOMAIN s : i < j /\ s[j] \in S => s[i] \in S
    PROVE  /\ Filtered(s, S) \in Seq(B) /\ Begins(Filtered(s, S), s)
           /\ \A i \in 1..Len(Filtered(s, S)) : s[i] \in S
           /\ \A i \in DOMAIN s : i > Len(Filtered(s, S)) => s[i] \notin S
<1> DEFINE f == FilteredUpTo(s, S)
<1> DEFINE Good(k) == /\ Begins(f[k], s) /\ Len(f[k]) <= k
                      /\ \A i \in 1..Len(f[k]) : s[i] \in S
                      /\ \A i \in 1..k : i > Len(f[k]) => s[i] \notin S
<1> DEFINE P == {k \in Nat : k <= Len(s) => Good(k)}
<1>1. Len(s) \in Nat /\ DOMAIN s = 1..Len(s)
  OBVIOUS
<1>2. f[0] = <<>> /\ \A k \in 1..Len(s) : f[k] = Keep(s, S, k, f[k - 1])
  BY FilterEquations
<1>3. \A k \in 0..Len(s) : f[k] \in Seq(B)
  BY FilterContents
<1> HIDE DEF f
<1>4. 0 \in P
  <2>1. Len(<<>>) = 0 /\ 1..0 = {}
    OBVIOUS
  <2>2. Good(0)
    BY <1>1, <1>2, <2>1 DEF Begins
  <2> HIDE DEF Good
  <2> QED BY <2>2
<1>5. ASSUME NEW k \in Nat, k \in P PROVE k + 1 \in P
  <2> SUFFICES ASSUME k + 1 <= Len(s) PROVE Good(k + 1)
    OBVIOUS
  <2>1. /\ Good(k) /\ k + 1 \in 1..Len(s) /\ (k + 1) - 1 = k /\ f[k] \in Seq(B)
        /\ Len(f[k]) \in Nat /\ s[k + 1] \in B
    BY <1>1, <1>3, <1>5
  <2>2. f[k + 1] = Keep(s, S, k + 1, f[k])
    BY <1>2, <2>1
  <2>3. CASE s[k + 1] \notin S
    <3>1. f[k + 1] = f[k]
      BY <2>2, <2>3 DEF Keep
    <3> QED BY <2>1, <2>3, <3>1
  <2>4. CASE s[k + 1] \in S
    <3>1. f[k + 1] = Append(f[k], s[k + 1])
      BY <2>2, <2>4 DEF Keep
    <3>2. \A i \in 1..k : s[i] \in S
      BY <1>1, <2>1, <2>4
    <3>3. Len(f[k]) = k
      <4> SUFFICES ASSUME Len(f[k]) < k PROVE FALSE
        BY <2>1
      <4>1. k \in 1..k /\ k > Len(f[k])
        BY <2>1
      <4> QED BY <2>1, <3>2, <4>1
    <3>4. Len(f[k + 1]) = k + 1 /\ f[k + 1][k + 1] = s[k + 1] /\ \A i \in 1..k : f[k + 1][i] = f[k][i]
      BY <2>1, <3>1, <3>3
    <3>5. \A i \in 1..(k + 1) : i \in 1..k \/ i = k + 1
      OBVIOUS
    <3>6. Begins(f[k + 1], s)
      BY <1>1, <2>1, <3>3, <3>4, <3>5 DEF Begins
    <3>7. \A i \in 1..Len(f[k + 1]) : s[i] \in S
      BY <2>4, <3>2, <3>4, <3>5
    <3>8. \A i \in 1..(k + 1) : ~(i > Len(f[k + 1]))
      BY <3>4
    <3> QED BY <3>4, <3>6, <3>7, <3>8
  <2> QED BY <2>3, <2>4
<1> HIDE DEF P
<1>6. Len(s) \in P
  BY <1>1, <1>4, <1>5, NatSetInduction
<1>7. Good(Len(s)) /\ f[Len(s)] \in Seq(B)
  BY <1>1, <1>3, <1>6 DEF P
<1> QED BY <1>1, <1>7 DEF Filtered, f

(* Sequences of the same length of which one is how the other begins.       *)
LEMMA BeginsSame ==
    ASSUME NEW B, NEW s \in Seq(B), NEW t \in Seq(B), Begins(s, t), Len(s) = Len(t)
    PROVE  s = t
<1>1. s = [i \in 1..Len(s) |-> s[i]] /\ t = [i \in 1..Len(t) |-> t[i]]
  OBVIOUS
<1> QED BY <1>1 DEF Begins

(* What an evaluator sees within a window of a collection is how the same   *)
(* window of the history begins, and all of it if the window is no longer   *)
(* than max_age.                                                            *)
SeenOf(current, bloops, history, w) ==
    LET seen == WithinWindow(current, bloops, w)
        recent == WithinWindow(current, history, w)
    IN  /\ seen \in Seq(Bloop) /\ recent \in Seq(Bloop) /\ Begins(seen, recent)
        /\ w <= MaxAge => seen = recent

(* So it is for a collection that has forgotten only what is too old.       *)
LEMMA WindowOfHistory ==
    ASSUME NEW a \in Seq(Bloop), NEW h \in Seq(Bloop), NewestFirst(h),
           NEW current, current.at \in Nat, IsWindow(a, h, current.at), NEW w \in Nat
    PROVE  SeenOf(current, a, h, w)
<1> DEFINE S == {b \in Bloop : b.at + w >= current.at}
           x == Filtered(a, S)
           y == Filtered(h, S)
<1>1. WithinWindow(current, a, w) = x /\ WithinWindow(current, h, w) = y
  BY DEF WithinWindow
<1>2. Begins(a, h) /\ \A i \in DOMAIN h : i > Len(a) => h[i].at + MaxAge < current.at
  BY PrefixIsBegin DEF IsWindow
<1>3. NewestFirst(a)
  BY <1>2, BeginsNewestFirst
<1>4. \A b \in Bloop : b.at \in Nat /\ (b \in S <=> b.at + w >= current.at)
  BY MaxTimeAssumption DEF Bloop
<1> HIDE DEF S
<1>5. ASSUME NEW s \in Seq(Bloop), NewestFirst(s)
      PROVE  \A i, j \in DOMAIN s : i < j /\ s[j] \in S => s[i] \in S
  <2> SUFFICES ASSUME NEW i \in DOMAIN s, NEW j \in DOMAIN s, i < j, s[j] \in S PROVE s[i] \in S
    OBVIOUS
  <2>1. s[i] \in Bloop /\ s[j] \in Bloop /\ s[i].at >= s[j].at
    BY <1>5 DEF NewestFirst
  <2> QED BY <1>4, <2>1
<1>6. /\ x \in Seq(Bloop) /\ Begins(x, a)
      /\ \A i \in DOMAIN a : i > Len(x) => a[i] \notin S
  BY <1>3, <1>5, FilteredFront
<1>7. /\ y \in Seq(Bloop) /\ Begins(y, h)
      /\ \A i \in 1..Len(y) : h[i] \in S
  BY <1>5, FilteredFront
<1>8. Begins(x, y)
  BY <1>2, FilteredBegins
<1> HIDE DEF x, y
<1>9. /\ Len(x) \in Nat /\ Len(y) \in Nat /\ Len(a) \in Nat /\ Len(h) \in Nat
      /\ DOMAIN h = 1..Len(h) /\ DOMAIN a = 1..Len(a)
      /\ Len(x) <= Len(y) /\ Len(y) <= Len(h)
      /\ \A i \in DOMAIN h : h[i] \in Bloop
  BY <1>6, <1>7, <1>8 DEF Begins
<1>10. ASSUME w <= MaxAge PROVE x = y
  <2> SUFFICES ASSUME Len(x) < Len(y) PROVE FALSE
    BY <1>6, <1>7, <1>8, <1>9, BeginsSame
  <2> DEFINE i == Len(x) + 1
  <2>1. i \in DOMAIN h /\ i \in 1..Len(y) /\ i > Len(x)
    BY <1>9
  <2>2. h[i] \in S /\ h[i] \in Bloop
    BY <1>7, <1>9, <2>1
  <2>3. CASE i <= Len(a)
    <3>1. i \in DOMAIN a /\ i \in 1..Len(a)
      BY <1>9, <2>1, <2>3
    <3> HIDE DEF i
    <3>2. a[i] = h[i]
      BY <1>2, <3>1 DEF Begins
    <3> QED BY <1>6, <2>1, <2>2, <3>1, <3>2
  <2>4. CASE i > Len(a)
    <3> HIDE DEF i
    <3>1. h[i].at + MaxAge < current.at /\ h[i].at \in Nat /\ h[i].at + w >= current.at
      BY <1>2, <1>4, <2>1, <2>2, <2>4
    <3> QED BY <1>10, <3>1, MaxAgeAssumption
  <2> QED BY <1>9, <2>3, <2>4
<1> QED BY <1>1, <1>6, <1>7, <1>8, <1>10 DEF SeenOf

-----------------------------------------------------------------------------
(* The players met after the current one and k bloops.                      *)
Met(current, s, k) == [i \in 1..(k + 1) |-> IF i = 1 THEN current.pid ELSE s[i - 1].pid]

(* How the list of players grows.                                           *)
LEMMA MetFacts ==
    ASSUME NEW current \in Bloop, NEW s \in Seq(Bloop), NEW k \in 0..Len(s)
    PROVE  /\ Met(current, s, k) \in Seq(Pids) /\ Len(Met(current, s, k)) = k + 1
           /\ ToSet(Met(current, s, k)) = {current.pid} \cup {s[i].pid : i \in 1..k}
           /\ Met(current, s, 0) = <<current.pid>>
           /\ k < Len(s) => Append(Met(current, s, k), s[k + 1].pid) = Met(current, s, k + 1)
           /\ Met(current, s, k) = PlayersOf(current, SubSeq(s, 1, k))
<1> DEFINE m == Met(current, s, k)
<1>1. Len(s) \in Nat /\ k \in Nat /\ k <= Len(s) /\ DOMAIN s = 1..Len(s)
  OBVIOUS
<1>2. current.pid \in Pids /\ \A i \in 1..Len(s) : s[i] \in Bloop /\ s[i].pid \in Pids
  <2>1. \A b \in Bloop : b.pid \in Pids
    BY DEF Bloop
  <2>2. \A i \in 1..Len(s) : s[i] \in Bloop
    OBVIOUS
  <2> QED BY <2>1, <2>2
<1>3. \A i \in 1..(k + 1) : i = 1 \/ (i - 1 \in 1..k /\ i - 1 \in 1..Len(s))
  BY <1>1
<1>4. m \in [1..(k + 1) -> Pids]
  BY <1>2, <1>3 DEF Met
<1>5. m \in Seq(Pids) /\ Len(m) = k + 1 /\ DOMAIN m = 1..(k + 1)
  BY <1>1, <1>4
<1>6. m[1] = current.pid /\ \A i \in 1..k : m[i + 1] = s[i].pid /\ i + 1 \in 1..(k + 1)
  <2>1. 1 \in 1..(k + 1) /\ \A i \in 1..k : i + 1 \in 1..(k + 1) /\ i + 1 # 1 /\ (i + 1) - 1 = i
    BY <1>1
  <2> QED BY <2>1 DEF Met
<1>7. \A i \in 1..(k + 1) : m[i] = IF i = 1 THEN current.pid ELSE s[i - 1].pid
  BY DEF Met
<1> HIDE DEF m
<1>8. ToSet(m) = {current.pid} \cup {s[i].pid : i \in 1..k}
  <2>1. ASSUME NEW p \in ToSet(m) PROVE p \in {current.pid} \cup {s[i].pid : i \in 1..k}
    BY <1>3, <1>5, <1>7, <2>1 DEF ToSet
  <2>2. ASSUME NEW i \in 1..k PROVE s[i].pid \in ToSet(m)
    BY <1>5, <1>6 DEF ToSet
  <2>3. current.pid \in ToSet(m)
    <3>1. 1 \in DOMAIN m
      BY <1>1, <1>5
    <3> QED BY <1>6, <3>1 DEF ToSet
  <2> QED BY <2>1, <2>2, <2>3
<1>9. Met(current, s, 0) = <<current.pid>>
  BY DEF Met
<1>10. ASSUME k < Len(s) PROVE Append(m, s[k + 1].pid) = Met(current, s, k + 1)
  <2> DEFINE x == Append(m, s[k + 1].pid)
             y == Met(current, s, k + 1)
  <2>1. k + 1 \in 1..Len(s) /\ s[k + 1].pid \in Pids
    BY <1>1, <1>2, <1>10
  <2>2. /\ DOMAIN x = 1..(k + 2) /\ x[k + 2] = s[k + 1].pid /\ x = [i \in 1..(k + 2) |-> x[i]]
        /\ \A i \in 1..(k + 1) : x[i] = m[i]
    BY <1>1, <1>5, <2>1
  <2>3. y = [i \in 1..(k + 2) |-> IF i = 1 THEN current.pid ELSE s[i - 1].pid]
    BY <1>1 DEF Met
  <2>4. \A i \in 1..(k + 2) : i \in 1..(k + 1) \/ (i = k + 2 /\ i # 1 /\ i - 1 = k + 1)
    BY <1>1
  <2> HIDE DEF x, y
  <2>5. \A i \in 1..(k + 2) : x[i] = IF i = 1 THEN current.pid ELSE s[i - 1].pid
    BY <1>7, <2>2, <2>4
  <2> QED BY <2>2, <2>3, <2>5 DEF x, y
<1>11. m = PlayersOf(current, SubSeq(s, 1, k))
  <2> DEFINE t == SubSeq(s, 1, k)
             u == [i \in DOMAIN t |-> t[i].pid]
  <2>1. DOMAIN t = 1..k /\ \A i \in 1..k : t[i] = s[i]
    BY <1>1
  <2>2. u \in Seq(Pids) /\ Len(u) = k /\ \A i \in 1..k : u[i] = s[i].pid
    <3>1. u \in [1..k -> Pids] /\ \A i \in 1..k : u[i] = s[i].pid
      BY <1>1, <1>2, <2>1
    <3> HIDE DEF u
    <3> QED BY <1>1, <3>1
  <2>3. PlayersOf(current, t) = <<current.pid>> \o u
    BY DEF PlayersOf
  <2> HIDE DEF t, u
  <2>4. /\ <<current.pid>> \o u = [i \in 1..(k + 1) |-> (<<current.pid>> \o u)[i]]
        /\ (<<current.pid>> \o u)[1] = current.pid
        /\ \A i \in 2..(k + 1) : (<<current.pid>> \o u)[i] = u[i - 1] /\ i - 1 \in 1..k
    BY <1>1, <1>2, <2>2, PrependFacts
  <2>5. m = [i \in 1..(k + 1) |-> m[i]]
    BY <1>4
  <2>6. \A i \in 1..(k + 1) : i = 1 \/ i \in 2..(k + 1)
    BY <1>1
  <2>7. \A i \in 1..(k + 1) : m[i] = (<<current.pid>> \o u)[i]
    BY <1>7, <2>2, <2>4, <2>6
  <2> QED BY <2>3, <2>4, <2>5, <2>7 DEF t
<1> QED BY <1>5, <1>8, <1>9, <1>10, <1>11 DEF m

(* Meeting the players one by one, each different from those before.        *)
NewPlayers(current, s, k) ==
    \A i \in 1..k : s[i].pid # current.pid /\ \A j \in 1..(i - 1) : s[i].pid # s[j].pid

(* That is what makes them different from each other.                       *)
LEMMA NewPlayersDistinct ==
    ASSUME NEW current \in Bloop, NEW s \in Seq(Bloop), NEW k \in 0..Len(s)
    PROVE  NewPlayers(current, s, k) <=> DistinctPlayers(current, SubSeq(s, 1, k))
<1> DEFINE t == SubSeq(s, 1, k)
<1>1. DOMAIN t = 1..k /\ \A i \in 1..k : t[i] = s[i]
  OBVIOUS
<1> HIDE DEF t
<1>2. k \in Nat
  OBVIOUS
<1>3. ASSUME NewPlayers(current, s, k) PROVE DistinctPlayers(current, t)
  <2>1. ASSUME NEW i \in 1..k, NEW j \in 1..k, i # j PROVE s[i].pid # s[j].pid
    <3>1. j \in 1..(i - 1) \/ i \in 1..(j - 1)
      BY <1>2, <2>1
    <3> QED BY <1>3, <3>1 DEF NewPlayers
  <2>2. \A i \in 1..k : s[i].pid # current.pid
    BY <1>3 DEF NewPlayers
  <2> QED BY <1>1, <2>1, <2>2 DEF DistinctPlayers
<1>4. ASSUME DistinctPlayers(current, t) PROVE NewPlayers(current, s, k)
  <2>1. \A i \in 1..k : \A j \in 1..(i - 1) : j \in 1..k /\ i # j
    BY <1>2
  <2> QED BY <1>1, <1>4, <2>1 DEF DistinctPlayers, NewPlayers
<1> QED BY <1>3, <1>4 DEF t

(* One player more.                                                         *)
LEMMA OneMoreNew ==
    ASSUME NEW current \in Bloop, NEW s \in Seq(Bloop), NEW k \in Nat, k < Len(s)
    PROVE  NewPlayers(current, s, k + 1) <=>
             NewPlayers(current, s, k) /\ s[k + 1].pid \notin ToSet(Met(current, s, k))
<1>1. ToSet(Met(current, s, k)) = {current.pid} \cup {s[i].pid : i \in 1..k}
  <2>1. k \in 0..Len(s)
    OBVIOUS
  <2> QED BY <2>1, MetFacts
<1>2. \A i \in 1..(k + 1) : i \in 1..k \/ i = k + 1
  OBVIOUS
<1>3. \A i \in 1..k : i \in 1..(k + 1)
  OBVIOUS
<1>4. k + 1 \in 1..(k + 1) /\ 1..((k + 1) - 1) = 1..k
  OBVIOUS
<1> QED BY <1>1, <1>2, <1>3, <1>4 DEF NewPlayers

-----------------------------------------------------------------------------
(* One turn of the streak evaluator's loop.                                 *)
StreakStep(e, current, acc, b) ==
    [passed |-> /\ acc.passed
                /\ b.pid \notin ToSet(acc.ids)
                /\ <<b.pid, current.pid>> \in e.predicate,
     ids |-> Append(acc.ids, b.pid)]

StreakEnd(e, current, seen) ==
    FoldLeft(LAMBDA acc, b : StreakStep(e, current, acc, b),
             [passed |-> TRUE, ids |-> <<current.pid>>], seen)

(* What the loop has found out at its end.                                  *)
LEMMA StreakLoop ==
    ASSUME NEW e, NEW current \in Bloop, NEW s \in Seq(Bloop)
    PROVE  /\ StreakEnd(e, current, s).ids = Met(current, s, Len(s))
           /\ StreakEnd(e, current, s).passed <=>
                /\ NewPlayers(current, s, Len(s))
                /\ \A i \in 1..Len(s) : <<s[i].pid, current.pid>> \in e.predicate
<1> DEFINE Step(acc, b) == StreakStep(e, current, acc, b)
           base == [passed |-> TRUE, ids |-> <<current.pid>>]
           Good(acc, k) ==
             /\ acc.ids = Met(current, s, k)
             /\ acc.passed <=> /\ NewPlayers(current, s, k)
                               /\ \A i \in 1..k : <<s[i].pid, current.pid>> \in e.predicate
<1>1. FoldsStepwise(Step, base, s)
  BY FoldEquations
<1>2. PICK f : /\ f[0] = base
               /\ \A k \in 1..Len(s) : f[k] = StreakStep(e, current, f[k - 1], s[k])
               /\ StreakEnd(e, current, s) = f[Len(s)]
  BY <1>1 DEF FoldsStepwise, StreakEnd
<1> DEFINE P == {k \in Nat : k <= Len(s) => Good(f[k], k)}
<1>3. Len(s) \in Nat
  OBVIOUS
<1>4. 0 \in P
  <2>1. base.ids = Met(current, s, 0)
    BY <1>3, MetFacts
  <2>2. 1..0 = {} /\ NewPlayers(current, s, 0)
    BY DEF NewPlayers
  <2>3. Good(base, 0)
    BY <2>1, <2>2
  <2> HIDE DEF Good, base
  <2> QED BY <1>2, <2>3
<1>5. ASSUME NEW k \in Nat, k \in P PROVE k + 1 \in P
  <2> SUFFICES ASSUME k + 1 <= Len(s) PROVE Good(f[k + 1], k + 1)
    OBVIOUS
  <2>1. Good(f[k], k) /\ k + 1 \in 1..Len(s) /\ (k + 1) - 1 = k /\ k \in 0..Len(s) /\ k < Len(s)
    BY <1>3, <1>5
  <2>2. f[k + 1] = StreakStep(e, current, f[k], s[k + 1])
    BY <1>2, <2>1
  <2>3. f[k + 1].ids = Met(current, s, k + 1)
    BY <2>1, <2>2, MetFacts DEF StreakStep
  <2>4. f[k + 1].passed <=> /\ f[k].passed /\ s[k + 1].pid \notin ToSet(Met(current, s, k))
                            /\ <<s[k + 1].pid, current.pid>> \in e.predicate
    BY <2>1, <2>2 DEF StreakStep
  <2>5. NewPlayers(current, s, k + 1) <=>
          NewPlayers(current, s, k) /\ s[k + 1].pid \notin ToSet(Met(current, s, k))
    BY <2>1, OneMoreNew
  <2>6. /\ \A i \in 1..(k + 1) : i \in 1..k \/ i = k + 1
        /\ \A i \in 1..k : i \in 1..(k + 1)
        /\ k + 1 \in 1..(k + 1)
    OBVIOUS
  <2> QED BY <2>1, <2>3, <2>4, <2>5, <2>6
<1> HIDE DEF P
<1>6. Len(s) \in P
  BY <1>3, <1>4, <1>5, NatSetInduction
<1>7. Good(f[Len(s)], Len(s))
  BY <1>3, <1>6 DEF P
<1> QED BY <1>2, <1>7

(* How many bloops are taken.                                               *)
LEMMA TakeFacts ==
    ASSUME NEW B, NEW s \in Seq(B), NEW n \in Nat
    PROVE  /\ Len(s) >= n => Take(s, n) = SubSeq(s, 1, n)
           /\ Len(s) < n => Take(s, n) = s
           /\ Take(s, n) \in Seq(B)
           /\ Len(s) >= n => Len(Take(s, n)) = n
           /\ Begins(Take(s, n), s)
<1> DEFINE m == Min({n, Len(s)})
<1>1. Len(s) \in Nat
  OBVIOUS
<1>2. m = IF Len(s) >= n THEN n ELSE Len(s)
  BY <1>1 DEF Min
<1>3. Take(s, n) = SubSeq(s, 1, m)
  BY DEF Take
<1> HIDE DEF m
<1>4. m \in 0..Len(s)
  BY <1>1, <1>2
<1>5. SubSeq(s, 1, m) \in Seq(B) /\ Len(SubSeq(s, 1, m)) = m /\ \A i \in 1..m : SubSeq(s, 1, m)[i] = s[i]
  BY <1>1, <1>4
<1>6. SubSeq(s, 1, Len(s)) = s
  OBVIOUS
<1>7. Begins(SubSeq(s, 1, m), s)
  BY <1>4, <1>5 DEF Begins
<1>8. CASE Len(s) >= n
  <2>1. m = n
    BY <1>2, <1>8
  <2> QED BY <1>1, <1>3, <1>5, <1>7, <1>8, <2>1
<1>9. CASE Len(s) < n
  <2>1. m = Len(s) /\ ~(Len(s) >= n)
    BY <1>1, <1>2, <1>9
  <2> QED BY <1>3, <1>5, <1>6, <1>7, <1>9, <2>1
<1> QED BY <1>1, <1>8, <1>9

(* The first n of how a sequence begins are its own first n.                *)
LEMMA SameFront ==
    ASSUME NEW B, NEW s \in Seq(B), NEW t \in Seq(B), Begins(s, t), NEW n \in 0..Len(s)
    PROVE  /\ SubSeq(s, 1, n) = SubSeq(t, 1, n) /\ n \in 0..Len(t)
           /\ SubSeq(s, 1, n) \in Seq(B) /\ Len(SubSeq(s, 1, n)) = n
           /\ \A i \in 1..n : SubSeq(s, 1, n)[i] = s[i]
<1>1. Len(s) \in Nat /\ Len(t) \in Nat /\ n <= Len(t) /\ n <= Len(s) /\ n \in Nat
  BY DEF Begins
<1>2. SubSeq(s, 1, n) = [i \in 1..n |-> s[i]] /\ SubSeq(t, 1, n) = [i \in 1..n |-> t[i]]
  BY <1>1
<1>3. \A i \in 1..n : s[i] = t[i]
  BY <1>1 DEF Begins
<1>4. SubSeq(s, 1, n) \in Seq(B) /\ Len(SubSeq(s, 1, n)) = n
  BY <1>1
<1> QED BY <1>1, <1>2, <1>3, <1>4

(* What is known of a bloop that could be under way, and of the windows.    *)
LEMMA CandidateFacts ==
    ASSUME ProviderInv, NEW current \in Candidates
    PROVE  /\ current \in Bloop /\ current.at \in Nat /\ current.client \in Clients
           /\ \A bloops, h \in Seq(Bloop) :
                IsWindow(bloops, h, addedAt) => IsWindow(bloops, h, current.at)
           /\ Windows \subseteq Nat
<1>1. now \in 0..MaxTime /\ addedAt \in 0..MaxTime /\ addedAt \in Nat
  BY MaxTimeAssumption DEF ProviderInv, ClockTypeOK, CollectionsInv, BloopTypeOK
<1>2. current \in [pid: Pids, client: Clients, at: addedAt..now]
  BY DEF Candidates
<1>3. current.at \in 0..MaxTime /\ current.at \in Nat /\ addedAt <= current.at
  BY <1>1, <1>2, MaxTimeAssumption
<1>4. current \in Bloop /\ current.client \in Clients
  BY <1>2, <1>3 DEF Bloop
<1>5. \A bloops, h \in Seq(Bloop) :
        IsWindow(bloops, h, addedAt) => IsWindow(bloops, h, current.at)
  BY <1>1, <1>3, WindowAges
<1>6. Windows \subseteq Nat
  BY MaxAgeAssumption DEF Windows
<1> QED BY <1>3, <1>4, <1>5, <1>6

(* What an evaluator sees of the client's collection, and what of the       *)
(* client's history.                                                        *)
LEMMA ClientWindow ==
    ASSUME ProviderInv, NEW current \in Candidates, NEW w \in Nat
    PROVE  LET seen == WithinWindow(current, clientBloops[current.client], w)
               recent == RecentHistory(current, w)
           IN  /\ seen \in Seq(Bloop) /\ recent \in Seq(Bloop) /\ Begins(seen, recent)
               /\ w <= MaxAge => seen = recent
<1> DEFINE c == current.client
<1>1. c \in Clients /\ current.at \in Nat
  BY CandidateFacts
<1>2. /\ clientBloops[c] \in Seq(Bloop) /\ OfClient(allBloops, c) \in Seq(Bloop)
      /\ NewestFirst(OfClient(allBloops, c))
  BY <1>1, CollectionsNewestFirst DEF ProviderInv
<1>3. IsWindow(clientBloops[c], OfClient(allBloops, c), current.at)
  <2>1. IsWindow(clientBloops[c], OfClient(allBloops, c), addedAt)
    BY <1>1 DEF ProviderInv, CollectionsInv, NothingRecentForgotten
  <2> QED BY <1>2, <2>1, CandidateFacts
<1>4. SeenOf(current, clientBloops[c], OfClient(allBloops, c), w)
  <2> HIDE DEF c
  <2> QED BY <1>1, <1>2, <1>3, WindowOfHistory
<1> QED BY <1>4 DEF RecentHistory, SeenOf

(* The streak evaluator on what it sees.                                    *)
LEMMA StreakResult ==
    ASSUME NEW e, e.min_required \in Nat, NEW current \in Bloop,
           WithinWindow(current, clientBloops[current.client], e.max_window) \in Seq(Bloop)
    PROVE  LET window == WithinWindow(current, clientBloops[current.client], e.max_window)
               streak == SubSeq(window, 1, e.min_required)
           IN  EvaluateStreak(e, current) =
                 IF /\ Len(window) >= e.min_required
                    /\ DistinctPlayers(current, streak)
                    /\ \A i \in DOMAIN streak : <<streak[i].pid, current.pid>> \in e.predicate
                 THEN Award(e.award_mode, PlayersOf(current, streak)) ELSE NoAward
<1> DEFINE m == e.min_required
           window == WithinWindow(current, clientBloops[current.client], e.max_window)
           streak == SubSeq(window, 1, m)
           seen == Take(window, m)
           end == StreakEnd(e, current, seen)
<1>1. EvaluateStreak(e, current) =
        IF end.passed /\ Len(end.ids) > m THEN Award(e.award_mode, end.ids) ELSE NoAward
  BY DEF EvaluateStreak, StreakEnd, StreakStep
<1>2. window \in Seq(Bloop) /\ Len(window) \in Nat
  OBVIOUS
<1> HIDE DEF window
<1>3. /\ seen \in Seq(Bloop) /\ Len(seen) \in Nat
      /\ Len(window) >= m => seen = streak /\ Len(seen) = m
      /\ Len(window) < m => seen = window
  <2>1. m \in Nat
    OBVIOUS
  <2> HIDE DEF m
  <2>2. seen \in Seq(Bloop)
    BY <1>2, <2>1, TakeFacts
  <2>3. Len(window) >= m => seen = streak /\ Len(seen) = m
    BY <1>2, <2>1, TakeFacts
  <2>4. Len(window) < m => seen = window
    BY <1>2, <2>1, TakeFacts
  <2> HIDE DEF seen, streak
  <2> QED BY <2>2, <2>3, <2>4
<1> HIDE DEF seen
<1>4. /\ end.ids = Met(current, seen, Len(seen))
      /\ end.passed <=> /\ NewPlayers(current, seen, Len(seen))
                        /\ \A i \in 1..Len(seen) : <<seen[i].pid, current.pid>> \in e.predicate
  BY <1>3, StreakLoop
<1> HIDE DEF end
<1>5. Len(seen) \in 0..Len(seen) /\ SubSeq(seen, 1, Len(seen)) = seen /\ DOMAIN seen = 1..Len(seen)
  BY <1>3
<1>6. /\ Len(end.ids) = Len(seen) + 1 /\ end.ids = PlayersOf(current, seen)
      /\ end.passed <=> /\ DistinctPlayers(current, seen)
                        /\ \A i \in DOMAIN seen : <<seen[i].pid, current.pid>> \in e.predicate
  <2>1. /\ Len(Met(current, seen, Len(seen))) = Len(seen) + 1
        /\ Met(current, seen, Len(seen)) = PlayersOf(current, SubSeq(seen, 1, Len(seen)))
    BY <1>3, <1>5, MetFacts
  <2>2. NewPlayers(current, seen, Len(seen)) <=> DistinctPlayers(current, SubSeq(seen, 1, Len(seen)))
    BY <1>3, <1>5, NewPlayersDistinct
  <2> QED BY <1>4, <1>5, <2>1, <2>2
<1>7. CASE Len(window) >= m
  <2>1. seen = streak /\ Len(end.ids) > m
    BY <1>3, <1>6, <1>7
  <2> HIDE DEF streak, m
  <2> QED BY <1>1, <1>6, <1>7, <2>1 DEF streak, m, window
<1>8. CASE Len(window) < m
  <2>1. ~(Len(end.ids) > m) /\ ~(Len(window) >= m)
    BY <1>2, <1>3, <1>6, <1>8
  <2> QED BY <1>1, <2>1 DEF window
<1> QED BY <1>2, <1>7, <1>8

(* The streak evaluator awards what the whole history of the client says,   *)
(* whatever has been pruned; with a window longer than max_age it may miss  *)
(* an award but makes none up.                                              *)
THEOREM StreaksAreExact == ProviderSpec => []StreakExact
<1>1. ASSUME ProviderInv PROVE StreakExact
  <2> SUFFICES ASSUME NEW e \in Streaks, NEW current \in Candidates
               PROVE  LET recent == RecentHistory(current, e.max_window)
                          streak == SubSeq(recent, 1, e.min_required)
                          expected ==
                            IF /\ Len(recent) >= e.min_required
                               /\ DistinctPlayers(current, streak)
                               /\ \A i \in DOMAIN streak : <<streak[i].pid, current.pid>> \in e.predicate
                            THEN Award(e.award_mode, PlayersOf(current, streak))
                            ELSE NoAward
                      IN Agrees(EvaluateStreak(e, current), expected, e.max_window)
    BY DEF StreakExact
  <2> DEFINE m == e.min_required
             w == e.max_window
             window == WithinWindow(current, clientBloops[current.client], w)
             recent == RecentHistory(current, w)
             Result(s) == IF /\ Len(s) >= m
                             /\ DistinctPlayers(current, SubSeq(s, 1, m))
                             /\ \A i \in DOMAIN SubSeq(s, 1, m) :
                                  <<SubSeq(s, 1, m)[i].pid, current.pid>> \in e.predicate
                          THEN Award(e.award_mode, PlayersOf(current, SubSeq(s, 1, m)))
                          ELSE NoAward
  <2>1. current \in Bloop /\ w \in Nat /\ m \in Nat
    <3>1. w \in Windows /\ m \in 0..MaxRequired
      BY DEF Streaks
    <3> QED BY <1>1, <3>1, CandidateFacts
  <2>2. window \in Seq(Bloop) /\ recent \in Seq(Bloop) /\ Begins(window, recent)
        /\ (w <= MaxAge => window = recent)
    BY <1>1, <2>1, ClientWindow
  <2>3. EvaluateStreak(e, current) = Result(window)
    BY <2>1, <2>2, StreakResult
  <2> HIDE DEF window, recent
  <2>4. CASE Len(window) >= m
    <3>1. m \in 0..Len(window) /\ Len(recent) >= m /\ SubSeq(window, 1, m) = SubSeq(recent, 1, m)
      BY <2>1, <2>2, <2>4, SameFront DEF Begins
    <3>2. Result(window) = Result(recent)
      BY <2>4, <3>1
    <3> HIDE DEF Result
    <3>3. EvaluateStreak(e, current) = Result(recent)
      BY <2>3, <3>2
    <3> QED BY <3>3 DEF Agrees, recent, Result
  <2>5. CASE ~(Len(window) >= m)
    <3>1. EvaluateStreak(e, current) = NoAward
      BY <2>3, <2>5
    <3>2. CASE w <= MaxAge
      <4>1. EvaluateStreak(e, current) = Result(recent)
        BY <2>2, <2>3, <3>2
      <4> HIDE DEF Result
      <4> QED BY <4>1 DEF Agrees, recent, Result
    <3>3. CASE w > MaxAge
      BY <3>1, <3>3 DEF Agrees
    <3> QED BY <2>1, <3>2, <3>3, MaxAgeAssumption
  <2> QED BY <2>4, <2>5
<1> QED BY <1>1, ProviderInvariant, PTL

-----------------------------------------------------------------------------
(* The values of the first k bloops.                                        *)
ValuesOf(e, s, k) == UNION {e.extract[s[i].pid].values : i \in 1..k}

(* The first k bloops come from different players, none of which aborts.    *)
Fine(e, current, s, k) ==
    NewPlayers(current, s, k) /\ \A i \in 1..k : e.extract[s[i].pid].kind # "Abort"

EnoughIn(e, current, s, k) ==
    Fine(e, current, s, k) /\ Cardinality(ValuesOf(e, s, k)) >= e.min_required

(* k is the fewest bloops that are enough.                                  *)
FewestIn(e, current, s, k) ==
    EnoughIn(e, current, s, k) /\ \A j \in 0..(k - 1) : ~EnoughIn(e, current, s, j)

(* What the loop of the distinct values evaluator has after k bloops.       *)
Here(e, current, s, k) ==
    [passed |-> TRUE, ids |-> Met(current, s, k), values |-> ValuesOf(e, s, k)]

(* One turn of that loop.                                                   *)
DistinctStep(e, acc, b) ==
    IF ~acc.passed \/ Cardinality(acc.values) >= e.min_required
    THEN acc
    ELSE [passed |-> b.pid \notin ToSet(acc.ids) /\ e.extract[b.pid].kind # "Abort",
          ids |-> Append(acc.ids, b.pid),
          values |-> acc.values \cup e.extract[b.pid].values]

DistinctEnd(e, current, seen) ==
    FoldLeft(LAMBDA acc, b : DistinctStep(e, acc, b),
             [passed |-> TRUE, ids |-> <<current.pid>>, values |-> {}], seen)

(* One bloop more.                                                          *)
LEMMA OneMoreFine ==
    ASSUME NEW e, NEW current \in Bloop, NEW s \in Seq(Bloop), NEW k \in Nat, k < Len(s)
    PROVE  /\ Fine(e, current, s, k + 1) <=>
                /\ Fine(e, current, s, k) /\ s[k + 1].pid \notin ToSet(Met(current, s, k))
                /\ e.extract[s[k + 1].pid].kind # "Abort"
           /\ ValuesOf(e, s, k + 1) = ValuesOf(e, s, k) \cup e.extract[s[k + 1].pid].values
<1>1. NewPlayers(current, s, k + 1) <=>
        NewPlayers(current, s, k) /\ s[k + 1].pid \notin ToSet(Met(current, s, k))
  BY OneMoreNew
<1>2. 1..(k + 1) = (1..k) \cup {k + 1}
  OBVIOUS
<1>3. (\A i \in 1..(k + 1) : e.extract[s[i].pid].kind # "Abort") <=>
        /\ \A i \in 1..k : e.extract[s[i].pid].kind # "Abort"
        /\ e.extract[s[k + 1].pid].kind # "Abort"
  BY <1>2
<1>4. ValuesOf(e, s, k + 1) = ValuesOf(e, s, k) \cup e.extract[s[k + 1].pid].values
  <2> DEFINE V(i) == e.extract[s[i].pid].values
  <2>1. UNION {V(i) : i \in (1..k) \cup {k + 1}} = (UNION {V(i) : i \in 1..k}) \cup V(k + 1)
    <3> HIDE DEF V
    <3> QED OBVIOUS
  <2> QED BY <1>2, <2>1 DEF ValuesOf
<1> QED BY <1>1, <1>3, <1>4 DEF Fine

(* The loop stops at the fewest bloops that are enough, and if none are it  *)
(* has not passed or has not got the values.                                *)
LEMMA DistinctLoop ==
    ASSUME NEW e, NEW current \in Bloop, NEW s \in Seq(Bloop)
    PROVE  \/ \E n \in 0..Len(s) : /\ FewestIn(e, current, s, n)
                                   /\ DistinctEnd(e, current, s) = Here(e, current, s, n)
           \/ /\ \A n \in 0..Len(s) : ~EnoughIn(e, current, s, n)
              /\ ~(/\ DistinctEnd(e, current, s).passed
                   /\ Cardinality(DistinctEnd(e, current, s).values) >= e.min_required)
<1> DEFINE Step(acc, b) == DistinctStep(e, acc, b)
           base == [passed |-> TRUE, ids |-> <<current.pid>>, values |-> {}]
           Done(acc, k) == \E n \in 0..k : FewestIn(e, current, s, n) /\ acc = Here(e, current, s, n)
           NotYet(acc, k) == /\ \A n \in 0..k : ~EnoughIn(e, current, s, n)
                             /\ \/ Fine(e, current, s, k) /\ acc = Here(e, current, s, k)
                                \/ ~Fine(e, current, s, k) /\ ~acc.passed
           Good(acc, k) == Done(acc, k) \/ NotYet(acc, k)
<1>1. FoldsStepwise(Step, base, s)
  BY FoldEquations
<1>2. PICK f : /\ f[0] = base
               /\ \A k \in 1..Len(s) : f[k] = DistinctStep(e, f[k - 1], s[k])
               /\ DistinctEnd(e, current, s) = f[Len(s)]
  BY <1>1 DEF FoldsStepwise, DistinctEnd
<1> DEFINE P == {k \in Nat : k <= Len(s) => Good(f[k], k)}
<1>3. Len(s) \in Nat
  OBVIOUS
<1>4. ASSUME NEW acc, NEW k \in Nat, acc = Here(e, current, s, k), Fine(e, current, s, k),
             \A n \in 0..(k - 1) : ~EnoughIn(e, current, s, n)
      PROVE  Good(acc, k)
  <2>1. k \in 0..k /\ \A n \in 0..k : n = k \/ n \in 0..(k - 1)
    OBVIOUS
  <2>2. CASE EnoughIn(e, current, s, k)
    BY <1>4, <2>1, <2>2 DEF FewestIn
  <2>3. CASE ~EnoughIn(e, current, s, k)
    BY <1>4, <2>1, <2>3
  <2> QED BY <2>2, <2>3
<1>5. 0 \in P
  <2>1. 1..0 = {} /\ 0..(0 - 1) = {} /\ 0 \in 0..Len(s)
    BY <1>3
  <2>2. base.ids = Met(current, s, 0)
    BY <2>1, MetFacts
  <2>3. Fine(e, current, s, 0) /\ ValuesOf(e, s, 0) = {}
    BY <2>1 DEF Fine, NewPlayers, ValuesOf
  <2>4. base = Here(e, current, s, 0)
    BY <2>2, <2>3 DEF Here
  <2> HIDE DEF Good, base
  <2>5. Good(base, 0)
    BY <1>4, <2>1, <2>3, <2>4
  <2> QED BY <1>2, <2>5
<1>6. ASSUME NEW k \in Nat, k \in P PROVE k + 1 \in P
  <2> SUFFICES ASSUME k + 1 <= Len(s) PROVE Good(f[k + 1], k + 1)
    OBVIOUS
  <2>1. Good(f[k], k) /\ k + 1 \in 1..Len(s) /\ (k + 1) - 1 = k /\ k \in 0..Len(s) /\ k < Len(s)
    BY <1>3, <1>6
  <2>2. f[k + 1] = DistinctStep(e, f[k], s[k + 1])
    BY <1>2, <2>1
  <2>3. /\ Fine(e, current, s, k + 1) <=>
              /\ Fine(e, current, s, k) /\ s[k + 1].pid \notin ToSet(Met(current, s, k))
              /\ e.extract[s[k + 1].pid].kind # "Abort"
        /\ ValuesOf(e, s, k + 1) = ValuesOf(e, s, k) \cup e.extract[s[k + 1].pid].values
    BY <2>1, OneMoreFine
  <2>4. \A n \in 0..(k + 1) : n \in 0..k \/ n = k + 1
    OBVIOUS
  <2>5. CASE Done(f[k], k)
    <3>1. PICK n \in 0..k : FewestIn(e, current, s, n) /\ f[k] = Here(e, current, s, n)
      BY <2>5
    <3>2. Cardinality(f[k].values) >= e.min_required
      BY <3>1 DEF FewestIn, EnoughIn, Here
    <3>3. f[k + 1] = f[k] /\ n \in 0..(k + 1)
      BY <2>2, <3>2 DEF DistinctStep
    <3> QED BY <3>1, <3>3
  <2>6. CASE NotYet(f[k], k) /\ ~Fine(e, current, s, k)
    <3>1. f[k + 1] = f[k] /\ ~f[k].passed
      BY <2>2, <2>6 DEF DistinctStep
    <3>2. ~Fine(e, current, s, k + 1)
      BY <2>3, <2>6
    <3>3. \A n \in 0..(k + 1) : ~EnoughIn(e, current, s, n)
      BY <2>4, <2>6, <3>2 DEF EnoughIn
    <3> QED BY <3>1, <3>2, <3>3
  <2>7. CASE NotYet(f[k], k) /\ Fine(e, current, s, k)
    <3>1. f[k] = Here(e, current, s, k) /\ k \in 0..k
      BY <2>7
    <3>2. f[k].passed /\ ~(Cardinality(f[k].values) >= e.min_required)
      BY <2>7, <3>1 DEF Here, EnoughIn
    <3>3. f[k + 1] = [passed |-> s[k + 1].pid \notin ToSet(Met(current, s, k))
                                  /\ e.extract[s[k + 1].pid].kind # "Abort",
                      ids |-> Append(Met(current, s, k), s[k + 1].pid),
                      values |-> ValuesOf(e, s, k) \cup e.extract[s[k + 1].pid].values]
      BY <2>2, <3>1, <3>2 DEF DistinctStep, Here
    <3>4. Append(Met(current, s, k), s[k + 1].pid) = Met(current, s, k + 1)
      BY <2>1, MetFacts
    <3>5. CASE Fine(e, current, s, k + 1)
      <4>1. s[k + 1].pid \notin ToSet(Met(current, s, k)) /\ e.extract[s[k + 1].pid].kind # "Abort"
        BY <2>3, <3>5
      <4>2. f[k + 1] = Here(e, current, s, k + 1)
        BY <2>3, <3>3, <3>4, <4>1 DEF Here
      <4>3. k + 1 \in Nat /\ \A n \in 0..((k + 1) - 1) : ~EnoughIn(e, current, s, n)
        BY <2>1, <2>7
      <4> HIDE DEF Good
      <4> QED BY <1>4, <3>5, <4>2, <4>3
    <3>6. CASE ~Fine(e, current, s, k + 1)
      <4>1. ~f[k + 1].passed
        <5>1. ~(/\ s[k + 1].pid \notin ToSet(Met(current, s, k))
                /\ e.extract[s[k + 1].pid].kind # "Abort")
          BY <2>3, <2>7, <3>6
        <5>2. f[k + 1] = [passed |-> FALSE,
                          ids |-> Append(Met(current, s, k), s[k + 1].pid),
                          values |-> ValuesOf(e, s, k) \cup e.extract[s[k + 1].pid].values]
          BY <3>3, <5>1
        <5> QED BY <5>2
      <4>2. \A n \in 0..(k + 1) : ~EnoughIn(e, current, s, n)
        BY <2>4, <2>7, <3>6 DEF EnoughIn
      <4> QED BY <3>6, <4>1, <4>2
    <3> QED BY <3>5, <3>6
  <2> QED BY <2>1, <2>5, <2>6, <2>7
<1> HIDE DEF P
<1>7. Len(s) \in P
  BY <1>3, <1>5, <1>6, NatSetInduction
<1>8. Good(f[Len(s)], Len(s))
  BY <1>3, <1>7 DEF P
<1>9. CASE Done(f[Len(s)], Len(s))
  BY <1>2, <1>9
<1>10. CASE NotYet(f[Len(s)], Len(s))
  <2>1. Len(s) \in 0..Len(s)
    BY <1>3
  <2>2. ~EnoughIn(e, current, s, Len(s))
    BY <1>10, <2>1
  <2>3. ~(f[Len(s)].passed /\ Cardinality(f[Len(s)].values) >= e.min_required)
    BY <1>10, <2>2 DEF EnoughIn, Here
  <2> QED BY <1>2, <1>10, <2>3
<1> QED BY <1>8, <1>9, <1>10

(* What is enough of how a sequence begins is enough of the sequence.       *)
LEMMA SameEnough ==
    ASSUME NEW e, NEW current \in Bloop, NEW s \in Seq(Bloop), NEW t \in Seq(Bloop), Begins(s, t),
           NEW n \in 0..Len(s)
    PROVE  /\ EnoughIn(e, current, s, n) <=> EnoughIn(e, current, t, n)
           /\ Here(e, current, s, n) = Here(e, current, t, n)
<1>1. n \in Nat /\ \A i \in 1..n : s[i] = t[i]
  <2>1. \A i \in 1..n : i \in 1..Len(s)
    OBVIOUS
  <2> QED BY <2>1 DEF Begins
<1>2. \A i \in 1..n : i - 1 \in 0..n /\ \A j \in 1..(i - 1) : j \in 1..n
  BY <1>1
<1>3. NewPlayers(current, s, n) <=> NewPlayers(current, t, n)
  BY <1>1, <1>2 DEF NewPlayers
<1>4. ValuesOf(e, s, n) = ValuesOf(e, t, n)
  BY <1>1 DEF ValuesOf
<1>5. Met(current, s, n) = Met(current, t, n)
  <2>1. \A i \in 1..(n + 1) : i = 1 \/ s[i - 1] = t[i - 1]
    <3>1. \A i \in 1..(n + 1) : i = 1 \/ i - 1 \in 1..n
      BY <1>1
    <3> QED BY <1>1, <3>1
  <2> QED BY <2>1 DEF Met
<1> QED BY <1>1, <1>3, <1>4, <1>5 DEF EnoughIn, Fine, Here

(* The evaluator's idea of enough is the property's.                        *)
LEMMA EnoughMeans ==
    ASSUME NEW e, NEW current \in Bloop, NEW s \in Seq(Bloop), NEW n \in 0..Len(s)
    PROVE  EnoughIn(e, current, s, n) <=>
             LET first == SubSeq(s, 1, n) IN
             /\ DistinctPlayers(current, first)
             /\ \A i \in DOMAIN first : e.extract[first[i].pid].kind # "Abort"
             /\ Cardinality(UNION {e.extract[b.pid].values : b \in ToSet(first)}) >= e.min_required
<1> DEFINE first == SubSeq(s, 1, n)
<1>1. NewPlayers(current, s, n) <=> DistinctPlayers(current, first)
  BY NewPlayersDistinct
<1>2. DOMAIN first = 1..n /\ \A i \in 1..n : first[i] = s[i]
  OBVIOUS
<1> HIDE DEF first
<1>3. ValuesOf(e, s, n) = UNION {e.extract[b.pid].values : b \in ToSet(first)}
  <2> DEFINE V(b) == e.extract[b.pid].values
  <2>1. UNION {V(s[i]) : i \in 1..n} = UNION {V(b) : b \in ToSet(first)}
    <3> HIDE DEF V
    <3>1. ToSet(first) = {s[i] : i \in 1..n}
      BY <1>2 DEF ToSet
    <3> QED BY <3>1
  <2> QED BY <2>1 DEF ValuesOf
<1>4. (\A i \in 1..n : e.extract[s[i].pid].kind # "Abort") <=>
        \A i \in DOMAIN first : e.extract[first[i].pid].kind # "Abort"
  BY <1>2
<1> QED BY <1>1, <1>3, <1>4 DEF EnoughIn, Fine, first

(* The distinct values evaluator on what it sees.                           *)
LEMMA DistinctResult ==
    ASSUME NEW e, e.min_required \in Nat, NEW current \in Bloop,
           NEW window \in Seq(Bloop),
           window = WithinWindow(current, clientBloops[current.client], e.max_window)
    PROVE  \/ \E n \in 0..Len(window) :
                /\ n <= e.min_required /\ FewestIn(e, current, window, n)
                /\ EvaluateDistinct(e, current) = Award(e.award_mode, PlayersOf(current, SubSeq(window, 1, n)))
           \/ /\ \A n \in 0..Len(window) : n <= e.min_required => ~EnoughIn(e, current, window, n)
              /\ EvaluateDistinct(e, current) = NoAward
<1> DEFINE m == e.min_required
           seen == Take(window, m)
           end == DistinctEnd(e, current, seen)
<1>1. EvaluateDistinct(e, current) =
        IF end.passed /\ Cardinality(end.values) >= m THEN Award(e.award_mode, end.ids) ELSE NoAward
  BY DEF EvaluateDistinct, DistinctEnd, DistinctStep
<1>2. m \in Nat /\ Len(window) \in Nat
  OBVIOUS
<1> HIDE DEF m
<1>3. /\ seen \in Seq(Bloop) /\ Begins(seen, window)
      /\ Len(window) >= m => Len(seen) = m
      /\ Len(window) < m => seen = window
  BY <1>2, TakeFacts
<1> HIDE DEF seen
<1>4. /\ Len(seen) \in Nat /\ Len(seen) <= Len(window) /\ Len(seen) <= m
      /\ \A n \in 0..Len(window) : n <= m => n \in 0..Len(seen)
  <2>1. Len(seen) \in Nat
    BY <1>3
  <2>2. CASE Len(window) >= m
    BY <1>2, <1>3, <2>1, <2>2
  <2>3. CASE Len(window) < m
    BY <1>2, <1>3, <2>1, <2>3
  <2> QED BY <1>2, <2>2, <2>3
<1>5. \A n \in 0..Len(seen) : /\ EnoughIn(e, current, seen, n) <=> EnoughIn(e, current, window, n)
                              /\ Here(e, current, seen, n) = Here(e, current, window, n)
                              /\ n \in 0..Len(window) /\ n <= m
  BY <1>2, <1>3, <1>4, SameEnough
<1>6. \/ \E n \in 0..Len(seen) : FewestIn(e, current, seen, n) /\ end = Here(e, current, seen, n)
      \/ /\ \A n \in 0..Len(seen) : ~EnoughIn(e, current, seen, n)
         /\ ~(end.passed /\ Cardinality(end.values) >= m)
  BY <1>3, DistinctLoop DEF m
<1> HIDE DEF end
<1>7. CASE \E n \in 0..Len(seen) : FewestIn(e, current, seen, n) /\ end = Here(e, current, seen, n)
  <2>1. PICK n \in 0..Len(seen) : FewestIn(e, current, seen, n) /\ end = Here(e, current, seen, n)
    BY <1>7
  <2>2. n \in 0..Len(window) /\ n <= m /\ \A j \in 0..(n - 1) : j \in 0..Len(seen)
    BY <1>4, <1>5, <2>1
  <2>3. FewestIn(e, current, window, n)
    BY <1>5, <2>1, <2>2 DEF FewestIn
  <2>4. end.ids = PlayersOf(current, SubSeq(window, 1, n))
    <3>1. end.ids = Met(current, window, n)
      BY <1>5, <2>1 DEF Here
    <3> QED BY <2>2, <3>1, MetFacts
  <2>5. end.passed /\ Cardinality(end.values) >= m
    BY <2>1 DEF FewestIn, EnoughIn, Here, m
  <2>6. EvaluateDistinct(e, current) = Award(e.award_mode, PlayersOf(current, SubSeq(window, 1, n)))
    BY <1>1, <2>4, <2>5
  <2> QED BY <2>2, <2>3, <2>6 DEF m
<1>8. CASE /\ \A n \in 0..Len(seen) : ~EnoughIn(e, current, seen, n)
           /\ ~(end.passed /\ Cardinality(end.values) >= m)
  <2>1. EvaluateDistinct(e, current) = NoAward
    BY <1>1, <1>8
  <2> QED BY <1>4, <1>5, <1>8, <2>1 DEF m
<1> QED BY <1>6, <1>7, <1>8

(* The distinct values evaluator awards what the whole history of the       *)
(* client says, and the players of the fewest bloops that are enough,       *)
(* whatever has been pruned; with a window longer than max_age it may miss  *)
(* an award but makes none up.                                              *)
THEOREM DistinctsAreExact == ProviderSpec => []DistinctExact
<1>1. ASSUME ProviderInv PROVE DistinctExact
  <2> SUFFICES ASSUME NEW e \in Distincts, NEW current \in Candidates
               PROVE  LET recent == RecentHistory(current, e.max_window)
                          Enough(n) ==
                            LET first == SubSeq(recent, 1, n) IN
                            /\ DistinctPlayers(current, first)
                            /\ \A i \in DOMAIN first : e.extract[first[i].pid].kind # "Abort"
                            /\ Cardinality(UNION {e.extract[b.pid].values : b \in ToSet(first)})
                                 >= e.min_required
                          enough == {n \in 0..Min({e.min_required, Len(recent)}) : Enough(n)}
                          expected ==
                            IF enough = {} THEN NoAward
                            ELSE Award(e.award_mode, PlayersOf(current, SubSeq(recent, 1, Min(enough))))
                      IN Agrees(EvaluateDistinct(e, current), expected, e.max_window)
    BY DEF DistinctExact
  <2> DEFINE m == e.min_required
             w == e.max_window
             window == WithinWindow(current, clientBloops[current.client], w)
             recent == RecentHistory(current, w)
             Enough(n) ==
               LET first == SubSeq(recent, 1, n) IN
               /\ DistinctPlayers(current, first)
               /\ \A i \in DOMAIN first : e.extract[first[i].pid].kind # "Abort"
               /\ Cardinality(UNION {e.extract[b.pid].values : b \in ToSet(first)}) >= m
             enough == {n \in 0..Min({m, Len(recent)}) : Enough(n)}
             expected == IF enough = {} THEN NoAward
                         ELSE Award(e.award_mode, PlayersOf(current, SubSeq(recent, 1, Min(enough))))
  <2>1. current \in Bloop /\ w \in Nat /\ m \in Nat
    <3>1. w \in Windows /\ m \in 0..MaxRequired
      BY DEF Distincts
    <3> QED BY <1>1, <3>1, CandidateFacts
  <2>2. window \in Seq(Bloop) /\ recent \in Seq(Bloop) /\ Begins(window, recent)
        /\ (w <= MaxAge => window = recent)
    BY <1>1, <2>1, ClientWindow
  <2>3. \/ \E n \in 0..Len(window) :
             /\ n <= m /\ FewestIn(e, current, window, n)
             /\ EvaluateDistinct(e, current) = Award(e.award_mode, PlayersOf(current, SubSeq(window, 1, n)))
        \/ /\ \A n \in 0..Len(window) : n <= m => ~EnoughIn(e, current, window, n)
           /\ EvaluateDistinct(e, current) = NoAward
    BY <2>1, <2>2, DistinctResult
  <2> HIDE DEF window, recent, m
  <2>4. Len(window) \in Nat /\ Len(recent) \in Nat /\ Len(window) <= Len(recent)
    BY <2>2 DEF Begins
  <2>5. \A n : n \in 0..Min({m, Len(recent)}) <=> n \in 0..Len(recent) /\ n <= m
    <3>1. Min({m, Len(recent)}) = IF m <= Len(recent) THEN m ELSE Len(recent)
      BY <2>1, <2>4 DEF Min
    <3> QED BY <2>1, <2>4, <3>1
  <2>6. \A n \in 0..Len(recent) : Enough(n) <=> EnoughIn(e, current, recent, n)
    BY <2>1, <2>2, EnoughMeans DEF m
  <2> HIDE DEF Enough
  <2>7. \A n : n \in enough <=> n \in 0..Len(recent) /\ n <= m /\ EnoughIn(e, current, recent, n)
    BY <2>5, <2>6
  <2> HIDE DEF enough
  <2>8. \A n \in 0..Len(window) : /\ EnoughIn(e, current, window, n) <=> EnoughIn(e, current, recent, n)
                                  /\ SubSeq(window, 1, n) = SubSeq(recent, 1, n)
                                  /\ n \in 0..Len(recent)
    <3> SUFFICES ASSUME NEW n \in 0..Len(window)
                 PROVE  /\ EnoughIn(e, current, window, n) <=> EnoughIn(e, current, recent, n)
                        /\ SubSeq(window, 1, n) = SubSeq(recent, 1, n)
                        /\ n \in 0..Len(recent)
      OBVIOUS
    <3>1. EnoughIn(e, current, window, n) <=> EnoughIn(e, current, recent, n)
      BY <2>1, <2>2, SameEnough
    <3>2. SubSeq(window, 1, n) = SubSeq(recent, 1, n) /\ n \in 0..Len(recent)
      BY <2>2, SameFront
    <3> QED BY <3>1, <3>2
  <2>9. CASE \E n \in 0..Len(window) :
               /\ n <= m /\ FewestIn(e, current, window, n)
               /\ EvaluateDistinct(e, current) = Award(e.award_mode, PlayersOf(current, SubSeq(window, 1, n)))
    <3>1. PICK n \in 0..Len(window) :
               /\ n <= m /\ FewestIn(e, current, window, n)
               /\ EvaluateDistinct(e, current) = Award(e.award_mode, PlayersOf(current, SubSeq(window, 1, n)))
      BY <2>9
    <3>2. n \in enough
      BY <2>7, <2>8, <3>1 DEF FewestIn
    <3>3. ASSUME NEW j \in enough PROVE n <= j
      <4> SUFFICES ASSUME j < n PROVE FALSE
        BY <2>4, <2>7, <3>1, <3>3
      <4>1. j \in 0..(n - 1) /\ j \in 0..Len(window) /\ EnoughIn(e, current, recent, j)
        BY <2>4, <2>7, <3>1, <3>3
      <4> QED BY <2>8, <3>1, <4>1 DEF FewestIn
    <3>4. Min(enough) = n
      <4>1. \A x \in enough : x \in Nat
        BY <2>4, <2>7
      <4>2. \A x \in enough : (\A y \in enough : x <= y) => x = n
        BY <3>2, <3>3, <4>1
      <4> QED BY <3>2, <3>3, <4>2 DEF Min
    <3>5. EvaluateDistinct(e, current) = expected
      BY <2>8, <3>1, <3>2, <3>4
    <3> HIDE DEF expected
    <3> QED BY <3>5 DEF Agrees, expected, enough, Enough, recent, m
  <2>10. CASE /\ \A n \in 0..Len(window) : n <= m => ~EnoughIn(e, current, window, n)
              /\ EvaluateDistinct(e, current) = NoAward
    <3>1. CASE w <= MaxAge
      <4>1. enough = {}
        BY <2>2, <2>7, <2>10, <3>1
      <4>2. EvaluateDistinct(e, current) = expected
        BY <2>10, <4>1
      <4> HIDE DEF expected
      <4> QED BY <4>2 DEF Agrees, expected, enough, Enough, recent, m
    <3>2. CASE w > MaxAge
      BY <2>10, <3>2 DEF Agrees
    <3>3. w <= MaxAge \/ w > MaxAge
      BY <2>1, MaxAgeAssumption
    <3> QED BY <3>1, <3>2, <3>3
  <2> QED BY <2>3, <2>9, <2>10
<1> QED BY <1>1, ProviderInvariant, PTL

-----------------------------------------------------------------------------
(* Filtering what an entry at the back is added to.                         *)
LEMMA FilteredAppend ==
    ASSUME NEW B, NEW s \in Seq(B), NEW x \in B, NEW S
    PROVE  Filtered(Append(s, x), S) = IF x \in S THEN Append(Filtered(s, S), x) ELSE Filtered(s, S)
<1> DEFINE r == Append(s, x)
           n == Len(s)
<1>1. /\ r \in Seq(B) /\ n \in Nat /\ Len(r) = n + 1 /\ r[n + 1] = x
      /\ \A i \in 1..n : r[i] = s[i]
  OBVIOUS
<1>2. Begins(s, r)
  BY <1>1 DEF Begins
<1> HIDE DEF r
<1>3. FilteredUpTo(r, S)[n + 1] = Keep(r, S, n + 1, FilteredUpTo(r, S)[n])
  <2>1. n + 1 \in 1..Len(r) /\ (n + 1) - 1 = n
    BY <1>1
  <2> QED BY <1>1, <2>1, FilterEquations
<1>4. FilteredUpTo(r, S)[n] = FilteredUpTo(s, S)[n]
  BY <1>1, <1>2, FilterOfPrefix
<1> QED BY <1>1, <1>3, <1>4 DEF Filtered, Keep, r

(* Two filters one after the other keep what is in both sets.               *)
LEMMA FilteredTwice ==
    ASSUME NEW B, NEW s \in Seq(B), NEW S, NEW T
    PROVE  Filtered(Filtered(s, S), T) = Filtered(s, S \cap T)
<1> DEFINE f == FilteredUpTo(s, S)
           g == FilteredUpTo(s, S \cap T)
           P == {k \in Nat : k <= Len(s) => Filtered(f[k], T) = g[k]}
<1>1. Len(s) \in Nat /\ \A k \in 1..Len(s) : s[k] \in B
  OBVIOUS
<1>2. /\ f[0] = <<>> /\ \A k \in 1..Len(s) : f[k] = Keep(s, S, k, f[k - 1])
      /\ g[0] = <<>> /\ \A k \in 1..Len(s) : g[k] = Keep(s, S \cap T, k, g[k - 1])
  BY FilterEquations
<1>3. \A k \in 0..Len(s) : f[k] \in Seq(B)
  BY FilterContents
<1> HIDE DEF f, g
<1>4. 0 \in P
  <2>1. Filtered(<<>>, T) = <<>>
    <3>1. <<>> \in Seq(B) /\ Len(<<>>) = 0
      OBVIOUS
    <3> QED BY <3>1, FilterEquations DEF Filtered
  <2> QED BY <1>2, <2>1
<1>5. ASSUME NEW k \in Nat, k \in P PROVE k + 1 \in P
  <2> SUFFICES ASSUME k + 1 <= Len(s) PROVE Filtered(f[k + 1], T) = g[k + 1]
    OBVIOUS
  <2> DEFINE x == s[k + 1]
  <2>1. Filtered(f[k], T) = g[k] /\ k + 1 \in 1..Len(s) /\ (k + 1) - 1 = k /\ f[k] \in Seq(B)
    BY <1>1, <1>3, <1>5
  <2>2. f[k + 1] = (IF x \in S THEN Append(f[k], x) ELSE f[k]) /\ x \in B
    BY <1>1, <1>2, <2>1 DEF Keep
  <2>3. g[k + 1] = IF x \in S \cap T THEN Append(g[k], x) ELSE g[k]
    BY <1>2, <2>1 DEF Keep
  <2> HIDE DEF x
  <2>4. Filtered(Append(f[k], x), T) = IF x \in T THEN Append(g[k], x) ELSE g[k]
    <3>1. Filtered(Append(f[k], x), T) =
            IF x \in T THEN Append(Filtered(f[k], T), x) ELSE Filtered(f[k], T)
      BY <2>1, <2>2, FilteredAppend
    <3> QED BY <2>1, <3>1
  <2> QED BY <2>1, <2>2, <2>3, <2>4
<1> HIDE DEF P
<1>6. Len(s) \in P
  BY <1>1, <1>4, <1>5, NatSetInduction
<1> QED BY <1>1, <1>6 DEF P, Filtered, f, g

(* How a sequence begins that is itself how another begins.                 *)
LEMMA BeginsOfBegins ==
    ASSUME NEW B, NEW s \in Seq(B), NEW t \in Seq(B), NEW u \in Seq(B), Begins(s, t), Begins(t, u)
    PROVE  Begins(s, u)
<1>1. Len(s) \in Nat /\ Len(t) \in Nat /\ Len(s) <= Len(t)
  BY DEF Begins
<1>2. \A i \in 1..Len(s) : i \in 1..Len(t)
  BY <1>1
<1> QED BY <1>1, <1>2 DEF Begins

(* What the spelling bee evaluator sees of the global collection is how the *)
(* history of the player begins: the part within the window and, if the     *)
(* window is at most max_age, all of it.                                    *)
LEMMA PlayerWindow ==
    ASSUME ProviderInv, NEW current \in Candidates, NEW w \in Nat
    PROVE  LET seen == CurrentPlayer(current, WithinWindow(current, globalBloops, w))
               own == CurrentPlayer(current, allBloops)
           IN  /\ seen \in Seq(Bloop) /\ own \in Seq(Bloop) /\ Begins(seen, own)
               /\ \A i \in 1..Len(seen) : own[i].at + w >= current.at
               /\ w <= MaxAge => \A i \in DOMAIN own : i > Len(seen) => own[i].at + w < current.at
<1> DEFINE S == {b \in Bloop : b.at + w >= current.at}
           T == {b \in Bloop : b.pid = current.pid}
           W == WithinWindow(current, globalBloops, w)
           V == WithinWindow(current, allBloops, w)
           seen == Filtered(W, T)
           own == Filtered(allBloops, T)
           all == Filtered(own, S)
<1>1. /\ current.at \in Nat /\ globalBloops \in Seq(Bloop) /\ allBloops \in Seq(Bloop)
      /\ NewestFirst(allBloops) /\ IsWindow(globalBloops, allBloops, current.at)
  BY CandidateFacts DEF ProviderInv, CollectionsInv, NothingRecentForgotten, BloopTypeOK
<1>2. W \in Seq(Bloop) /\ V \in Seq(Bloop) /\ Begins(W, V) /\ (w <= MaxAge => W = V)
  <2>1. SeenOf(current, globalBloops, allBloops, w)
    BY <1>1, WindowOfHistory
  <2> QED BY <2>1 DEF SeenOf
<1>3. V = Filtered(allBloops, S)
  BY DEF WithinWindow
<1>4. \A b \in Bloop : b.at \in Nat /\ (b \in S <=> b.at + w >= current.at)
  BY <1>1, MaxTimeAssumption DEF Bloop
<1> HIDE DEF S, T, W, V
<1>5. own \in Seq(Bloop) /\ NewestFirst(own)
  <2>1. Len(allBloops) \in 0..Len(allBloops)
    BY <1>1
  <2> QED BY <1>1, <2>1, FilterContents, FilteredNewestFirst DEF Filtered
<1>6. Filtered(V, T) = all
  <2>1. Filtered(Filtered(allBloops, S), T) = Filtered(allBloops, S \cap T)
    BY <1>1, FilteredTwice
  <2>2. Filtered(Filtered(allBloops, T), S) = Filtered(allBloops, T \cap S)
    BY <1>1, FilteredTwice
  <2>3. S \cap T = T \cap S
    OBVIOUS
  <2> QED BY <1>3, <2>1, <2>2, <2>3
<1> HIDE DEF own
<1>7. \A i, j \in DOMAIN own : i < j /\ own[j] \in S => own[i] \in S
  <2> SUFFICES ASSUME NEW i \in DOMAIN own, NEW j \in DOMAIN own, i < j, own[j] \in S PROVE own[i] \in S
    OBVIOUS
  <2>1. own[i] \in Bloop /\ own[j] \in Bloop /\ own[i].at >= own[j].at
    BY <1>5 DEF NewestFirst
  <2> QED BY <1>1, <1>4, <2>1
<1>8. /\ all \in Seq(Bloop) /\ Begins(all, own)
      /\ \A i \in 1..Len(all) : own[i] \in S
      /\ \A i \in DOMAIN own : i > Len(all) => own[i] \notin S
  BY <1>5, <1>7, FilteredFront
<1>9. seen \in Seq(Bloop) /\ Begins(seen, all) /\ (w <= MaxAge => seen = all)
  <2>1. Len(W) \in 0..Len(W)
    BY <1>2
  <2>2. seen \in Seq(Bloop)
    BY <1>2, <2>1, FilterContents DEF Filtered
  <2>3. Begins(seen, all)
    BY <1>2, <1>6, FilteredBegins
  <2> QED BY <1>2, <1>6, <2>2, <2>3
<1> HIDE DEF seen, all
<1>10. Begins(seen, own)
  BY <1>5, <1>8, <1>9, BeginsOfBegins
<1>11. \A i \in 1..Len(seen) : own[i].at + w >= current.at
  <2>1. \A i \in 1..Len(seen) : i \in 1..Len(all) /\ i \in DOMAIN own /\ own[i] \in Bloop
    BY <1>5, <1>8, <1>9 DEF Begins
  <2> QED BY <1>4, <1>8, <2>1
<1>12. w <= MaxAge => \A i \in DOMAIN own : i > Len(seen) => own[i].at + w < current.at
  <2>1. \A i \in DOMAIN own : own[i] \in Bloop
    BY <1>5
  <2>2. \A b \in Bloop : b \notin S => b.at + w < current.at
    BY <1>1, <1>4
  <2> QED BY <1>8, <1>9, <2>1, <2>2
<1> QED BY <1>5, <1>9, <1>10, <1>11, <1>12 DEF CurrentPlayer, seen, own, T, W

(* The length of a word in bytes.                                           *)
LEMMA ByteLenNat ==
    ASSUME NEW word \in Seq(Letters)
    PROVE  ByteLen(word) \in Nat
<1> DEFINE Step(n, char) == n + Bytes[char]
<1>1. FoldsStepwise(Step, 0, word)
  BY FoldEquations
<1>2. PICK f : /\ f[0] = 0
               /\ \A k \in 1..Len(word) : f[k] = f[k - 1] + Bytes[word[k]]
               /\ ByteLen(word) = f[Len(word)]
  BY <1>1 DEF FoldsStepwise, ByteLen
<1> DEFINE P == {k \in Nat : k <= Len(word) => f[k] \in Nat}
<1>3. Len(word) \in Nat /\ \A k \in 1..Len(word) : Bytes[word[k]] \in Nat
  <2>1. \A k \in 1..Len(word) : word[k] \in Letters
    OBVIOUS
  <2> QED BY <2>1, SpellingAssumption
<1>4. 0 \in P
  BY <1>2
<1>5. ASSUME NEW k \in Nat, k \in P PROVE k + 1 \in P
  <2> SUFFICES ASSUME k + 1 <= Len(word) PROVE f[k + 1] \in Nat
    OBVIOUS
  <2>1. f[k] \in Nat /\ k + 1 \in 1..Len(word) /\ (k + 1) - 1 = k
    BY <1>3, <1>5
  <2>2. f[k + 1] = f[k] + Bytes[word[k + 1]] /\ Bytes[word[k + 1]] \in Nat
    BY <1>2, <1>3, <2>1
  <2> QED BY <2>1, <2>2
<1> HIDE DEF P
<1>6. Len(word) \in P
  BY <1>3, <1>4, <1>5, NatSetInduction
<1> QED BY <1>2, <1>3, <1>6 DEF P

(* The time for a word.                                                     *)
LEMMA ProductNat ==
    ASSUME NEW x \in Nat, NEW y \in Nat
    PROVE  x * y \in Nat
  OBVIOUS

(* What new() makes of a word: which words it accepts, the clients of an    *)
(* accepted one, last letter first, and its time.                           *)
LEMMA BeeFacts ==
    ASSUME NEW word \in Seq(Letters), NEW t \in Nat, NEW e, e = SpellingBee(word, t)
    PROVE  /\ e.word = word /\ e.time_per_character = t
           /\ e.max_time = t * ByteLen(word) /\ e.max_time \in Nat
           /\ e.error = None <=> /\ Len(word) > 0 /\ ByteLen(word) <= MaxWordLen
                                 /\ e.max_time <= MaxDuration
                                 /\ \A i \in DOMAIN word : word[i] \in DOMAIN CharMap
           /\ e.error = None =>
                /\ e.client_ids \in Seq(Clients) /\ Len(e.client_ids) = Len(word) /\ Len(word) > 0
                /\ \A i \in 1..Len(word) : e.client_ids[i] = CharMap[word[Len(word) + 1 - i]]
<1> DEFINE n == ByteLen(word)
           Evaluator(error) ==
             [error |-> error, word |-> word, time_per_character |-> t,
              client_ids |-> IF error # None THEN <<>>
                             ELSE [i \in DOMAIN word |-> CharMap[Reverse(word)[i]]],
              max_time |-> t * n]
<1>1. n \in Nat /\ t * n \in Nat /\ Len(word) \in Nat /\ DOMAIN word = 1..Len(word)
  BY ByteLenNat, ProductNat
<1>2. e = IF word = <<>> THEN Evaluator("WordTooShort")
          ELSE IF n > MaxWordLen \/ t * n > MaxDuration THEN Evaluator("WordTooLong")
          ELSE IF ~ToSet(word) \subseteq DOMAIN CharMap THEN Evaluator("UnregisteredCharacter")
          ELSE Evaluator(None)
  BY DEF SpellingBee
<1>3. word = <<>> <=> ~(Len(word) > 0)
  OBVIOUS
<1>4. ToSet(word) \subseteq DOMAIN CharMap <=> \A i \in DOMAIN word : word[i] \in DOMAIN CharMap
  BY DEF ToSet
<1> HIDE DEF n
<1>5. \E error : e = Evaluator(error)
  <2> HIDE DEF Evaluator
  <2> QED BY <1>2
<1>6. e.word = word /\ e.time_per_character = t /\ e.max_time = t * n
  BY <1>5
<1>7. \A error : Evaluator(error).error = error
  OBVIOUS
<1> DEFINE tm == t * n
<1>8. tm \in Nat
  BY <1>1
<1> HIDE DEF tm
<1>9. (n > MaxWordLen \/ tm > MaxDuration) <=> ~(n <= MaxWordLen /\ tm <= MaxDuration)
  BY <1>1, <1>8, SpellingAssumption
<1>10. e.error = None <=> /\ word # <<>> /\ ~(n > MaxWordLen \/ tm > MaxDuration)
                          /\ ToSet(word) \subseteq DOMAIN CharMap
  <2> HIDE DEF Evaluator
  <2>1. CASE word = <<>>
    BY <1>2, <1>7, <2>1, SpellingAssumption
  <2>2. CASE word # <<>> /\ (n > MaxWordLen \/ tm > MaxDuration)
    BY <1>2, <1>7, <2>2, SpellingAssumption DEF tm
  <2>3. CASE /\ word # <<>> /\ ~(n > MaxWordLen \/ tm > MaxDuration)
             /\ ~ToSet(word) \subseteq DOMAIN CharMap
    BY <1>2, <1>7, <2>3, SpellingAssumption DEF tm
  <2>4. CASE /\ word # <<>> /\ ~(n > MaxWordLen \/ tm > MaxDuration)
             /\ ToSet(word) \subseteq DOMAIN CharMap
    BY <1>2, <1>7, <2>4 DEF tm
  <2> QED BY <2>1, <2>2, <2>3, <2>4
<1>11. ASSUME e.error = None
       PROVE  /\ e.client_ids \in Seq(Clients) /\ Len(e.client_ids) = Len(word) /\ Len(word) > 0
              /\ \A i \in 1..Len(word) : e.client_ids[i] = CharMap[word[Len(word) + 1 - i]]
  <2> DEFINE ids == [i \in 1..Len(word) |-> CharMap[Reverse(word)[i]]]
  <2>1. e.client_ids = ids
    BY <1>1, <1>5, <1>11
  <2>2. \A i \in 1..Len(word) : /\ Reverse(word)[i] = word[Len(word) + 1 - i]
                                /\ Len(word) + 1 - i \in 1..Len(word)
    <3>1. \A i \in 1..Len(word) : /\ (Len(word) - i) + 1 = Len(word) + 1 - i
                                  /\ Len(word) + 1 - i \in 1..Len(word)
      BY <1>1
    <3> QED BY <3>1 DEF Reverse
  <2>3. \A i \in 1..Len(word) : word[i] \in DOMAIN CharMap
    BY <1>1, <1>4, <1>10, <1>11
  <2>4. ids \in [1..Len(word) -> Clients]
    BY <2>2, <2>3, SpellingAssumption
  <2>5. ids \in Seq(Clients) /\ Len(ids) = Len(word)
    BY <1>1, <2>4
  <2>6. \A i \in 1..Len(word) : ids[i] = CharMap[word[Len(word) + 1 - i]]
    BY <2>2
  <2> HIDE DEF ids
  <2> QED BY <1>3, <1>10, <1>11, <2>1, <2>5, <2>6
<1> QED BY <1>1, <1>3, <1>4, <1>6, <1>9, <1>10, <1>11 DEF n, tm

(* The spelling bee evaluator on what it sees.                              *)
LEMMA SpellingResult ==
    ASSUME NEW e, NEW L \in Nat, L > 0, e.client_ids \in Seq(Clients), Len(e.client_ids) = L,
           NEW current \in Bloop, NEW seen \in Seq(Bloop),
           seen = CurrentPlayer(current, WithinWindow(current, globalBloops, e.max_time))
    PROVE  EvaluateSpelling(e, current) =
             IF /\ current.client = e.client_ids[1]
                /\ Len(seen) >= L - 1
                /\ \A i \in 1..(L - 1) : seen[i].client = e.client_ids[i + 1]
             THEN AwardSelf ELSE NoAward
<1> DEFINE ids == e.client_ids
           n == L - 1
           last == Take(seen, n)
           visited == [i \in DOMAIN last |-> last[i].client]
<1>1. EvaluateSpelling(e, current) =
        IF current.client = Head(ids) /\ visited = Tail(ids) THEN AwardSelf ELSE NoAward
  BY DEF EvaluateSpelling, FromBool
<1>2. n \in Nat /\ Len(seen) \in Nat /\ ids \in Seq(Clients) /\ Len(ids) = n + 1
  OBVIOUS
<1> HIDE DEF n, ids
<1>3. /\ Head(ids) = ids[1] /\ Tail(ids) \in Seq(Clients) /\ Len(Tail(ids)) = n
      /\ \A i \in 1..n : Tail(ids)[i] = ids[i + 1]
  <2>1. ids # <<>>
    BY <1>2
  <2> QED BY <1>2, <2>1
<1>4. /\ last \in Seq(Bloop) /\ Begins(last, seen)
      /\ Len(seen) >= n => Len(last) = n
      /\ Len(seen) < n => last = seen
  BY <1>2, TakeFacts
<1> HIDE DEF last
<1>5. Len(last) \in Nat /\ DOMAIN last = 1..Len(last) /\ DOMAIN visited = 1..Len(last)
  BY <1>4
<1>6. CASE Len(seen) >= n
  <2>1. DOMAIN visited = 1..n /\ \A i \in 1..n : visited[i] = seen[i].client
    BY <1>4, <1>5, <1>6 DEF Begins
  <2>2. visited = [i \in 1..n |-> visited[i]]
    BY <2>1
  <2>3. Tail(ids) = [i \in 1..n |-> Tail(ids)[i]]
    <3> DEFINE tl == Tail(ids)
    <3>1. tl \in Seq(Clients) /\ Len(tl) = n
      BY <1>3
    <3> HIDE DEF tl
    <3>2. tl = [i \in 1..n |-> tl[i]]
      BY <3>1
    <3> QED BY <3>2 DEF tl
  <2> HIDE DEF visited
  <2>4. visited = Tail(ids) <=> \A i \in 1..n : seen[i].client = ids[i + 1]
    <3>1. ASSUME visited = Tail(ids) PROVE \A i \in 1..n : seen[i].client = ids[i + 1]
      BY <1>3, <2>1, <3>1
    <3>2. ASSUME \A i \in 1..n : seen[i].client = ids[i + 1] PROVE visited = Tail(ids)
      <4>1. \A i \in 1..n : visited[i] = Tail(ids)[i]
        BY <1>3, <2>1, <3>2
      <4> QED BY <2>2, <2>3, <4>1
    <3> QED BY <3>1, <3>2
  <2> QED BY <1>1, <1>3, <1>6, <2>4 DEF n, ids
<1>7. CASE Len(seen) < n
  <2>1. visited # Tail(ids)
    <3> SUFFICES ASSUME visited = Tail(ids) PROVE FALSE
      OBVIOUS
    <3>1. DOMAIN Tail(ids) = 1..n
      BY <1>3
    <3>2. 1..Len(last) = 1..n
      BY <1>5, <3>1
    <3> HIDE DEF visited
    <3>3. n \in 1..n /\ n \notin 1..Len(last)
      BY <1>2, <1>4, <1>7
    <3> QED BY <3>2, <3>3
  <2>2. ~(Len(seen) >= n)
    BY <1>2, <1>7
  <2> HIDE DEF visited
  <2> QED BY <1>1, <2>1, <2>2 DEF n
<1> QED BY <1>2, <1>6, <1>7

(* Which words are accepted, and that an accepted word is spelled exactly   *)
(* when the history of the player says so, whatever has been pruned and     *)
(* whatever other players did; a word with a time longer than max_age may   *)
(* be missed but is never made up.                                          *)
THEOREM SpellingIsExact == ProviderSpec => []SpellingExact
<1>1. ASSUME ProviderInv, NEW word \in Seq(Letters), NEW t \in Nat, NEW e, e = SpellingBee(word, t),
             e.error = None, NEW current \in Candidates
      PROVE  LET bloops == <<current>> \o CurrentPlayer(current, allBloops)
                 length == Len(e.word)
                 spelled ==
                   /\ Len(bloops) >= length
                   /\ \A i \in 1..length :
                        /\ bloops[i].client = CharMap[e.word[length + 1 - i]]
                        /\ current.at - bloops[i].at <= e.time_per_character * ByteLen(e.word)
             IN  Agrees(EvaluateSpelling(e, current), FromBool(spelled), e.max_time)
  <2> DEFINE L == Len(word)
             n == L - 1
             w == e.max_time
             ids == e.client_ids
             seen == CurrentPlayer(current, WithinWindow(current, globalBloops, w))
             own == CurrentPlayer(current, allBloops)
             bloops == <<current>> \o own
             spelled == /\ Len(bloops) >= L
                        /\ \A i \in 1..L : /\ bloops[i].client = CharMap[word[L + 1 - i]]
                                           /\ current.at - bloops[i].at <= w
             found == /\ current.client = ids[1] /\ Len(seen) >= n
                      /\ \A i \in 1..n : seen[i].client = ids[i + 1]
  <2>1. /\ e.word = word /\ w = e.time_per_character * ByteLen(e.word) /\ w \in Nat
        /\ ids \in Seq(Clients) /\ Len(ids) = L /\ L > 0
        /\ \A i \in 1..L : ids[i] = CharMap[word[L + 1 - i]]
    BY <1>1, BeeFacts
  <2>2. L \in Nat /\ n \in Nat /\ L = n + 1
    BY <2>1
  <2>3. current \in Bloop /\ current.at \in Nat
    BY <1>1, CandidateFacts
  <2>4. /\ seen \in Seq(Bloop) /\ own \in Seq(Bloop) /\ Begins(seen, own)
        /\ \A i \in 1..Len(seen) : own[i].at + w >= current.at
        /\ w <= MaxAge => \A i \in DOMAIN own : i > Len(seen) => own[i].at + w < current.at
    BY <1>1, <2>1, PlayerWindow
  <2>5. EvaluateSpelling(e, current) = IF found THEN AwardSelf ELSE NoAward
    <3> HIDE DEF seen
    <3> QED BY <2>1, <2>2, <2>3, <2>4, SpellingResult DEF seen
  <2> HIDE DEF L, n, ids, seen, own, w
  <2>6. /\ Len(seen) \in Nat /\ Len(own) \in Nat /\ Len(seen) <= Len(own)
        /\ DOMAIN own = 1..Len(own) /\ \A i \in 1..Len(seen) : seen[i] = own[i]
        /\ \A i \in 1..Len(own) : own[i].at \in Nat
    BY <2>4, BloopAt DEF Begins
  <2>7. spelled <=> /\ current.client = ids[1] /\ Len(own) >= n
                    /\ \A i \in 1..n : own[i].client = ids[i + 1] /\ own[i].at + w >= current.at
    <3>1. /\ Len(bloops) = Len(own) + 1 /\ bloops[1] = current
          /\ \A i \in 2..(Len(own) + 1) : bloops[i] = own[i - 1]
      BY <2>3, <2>4, PrependFacts
    <3> HIDE DEF bloops
    <3>2. Len(bloops) >= L <=> Len(own) >= n
      BY <2>2, <2>6, <3>1
    <3>3. ASSUME Len(own) >= n
          PROVE  (\A i \in 1..L : /\ bloops[i].client = ids[i]
                                  /\ current.at - bloops[i].at <= w)
                 <=> /\ current.client = ids[1]
                     /\ \A i \in 1..n : own[i].client = ids[i + 1] /\ own[i].at + w >= current.at
      <4>1. \A i \in 1..n : i + 1 \in 1..L /\ bloops[i + 1] = own[i] /\ own[i].at \in Nat
        <5>1. \A i \in 1..n : /\ i + 1 \in 1..L /\ i + 1 \in 2..(Len(own) + 1) /\ (i + 1) - 1 = i
                              /\ i \in 1..Len(own)
          BY <2>2, <2>6, <3>3
        <5> QED BY <2>6, <3>1, <5>1
      <4>2. 1 \in 1..L /\ \A i \in 1..L : i = 1 \/ (i - 1 \in 1..n /\ (i - 1) + 1 = i)
        BY <2>2
      <4>3. current.at - current.at <= w
        BY <2>1, <2>3
      <4>4. \A i \in 1..n : current.at - bloops[i + 1].at <= w <=> own[i].at + w >= current.at
        <5> SUFFICES ASSUME NEW i \in 1..n
                     PROVE  current.at - bloops[i + 1].at <= w <=> own[i].at + w >= current.at
          OBVIOUS
        <5>1. bloops[i + 1].at = own[i].at /\ own[i].at \in Nat
          BY <4>1
        <5>2. \A x, y, v \in Nat : x - y <= v <=> y + v >= x
          OBVIOUS
        <5> QED BY <2>1, <2>3, <5>1, <5>2
      <4>5. ASSUME \A i \in 1..L : bloops[i].client = ids[i] /\ current.at - bloops[i].at <= w
            PROVE  /\ current.client = ids[1]
                   /\ \A i \in 1..n : own[i].client = ids[i + 1] /\ own[i].at + w >= current.at
        BY <3>1, <4>1, <4>2, <4>4, <4>5
      <4>6. ASSUME /\ current.client = ids[1]
                   /\ \A i \in 1..n : own[i].client = ids[i + 1] /\ own[i].at + w >= current.at
            PROVE  \A i \in 1..L : bloops[i].client = ids[i] /\ current.at - bloops[i].at <= w
        <5> SUFFICES ASSUME NEW i \in 1..L
                     PROVE  bloops[i].client = ids[i] /\ current.at - bloops[i].at <= w
          OBVIOUS
        <5>1. CASE i = 1
          BY <3>1, <4>3, <4>6, <5>1
        <5>2. CASE i # 1
          <6>1. PICK j \in 1..n : j + 1 = i
            BY <4>2, <5>2
          <6>2. own[j].client = ids[i] /\ bloops[i] = own[j] /\ current.at - bloops[i].at <= w
            BY <4>1, <4>4, <4>6, <6>1
          <6> QED BY <6>2
        <5> QED BY <5>1, <5>2
      <4> QED BY <4>5, <4>6
    <3> QED BY <2>1, <3>2, <3>3
  <2>8. FromBool(spelled) = IF spelled THEN AwardSelf ELSE NoAward
    BY DEF FromBool
  <2> HIDE DEF spelled
  <2>9. CASE Len(seen) >= n
    <3>1. \A i \in 1..n : i \in 1..Len(seen) /\ seen[i] = own[i] /\ own[i].at + w >= current.at
      <4>1. \A i \in 1..n : i \in 1..Len(seen)
        BY <2>2, <2>6, <2>9
      <4> QED BY <2>4, <2>6, <4>1
    <3>2. Len(own) >= n
      BY <2>2, <2>6, <2>9
    <3>3. found <=> spelled
      BY <2>7, <2>9, <3>1, <3>2
    <3> HIDE DEF found
    <3>4. EvaluateSpelling(e, current) = FromBool(spelled)
      BY <2>5, <2>8, <3>3
    <3>5. Agrees(EvaluateSpelling(e, current), FromBool(spelled), w)
      BY <3>4 DEF Agrees
    <3> QED BY <2>1, <3>5 DEF spelled, own, L, w
  <2>10. CASE Len(seen) < n
    <3>1. EvaluateSpelling(e, current) = NoAward
      <4>1. ~(Len(seen) >= n)
        BY <2>2, <2>6, <2>10
      <4> QED BY <2>5, <4>1
    <3>2. ASSUME w <= MaxAge PROVE ~spelled
      <4> SUFFICES ASSUME spelled PROVE FALSE
        OBVIOUS
      <4>1. Len(own) >= n /\ n \in 1..n
        BY <2>2, <2>6, <2>7, <2>10
      <4>2. n \in DOMAIN own /\ n > Len(seen) /\ own[n].at \in Nat
        BY <2>2, <2>6, <2>10, <4>1
      <4>3. own[n].at + w < current.at /\ own[n].at + w >= current.at
        BY <2>4, <2>7, <3>2, <4>1, <4>2
      <4> QED BY <2>1, <2>3, <4>2, <4>3
    <3>3. Agrees(EvaluateSpelling(e, current), FromBool(spelled), w)
      <4>1. w <= MaxAge \/ w > MaxAge
        BY <2>1, MaxAgeAssumption
      <4> QED BY <2>8, <3>1, <3>2, <4>1 DEF Agrees
    <3> QED BY <2>1, <3>3 DEF spelled, own, L, w
  <2>11. Len(seen) >= n \/ Len(seen) < n
    BY <2>2, <2>6
  <2> QED BY <2>9, <2>10, <2>11
<1>2. ASSUME ProviderInv PROVE SpellingExact
  <2> SUFFICES ASSUME NEW e \in Bees
               PROVE  /\ (e.error = None) = (/\ Len(e.word) > 0 /\ ByteLen(e.word) <= MaxWordLen
                                             /\ e.max_time <= MaxDuration
                                             /\ \A i \in DOMAIN e.word : e.word[i] \in DOMAIN CharMap)
                      /\ e.error = None =>
                          \A current \in Candidates :
                            LET bloops == <<current>> \o CurrentPlayer(current, allBloops)
                                length == Len(e.word)
                                spelled ==
                                  /\ Len(bloops) >= length
                                  /\ \A i \in 1..length :
                                       /\ bloops[i].client = CharMap[e.word[length + 1 - i]]
                                       /\ current.at - bloops[i].at
                                            <= e.time_per_character * ByteLen(e.word)
                            IN  Agrees(EvaluateSpelling(e, current), FromBool(spelled), e.max_time)
    BY DEF SpellingExact
  <2>1. PICK word \in BoundedSeq(Letters, MaxWordLen), t \in 0..MaxAge : e = SpellingBee(word, t)
    BY DEF Bees
  <2>2. word \in Seq(Letters) /\ t \in Nat
    <3>1. PICK m \in 0..MaxWordLen : word \in [1..m -> Letters]
      BY DEF BoundedSeq, SeqOf
    <3> QED BY <3>1, SpellingAssumption, MaxAgeAssumption
  <2>3. e.word = word /\ (e.error = None <=> /\ Len(word) > 0 /\ ByteLen(word) <= MaxWordLen
                                             /\ e.max_time <= MaxDuration
                                             /\ \A i \in DOMAIN word : word[i] \in DOMAIN CharMap)
    BY <2>1, <2>2, BeeFacts
  <2> QED BY <1>1, <1>2, <2>1, <2>2, <2>3
<1> QED BY <1>2, ProviderInvariant, PTL

-----------------------------------------------------------------------------
(* The units of the wall clock.                                             *)
LEMMA Units ==
    /\ Minute \in Nat \ {0} /\ Hour \in Nat \ {0} /\ Day \in Nat \ {0}
    /\ MinutesPerHour \in Nat \ {0} /\ HoursPerDay \in Nat \ {0}
    /\ Hour = MinutesPerHour * Minute /\ Day = HoursPerDay * Hour
    /\ Minute <= Hour
<1>1. Minute \in Nat \ {0} /\ MinutesPerHour \in Nat \ {0} /\ HoursPerDay \in Nat \ {0}
  BY TimeAssumption DEF Minute
<1>2. Hour = MinutesPerHour * Minute
  BY DEF Hour
<1>3. Hour \in Nat \ {0} /\ Minute <= Hour
  <2>1. \A n, b \in Nat \ {0} : n * b \in Nat \ {0} /\ b <= n * b
    OBVIOUS
  <2> QED BY <1>1, <1>2, <2>1
<1>4. Day = HoursPerDay * Hour
  BY DEF Day
<1>5. Day \in Nat \ {0}
  <2>1. \A n, b \in Nat \ {0} : n * b \in Nat \ {0}
    OBVIOUS
  <2> QED BY <1>1, <1>3, <1>4, <2>1
<1> QED BY <1>1, <1>2, <1>3, <1>4, <1>5

(* What a clock shows: the day, the hour, the minute and a rest.            *)
Shown(d, h, m, s) == d * Day + h * Hour + m * Minute + s

(* The parts of a local time are determined by it.                          *)
LEMMA PartsUnique ==
    ASSUME NEW d \in Int, NEW h \in 0..(HoursPerDay - 1), NEW m \in 0..(MinutesPerHour - 1),
           NEW s \in 0..(Minute - 1), NEW x, x = Shown(d, h, m, s)
    PROVE  /\ x \in Int /\ x \div Day = d /\ (x % Day) \div Hour = h /\ (x % Hour) \div Minute = m
           /\ x % Minute = s
<1> DEFINE p == m * Minute + s
           q == h * Hour + p
<1>1. p \in 0..(Hour - 1)
  BY Units, BelowProduct
<1> HIDE DEF p
<1>2. q \in 0..(Day - 1)
  BY <1>1, Units, BelowProduct
<1>3. h * Hour \in Int /\ d * Day \in Int /\ m * Minute \in Int /\ p \in Int
  BY <1>1, Units
<1>4. x = d * Day + q
  BY <1>3 DEF Shown, p
<1>5. x \in Int
  BY <1>2, <1>3, <1>4, Units
<1> HIDE DEF q
<1>6. x \div Day = d /\ x % Day = q
  <2>1. /\ x \div Day \in Int /\ x % Day \in 0..(Day - 1)
        /\ x = ((x \div Day) * Day) + (x % Day)
    BY <1>5, Units, DivMod
  <2> QED BY <1>2, <1>4, <2>1, Units, DivModUnique
<1>7. q \div Hour = h
  <2>1. q \in Int
    BY <1>2, Units
  <2>2. /\ q \div Hour \in Int /\ q % Hour \in 0..(Hour - 1)
        /\ q = ((q \div Hour) * Hour) + (q % Hour)
    BY <2>1, Units, DivMod
  <2>3. q = h * Hour + p /\ h \in Int
    BY DEF q
  <2> QED BY <1>1, <2>2, <2>3, Units, DivModUnique
<1>8. x % Hour = p
  <2>1. /\ x \div Hour \in Int /\ x % Hour \in 0..(Hour - 1)
        /\ x = ((x \div Hour) * Hour) + (x % Hour)
    BY <1>5, Units, DivMod
  <2>2. d * HoursPerDay + h \in Int
    BY Units
  <2>3. x = (d * HoursPerDay + h) * Hour + p
    <3>1. \A u, v, a, b \in Int : (u * v + a) * b = u * (v * b) + a * b
      OBVIOUS
    <3>2. (d * HoursPerDay + h) * Hour = d * Day + h * Hour
      BY <3>1, Units
    <3>3. x = d * Day + (h * Hour + p)
      BY <1>4 DEF q
    <3> QED BY <1>3, <3>2, <3>3
  <2> DEFINE k == d * HoursPerDay + h
             y == x \div Hour
             r == x % Hour
  <2>4. k \in Int /\ y \in Int /\ r \in 0..(Hour - 1) /\ k * Hour + p = y * Hour + r
    BY <2>1, <2>2, <2>3
  <2> HIDE DEF k, y, r
  <2>5. p = r
    <3>1. Hour \in Nat \ {0}
      BY Units
    <3> QED BY <1>1, <2>4, <3>1, DivModUnique
  <2> QED BY <2>5 DEF r
<1>9. p \div Minute = m
  <2>1. p \in Int
    BY <1>3
  <2>2. /\ p \div Minute \in Int /\ p % Minute \in 0..(Minute - 1)
        /\ p = ((p \div Minute) * Minute) + (p % Minute)
    BY <2>1, Units, DivMod
  <2>3. p = m * Minute + s /\ m \in Int
    BY DEF p
  <2> QED BY <2>2, <2>3, Units, DivModUnique
<1>10. x % Minute = s
  <2>1. /\ x \div Minute \in Int /\ x % Minute \in 0..(Minute - 1)
        /\ x = ((x \div Minute) * Minute) + (x % Minute)
    BY <1>5, Units, DivMod
  <2> DEFINE k == (d * HoursPerDay + h) * MinutesPerHour + m
  <2>2. k \in Int
    BY Units
  <2>3. x = k * Minute + s
    <3>1. \A u, v, a, b \in Int : (u * v + a) * b = u * (v * b) + a * b
      OBVIOUS
    <3>2. (d * HoursPerDay + h) * Hour = d * Day + h * Hour
      BY <3>1, Units
    <3>3. d * HoursPerDay + h \in Int
      BY Units
    <3>4. k * Minute = (d * HoursPerDay + h) * Hour + m * Minute
      BY <3>1, <3>3, Units
    <3>5. x = d * Day + (h * Hour + (m * Minute + s))
      BY <1>4 DEF q, p
    <3> HIDE DEF k
    <3> QED BY <1>3, <3>2, <3>4, <3>5
  <2> DEFINE y == x \div Minute
             r == x % Minute
  <2>4. k \in Int /\ y \in Int /\ r \in 0..(Minute - 1) /\ k * Minute + s = y * Minute + r
    <3> HIDE DEF k
    <3> QED BY <2>1, <2>2, <2>3
  <2> HIDE DEF k, y, r
  <2>5. s = r
    <3>1. Minute \in Nat \ {0}
      BY Units
    <3> QED BY <2>4, <3>1, DivModUnique
  <2> QED BY <2>5 DEF r
<1> QED BY <1>5, <1>6, <1>7, <1>8, <1>9, <1>10

(* Every local time has its parts.                                          *)
LEMMA PartsExist ==
    ASSUME NEW x \in Int
    PROVE  /\ x \div Day \in Int /\ (x % Day) \div Hour \in 0..(HoursPerDay - 1)
           /\ (x % Hour) \div Minute \in 0..(MinutesPerHour - 1) /\ x % Minute \in 0..(Minute - 1)
           /\ x = Shown(x \div Day, (x % Day) \div Hour, (x % Hour) \div Minute, x % Minute)
<1> DEFINE d == x \div Day
           q == x % Day
           h == q \div Hour
           p == q % Hour
           m == p \div Minute
           s == p % Minute
<1>1. d \in Int /\ q \in 0..(Day - 1) /\ x = d * Day + q
  BY Units, DivMod
<1> HIDE DEF d, q
<1>2. h \in 0..(HoursPerDay - 1) /\ p \in 0..(Hour - 1) /\ q = h * Hour + p
  <2>1. q \in Int
    BY <1>1, Units
  <2>2. p \in 0..(Hour - 1) /\ q = h * Hour + p
    BY <2>1, Units, DivMod
  <2>3. h \in 0..(HoursPerDay - 1)
    BY <1>1, Units, QuotientBelow
  <2> QED BY <2>2, <2>3
<1> HIDE DEF h, p
<1>3. m \in 0..(MinutesPerHour - 1) /\ s \in 0..(Minute - 1) /\ p = m * Minute + s
  <2>1. p \in Int
    BY <1>2, Units
  <2>2. s \in 0..(Minute - 1) /\ p = m * Minute + s
    BY <2>1, Units, DivMod
  <2>3. m \in 0..(MinutesPerHour - 1)
    BY <1>2, Units, QuotientBelow
  <2> QED BY <2>2, <2>3
<1> HIDE DEF m, s
<1>4. d * Day \in Int /\ h * Hour \in Int /\ m * Minute \in Int
  BY <1>1, <1>2, <1>3, Units
<1>5. x = Shown(d, h, m, s)
  BY <1>1, <1>2, <1>3, <1>4, Units DEF Shown
<1>6. /\ x \div Day = d /\ (x % Day) \div Hour = h /\ (x % Hour) \div Minute = m
      /\ x % Minute = s
  BY <1>1, <1>2, <1>3, <1>5, PartsUnique
<1> QED BY <1>1, <1>2, <1>3, <1>5, <1>6

(* The earliest and the latest of at most two moments.                      *)
LEMMA EarliestLatest ==
    ASSUME NEW a \in Int, NEW b \in Int, NEW S \in SUBSET {a, b}, S # {}
    PROVE  /\ Min(S) \in S /\ Max(S) \in S
           /\ \A x \in S : Min(S) <= x /\ x <= Max(S)
<1>1. \A x \in S : x \in Int /\ (x = a \/ x = b)
  OBVIOUS
<1>2. (\E x \in S : \A y \in S : x <= y) /\ (\E x \in S : \A y \in S : x >= y)
  <2>1. CASE a \notin S \/ b \notin S
    <3>1. PICK v \in S : \A y \in S : y = v
      BY <1>1, <2>1
    <3>2. \A y \in S : v <= y /\ v >= y
      BY <1>1, <3>1
    <3> QED BY <3>2
  <2>2. CASE a \in S /\ b \in S /\ a <= b
    <3>1. \A y \in S : a <= y /\ b >= y
      BY <1>1, <2>2
    <3> QED BY <2>2, <3>1
  <2>3. CASE a \in S /\ b \in S /\ b <= a
    <3>1. \A y \in S : b <= y /\ a >= y
      BY <1>1, <2>3
    <3> QED BY <2>3, <3>1
  <2>4. a <= b \/ b <= a
    OBVIOUS
  <2> QED BY <2>1, <2>2, <2>3, <2>4
<1>4. Min(S) \in S /\ \A y \in S : Min(S) <= y
  BY <1>2 DEF Min
<1>5. Max(S) \in S /\ \A y \in S : Max(S) >= y
  BY <1>2 DEF Max
<1> QED BY <1>1, <1>4, <1>5

(* What is configured, or else what the clock shows.                        *)
LEMMA Configured ==
    ASSUME NEW cfg \in TimeConfig, NEW h \in 0..(HoursPerDay - 1), NEW m \in 0..(MinutesPerHour - 1)
    PROVE  /\ UnwrapOr(cfg.hour, h) \in 0..(HoursPerDay - 1)
           /\ UnwrapOr(cfg.minute, m) \in 0..(MinutesPerHour - 1)
           /\ cfg.leeway \in Nat
           /\ cfg.hour \in {Unset, h} <=> UnwrapOr(cfg.hour, h) = h
           /\ cfg.minute \in {Unset, m} <=> UnwrapOr(cfg.minute, m) = m
<1>1. /\ cfg.hour \in 0..(HoursPerDay - 1) \cup {Unset}
      /\ cfg.minute \in 0..(MinutesPerHour - 1) \cup {Unset} /\ cfg.leeway \in 0..MaxLeeway
  BY DEF TimeConfig
<1>2. cfg.leeway \in Nat
  BY <1>1, TimeAssumption
<1> QED BY <1>1, <1>2 DEF UnwrapOr

(* A zone: its offsets are whole minutes, and so is the switch.             *)
LEMMA ZoneFacts ==
    ASSUME NEW z \in Zones
    PROVE  /\ z.switch \in Nat /\ z.before \in Nat /\ z.after \in Nat
           /\ z.switch % Minute = 0 /\ z.before % Minute = 0 /\ z.after % Minute = 0
           /\ \A t \in Int : Local(z, t) \in Int
<1>1. z.switch \in Nat /\ z.before \in 0..Day /\ z.after \in 0..Day
  BY TimeAssumption
<1>2. {z.switch % Minute, z.before % Minute, z.after % Minute} = {0}
  BY TimeAssumption
<1>3. z.switch % Minute = 0 /\ z.before % Minute = 0 /\ z.after % Minute = 0
  BY <1>2
<1>4. z.before \in Nat /\ z.after \in Nat
  BY <1>1, Units
<1> QED BY <1>1, <1>3, <1>4 DEF Local

(* Two whole minutes are the same or at least a minute apart.               *)
LEMMA MinutesApart ==
    ASSUME NEW x \in Int, NEW y \in Int, x % Minute = 0, y % Minute = 0, x < y
    PROVE  x + Minute <= y
<1> DEFINE M == Minute
           p == x \div M
           q == y \div M
<1>1. M \in Nat \ {0}
  BY Units
<1>2. /\ p \in Int /\ x = p * M + (x % M)
      /\ q \in Int /\ y = q * M + (y % M)
  BY <1>1, DivMod
<1>3. x = p * M /\ y = q * M
  BY <1>1, <1>2
<1> HIDE DEF M, p, q
<1>4. p < q
  <2> SUFFICES ASSUME q <= p PROVE FALSE
    BY <1>2
  <2>1. q * M <= p * M
    BY <1>1, <1>2
  <2> QED BY <1>3, <2>1
<1>5. (p + 1) * M <= q * M
  BY <1>1, <1>2, <1>4
<1>6. (p + 1) * M = p * M + M
  BY <1>1, <1>2
<1> QED BY <1>3, <1>5, <1>6 DEF M

(* A whole minute less a whole minute is one.                               *)
LEMMA MinutesLess ==
    ASSUME NEW x \in Int, NEW y \in Int, x % Minute = 0, y % Minute = 0
    PROVE  (x - y) % Minute = 0
<1> DEFINE M == Minute
           p == x \div M
           q == y \div M
           r == (x - y) \div M
<1>1. M \in Nat \ {0}
  BY Units
<1>2. /\ p \in Int /\ x = p * M + (x % M)
      /\ q \in Int /\ y = q * M + (y % M)
      /\ r \in Int /\ (x - y) % M \in 0..(M - 1) /\ x - y = r * M + ((x - y) % M)
  BY <1>1, DivMod
<1>3. x = p * M /\ y = q * M
  BY <1>1, <1>2
<1> DEFINE s == (x - y) % M
<1> HIDE DEF M, p, q, r, s
<1>4. (p - q) * M = p * M - q * M
  BY <1>1, <1>2
<1>5. (p - q) * M + 0 = r * M + s /\ p - q \in Int /\ 0 \in 0..(M - 1) /\ s \in 0..(M - 1)
  BY <1>1, <1>2, <1>3, <1>4 DEF s
<1> DEFINE k == p - q
           zero == 0
<1>6. k \in Int /\ k * M + zero = r * M + s /\ zero \in 0..(M - 1) /\ s \in 0..(M - 1)
  BY <1>5
<1> HIDE DEF k, zero
<1>7. zero = s
  BY <1>1, <1>2, <1>6, DivModUnique
<1> QED BY <1>7 DEF s, M, zero

(* A bloop at the configured hour and minute is awarded: the moment its     *)
(* minute began is one of those found for the target time, on either side   *)
(* of a switch of the clocks.                                               *)
LEMMA MatchAwarded ==
    ASSUME now \in Nat, NEW z \in Zones, NEW cfg \in TimeConfig, Matches(z, cfg, now)
    PROVE  EvaluateTime(z, cfg)
<1> DEFINE x == Local(z, now)
           d == DayOf(z, now)
           h == HourOf(z, now)
           m == MinuteOf(z, now)
           s == x % Minute
           o == IF now < z.switch THEN z.before ELSE z.after
           wall == d * Day + h * Hour + m * Minute
           u == wall - o
           at == WithTime(z, now, h, m)
<1>1. x = now + o /\ o \in Nat /\ x \in Int /\ o % Minute = 0 /\ z.switch \in Nat /\ z.switch % Minute = 0
  BY ZoneFacts DEF Local
<1>2. /\ d \in Int /\ h \in 0..(HoursPerDay - 1) /\ m \in 0..(MinutesPerHour - 1)
      /\ s \in 0..(Minute - 1) /\ x = Shown(d, h, m, s)
  BY <1>1, PartsExist DEF DayOf, HourOf, MinuteOf
<1>3. UnwrapOr(cfg.hour, h) = h /\ UnwrapOr(cfg.minute, m) = m /\ cfg.leeway \in Nat
  BY <1>2, Configured DEF Matches
<1>4. at = {v \in {wall - z.before, wall - z.after} : Local(z, v) = wall}
  BY DEF WithTime
<1> HIDE DEF x, d, h, m, s, at
<1>5. wall \in Int /\ x = wall + s
  <2>1. d * Day \in Int /\ h * Hour \in Int /\ m * Minute \in Int
    BY <1>2, Units
  <2> QED BY <1>2, <2>1, Units DEF Shown
<1>6. wall % Minute = 0
  <2>1. 0 \in 0..(Minute - 1)
    BY Units
  <2>2. wall = Shown(d, h, m, 0)
    BY <1>5 DEF Shown
  <2> HIDE DEF wall
  <2> QED BY <1>2, <2>1, <2>2, PartsUnique
<1> HIDE DEF wall, o
<1>7. u \in Int /\ now = u + s /\ u <= now /\ now < u + Minute /\ u % Minute = 0
  <2>1. u \in Int /\ now = u + s
    BY <1>1, <1>2, <1>5
  <2>2. u <= now /\ now < u + Minute
    BY <1>2, <2>1, Units
  <2>3. u % Minute = 0
    BY <1>1, <1>5, <1>6, MinutesLess
  <2> QED BY <2>1, <2>2, <2>3
<1>8. now < z.switch <=> u < z.switch
  <2>1. ASSUME now < z.switch PROVE u < z.switch
    BY <1>1, <1>7, <2>1
  <2>2. ASSUME u < z.switch, ~(now < z.switch) PROVE FALSE
    <3>1. u + Minute <= z.switch
      <4> HIDE DEF u
      <4> QED BY <1>1, <1>7, <2>2, MinutesApart
    <3> QED BY <1>1, <1>7, <2>2, <3>1, Units
  <2> QED BY <2>1, <2>2
<1>9. Local(z, u) = wall
  <2>1. Local(z, u) = u + o
    BY <1>8 DEF Local, o
  <2> QED BY <1>1, <1>5, <2>1
<1>10. u \in at
  BY <1>4, <1>9 DEF o
<1> DEFINE first == Min(at)
           latest == Max(at)
<1>11. first \in Int /\ latest \in Int /\ first <= u /\ u <= latest
  <2>1. z.before \in Int /\ z.after \in Int
    BY ZoneFacts
  <2>2. wall - z.before \in Int /\ wall - z.after \in Int
    BY <1>5, <2>1
  <2>3. at \in SUBSET {wall - z.before, wall - z.after} /\ at # {}
    BY <1>4, <1>10
  <2>4. first \in at /\ latest \in at /\ first <= u /\ u <= latest
    BY <1>10, <2>2, <2>3, EarliestLatest
  <2> QED BY <1>4, <2>2, <2>4
<1> HIDE DEF first, latest, u
<1> DEFINE width == IF cfg.minute # Unset THEN Minute ELSE Hour
<1>12. width \in Nat /\ width >= Minute
  BY Units
<1> HIDE DEF width
<1>13. now >= first /\ now < latest + width + cfg.leeway
  BY <1>3, <1>7, <1>11, <1>12, Units
<1>14. EvaluateTime(z, cfg) <=> at # {} /\ now >= first /\ now < latest + width + cfg.leeway
  BY <1>3 DEF EvaluateTime, at, h, m, first, latest, width
<1> QED BY <1>10, <1>13, <1>14

(* The clock.                                                               *)
LEMMA TimeInvariant == TimeSpec => [](now \in Nat)
<1>1. TimeInit => now \in Nat
  BY DEF TimeInit, ClockInit
<1>2. now \in Nat /\ [Tick]_now => (now \in Nat)'
  BY DEF Tick
<1> QED BY <1>1, <1>2, PTL DEF TimeSpec

(* An evaluator awards every bloop at its hour and minute, for any zone and *)
(* any day, the two on which clocks are switched included.                  *)
THEOREM MatchingTimesAreAwarded == TimeSpec => []MatchingTimeAwarded
<1>1. now \in Nat => MatchingTimeAwarded
  BY MatchAwarded DEF MatchingTimeAwarded
<1> QED BY <1>1, TimeInvariant, PTL

(* A zone whose clocks are not switched: the local time, its parts, and     *)
(* the one moment of a time of day.                                         *)
LEMMA SteadyZone ==
    ASSUME NEW z \in Zones, z.before = z.after, NEW t \in Int
    PROVE  /\ z.before \in Nat /\ Local(z, t) = t + z.before /\ Local(z, t) \in Int
           /\ DayOf(z, t) \in Int /\ HourOf(z, t) \in 0..(HoursPerDay - 1)
           /\ MinuteOf(z, t) \in 0..(MinutesPerHour - 1) /\ Local(z, t) % Minute \in 0..(Minute - 1)
           /\ Local(z, t) = Shown(DayOf(z, t), HourOf(z, t), MinuteOf(z, t), Local(z, t) % Minute)
<1>1. z.before \in Nat /\ Local(z, t) \in Int
  BY ZoneFacts
<1>2. Local(z, t) = t + z.before
  BY DEF Local
<1> QED BY <1>1, <1>2, PartsExist DEF DayOf, HourOf, MinuteOf

(* In such a zone the evaluator compares the local time with the target on  *)
(* the bloop's day.                                                         *)
LEMMA SteadyEvaluation ==
    ASSUME now \in Nat, NEW z \in Zones, z.before = z.after, NEW cfg \in TimeConfig
    PROVE  LET x == Local(z, now)
               h == UnwrapOr(cfg.hour, HourOf(z, now))
               m == UnwrapOr(cfg.minute, MinuteOf(z, now))
               wall == Shown(DayOf(z, now), h, m, 0)
               width == IF cfg.minute # Unset THEN Minute ELSE Hour
           IN  /\ wall \in Int
               /\ EvaluateTime(z, cfg) <=> wall <= x /\ x < wall + width + cfg.leeway
<1> DEFINE x == Local(z, now)
           d == DayOf(z, now)
           h == UnwrapOr(cfg.hour, HourOf(z, now))
           m == UnwrapOr(cfg.minute, MinuteOf(z, now))
           wall == d * Day + h * Hour + m * Minute
           width == IF cfg.minute # Unset THEN Minute ELSE Hour
           u == wall - z.before
           at == WithTime(z, now, h, m)
<1>1. /\ z.before \in Nat /\ x = now + z.before /\ x \in Int /\ d \in Int
      /\ h \in 0..(HoursPerDay - 1) /\ m \in 0..(MinutesPerHour - 1) /\ cfg.leeway \in Nat
  <2>1. now \in Int
    OBVIOUS
  <2>2. /\ z.before \in Nat /\ Local(z, now) = now + z.before /\ Local(z, now) \in Int
        /\ DayOf(z, now) \in Int /\ HourOf(z, now) \in 0..(HoursPerDay - 1)
        /\ MinuteOf(z, now) \in 0..(MinutesPerHour - 1)
    BY <2>1, SteadyZone
  <2>3. /\ h \in 0..(HoursPerDay - 1) /\ m \in 0..(MinutesPerHour - 1) /\ cfg.leeway \in Nat
    BY <2>2, Configured
  <2> QED BY <2>2, <2>3
<1>2. at = {v \in {wall - z.before, wall - z.after} : Local(z, v) = wall}
  BY DEF WithTime
<1>3. EvaluateTime(z, cfg) <=> at # {} /\ now >= Min(at) /\ now < Max(at) + width + cfg.leeway
  BY DEF EvaluateTime
<1> HIDE DEF x, d, h, m, at
<1>4. wall \in Int /\ wall = Shown(d, h, m, 0)
  <2>1. d * Day \in Int /\ h * Hour \in Int /\ m * Minute \in Int
    BY <1>1, Units
  <2> QED BY <2>1 DEF Shown
<1> HIDE DEF wall
<1>5. Local(z, u) = wall
  <2>1. Local(z, u) = u + z.before
    BY DEF Local
  <2> QED BY <1>1, <1>4, <2>1
<1>6. at = {u} /\ u \in Int
  BY <1>1, <1>2, <1>4, <1>5
<1> HIDE DEF u
<1>7. Min(at) = u /\ Max(at) = u
  BY <1>6 DEF Min, Max
<1>8. width \in Nat
  BY Units
<1> HIDE DEF width
<1>9. EvaluateTime(z, cfg) <=> now >= u /\ now < u + width + cfg.leeway
  BY <1>3, <1>6, <1>7
<1>10. /\ now >= u <=> wall <= x
       /\ now < u + width + cfg.leeway <=> x < wall + width + cfg.leeway
  BY <1>1, <1>4, <1>8 DEF u
<1> QED BY <1>4, <1>9, <1>10 DEF x, d, h, m, width

(* The minute that begins with a time of day.                               *)
LEMMA MinuteFrom ==
    ASSUME NEW d \in Int, NEW h \in 0..(HoursPerDay - 1), NEW m \in 0..(MinutesPerHour - 1)
    PROVE  /\ Shown(d, h, m, 0) \in Int
           /\ \A s \in Int : Shown(d, h, m, s) = Shown(d, h, m, 0) + s
<1>1. d * Day \in Int /\ h * Hour \in Int /\ m * Minute \in Int
  BY Units
<1> QED BY <1>1 DEF Shown

(* With a minute configured: the awards are those at most the leeway after  *)
(* a moment that matches.                                                   *)
LEMMA LeewayMinute ==
    ASSUME now \in Nat, NEW z \in Zones, z.before = z.after, NEW cfg \in TimeConfig,
           cfg.minute # Unset
    PROVE  EvaluateTime(z, cfg) <=>
             \E t \in (now - cfg.leeway)..now :
               /\ Matches(z, cfg, t)
               /\ DayOf(z, t) = DayOf(z, now)
               /\ cfg.hour = Unset => HourOf(z, t) = HourOf(z, now)
<1> DEFINE x == Local(z, now)
           o == z.before
           d == DayOf(z, now)
           h == UnwrapOr(cfg.hour, HourOf(z, now))
           m == UnwrapOr(cfg.minute, MinuteOf(z, now))
           wall == Shown(d, h, m, 0)
           lee == cfg.leeway
           Good(t) == /\ Matches(z, cfg, t) /\ DayOf(z, t) = d
                      /\ cfg.hour = Unset => HourOf(z, t) = HourOf(z, now)
<1>1. /\ o \in Nat /\ x = now + o /\ x \in Int /\ d \in Int
      /\ h \in 0..(HoursPerDay - 1) /\ m \in 0..(MinutesPerHour - 1) /\ lee \in Nat
  <2>1. now \in Int
    OBVIOUS
  <2>2. /\ z.before \in Nat /\ Local(z, now) = now + z.before /\ Local(z, now) \in Int
        /\ DayOf(z, now) \in Int /\ HourOf(z, now) \in 0..(HoursPerDay - 1)
        /\ MinuteOf(z, now) \in 0..(MinutesPerHour - 1)
    BY <2>1, SteadyZone
  <2>3. /\ h \in 0..(HoursPerDay - 1) /\ m \in 0..(MinutesPerHour - 1) /\ cfg.leeway \in Nat
    BY <2>2, Configured
  <2> QED BY <2>2, <2>3
<1>2. wall \in Int /\ \A s \in Int : Shown(d, h, m, s) = wall + s
  BY <1>1, MinuteFrom
<1>3. EvaluateTime(z, cfg) <=> wall <= x /\ x < wall + Minute + lee
  BY SteadyEvaluation
<1>4. m = cfg.minute /\ (h = IF cfg.hour = Unset THEN HourOf(z, now) ELSE cfg.hour)
  BY DEF UnwrapOr
<1>5. ASSUME NEW t \in Int
      PROVE  Good(t) <=> DayOf(z, t) = d /\ HourOf(z, t) = h /\ MinuteOf(z, t) = m
  BY <1>4 DEF Matches
<1> HIDE DEF x, d, h, m, wall, lee, o, Good
<1>6. ASSUME NEW t \in Int, DayOf(z, t) = d, HourOf(z, t) = h, MinuteOf(z, t) = m
      PROVE  wall <= t + o /\ t + o < wall + Minute
  <2> DEFINE s == Local(z, t) % Minute
  <2>1. Local(z, t) = t + o /\ s \in 0..(Minute - 1) /\ Local(z, t) = Shown(d, h, m, s)
    BY <1>6, SteadyZone DEF o
  <2> HIDE DEF s
  <2>2. s \in Int /\ Local(z, t) = wall + s
    BY <1>2, <2>1
  <2> QED BY <1>1, <1>2, <2>1, <2>2, Units
<1>7. ASSUME NEW t \in Int, wall <= t + o, t + o < wall + Minute
      PROVE  Good(t)
  <2> DEFINE s == (t + o) - wall
  <2>1. s \in 0..(Minute - 1) /\ t + o = wall + s /\ s \in Int
    BY <1>1, <1>2, <1>7, Units
  <2> HIDE DEF s
  <2>2. Local(z, t) = t + o
    BY SteadyZone DEF o
  <2>3. Local(z, t) = Shown(d, h, m, s)
    BY <1>2, <2>1, <2>2
  <2>4. DayOf(z, t) = d /\ HourOf(z, t) = h /\ MinuteOf(z, t) = m
    BY <1>1, <2>1, <2>3, PartsUnique DEF DayOf, HourOf, MinuteOf
  <2> QED BY <1>5, <2>4
<1>8. ASSUME EvaluateTime(z, cfg) PROVE \E t \in (now - lee)..now : Good(t)
  <2>1. wall <= x /\ x < wall + Minute + lee
    BY <1>3, <1>8
  <2>2. CASE x < wall + Minute
    <3>1. now \in (now - lee)..now /\ now \in Int /\ wall <= now + o /\ now + o < wall + Minute
      BY <1>1, <2>1, <2>2
    <3> QED BY <1>7, <3>1
  <2>3. CASE x >= wall + Minute
    <3> DEFINE t == wall + Minute - 1 - o
    <3>1. t \in (now - lee)..now /\ t \in Int /\ wall <= t + o /\ t + o < wall + Minute
      BY <1>1, <1>2, <2>1, <2>3, Units
    <3> HIDE DEF t
    <3> QED BY <1>7, <3>1
  <2> QED BY <1>1, <1>2, <2>2, <2>3, Units
<1>9. ASSUME NEW t \in (now - lee)..now, Good(t) PROVE EvaluateTime(z, cfg)
  <2>1. t \in Int /\ now - lee <= t /\ t <= now
    BY <1>1
  <2>2. wall <= t + o /\ t + o < wall + Minute
    BY <1>5, <1>6, <1>9, <2>1
  <2>3. wall <= x /\ x < wall + Minute + lee
    BY <1>1, <1>2, <2>1, <2>2, Units
  <2> QED BY <1>3, <2>3
<1> QED BY <1>8, <1>9 DEF Good, d, lee

(* Without a minute and without a leeway: the awards are those of the hour. *)
LEMMA LeewayHour ==
    ASSUME now \in Nat, NEW z \in Zones, z.before = z.after, NEW cfg \in TimeConfig,
           cfg.minute = Unset, cfg.leeway = 0
    PROVE  EvaluateTime(z, cfg) <=> Matches(z, cfg, now)
<1> DEFINE x == Local(z, now)
           d == DayOf(z, now)
           g == HourOf(z, now)
           h == UnwrapOr(cfg.hour, g)
           m == MinuteOf(z, now)
           s == x % Minute
           wall == Shown(d, h, m, 0)
<1>1. /\ x \in Int /\ d \in Int /\ g \in 0..(HoursPerDay - 1) /\ m \in 0..(MinutesPerHour - 1)
      /\ s \in 0..(Minute - 1) /\ x = Shown(d, g, m, s)
  BY SteadyZone
<1>2. h \in 0..(HoursPerDay - 1) /\ (Matches(z, cfg, now) <=> h = g)
  BY <1>1, Configured DEF Matches
<1>3. EvaluateTime(z, cfg) <=> wall <= x /\ x < wall + Hour
  <2>1. UnwrapOr(cfg.minute, m) = m
    BY DEF UnwrapOr
  <2>2. wall \in Int /\ (EvaluateTime(z, cfg) <=> wall <= x /\ x < wall + Hour + 0)
    BY <2>1, SteadyEvaluation
  <2>3. wall + Hour + 0 = wall + Hour
    BY <2>2, Units
  <2> QED BY <2>2, <2>3
<1> HIDE DEF x, d, g, h, m, s
<1> DEFINE a == g * Hour
           b == h * Hour
           r == d * Day + m * Minute
<1>4. a \in Int /\ b \in Int /\ r \in Int /\ s \in Int /\ x = r + a + s /\ wall = r + b
  <2>1. d * Day \in Int /\ m * Minute \in Int /\ g * Hour \in Int /\ h * Hour \in Int /\ s \in Int
    BY <1>1, <1>2, Units
  <2> QED BY <1>1, <2>1 DEF Shown
<1>5. Hour \in Nat /\ s < Hour /\ s >= 0
  BY <1>1, Units
<1>6. ASSUME h < g PROVE b + Hour <= a
  <2>1. (h + 1) * Hour <= g * Hour
    BY <1>1, <1>2, <1>6, Units
  <2>2. (h + 1) * Hour = h * Hour + Hour
    BY <1>2, Units
  <2> QED BY <2>1, <2>2
<1>7. ASSUME g < h PROVE a + Hour <= b
  <2>1. (g + 1) * Hour <= h * Hour
    BY <1>1, <1>2, <1>7, Units
  <2>2. (g + 1) * Hour = g * Hour + Hour
    BY <1>1, Units
  <2> QED BY <2>1, <2>2
<1>8. h = g => a = b
  OBVIOUS
<1> HIDE DEF a, b, r, wall
<1>9. h = g \/ h < g \/ g < h
  BY <1>1, <1>2, Units
<1>10. (wall <= x /\ x < wall + Hour) <=> h = g
  <2>1. CASE h = g
    BY <1>4, <1>5, <1>8, <2>1
  <2>2. CASE h < g
    <3>1. h # g
      BY <1>1, <1>2, <2>2, Units
    <3>2. x >= wall + Hour /\ x \in Int /\ wall + Hour \in Int
      BY <1>4, <1>5, <1>6, <2>2
    <3> QED BY <3>1, <3>2
  <2>3. CASE g < h
    <3>1. h # g
      BY <1>1, <1>2, <2>3, Units
    <3>2. x < wall /\ x \in Int /\ wall \in Int
      BY <1>4, <1>5, <1>7, <2>3
    <3> QED BY <3>1, <3>2
  <2> QED BY <1>9, <2>1, <2>2, <2>3
<1> QED BY <1>2, <1>3, <1>10

(* Where the clocks are not switched, no award comes later than the leeway  *)
(* allows and none is missed on the bloop's own day, for any zone, any      *)
(* length of the day's parts, any leeway and at any time.                   *)
THEOREM LeewaysAreExact == TimeSpec => []LeewayExact
<1>1. now \in Nat => LeewayExact
  <2> SUFFICES ASSUME now \in Nat, NEW z \in Zones, z.before = z.after, NEW cfg \in TimeConfig
               PROVE  LET within == {t \in (now - cfg.leeway)..now : Matches(z, cfg, t)} IN
                      /\ cfg.minute # Unset =>
                          /\ EvaluateTime(z, cfg) => within # {}
                          /\ (\E t \in within :
                                 /\ DayOf(z, t) = DayOf(z, now)
                                 /\ cfg.hour = Unset => HourOf(z, t) = HourOf(z, now)) =>
                              EvaluateTime(z, cfg)
                      /\ cfg.minute = Unset /\ cfg.leeway = 0 =>
                          EvaluateTime(z, cfg) = Matches(z, cfg, now)
    BY DEF LeewayExact
  <2>1. EvaluateTime(z, cfg) \in BOOLEAN /\ Matches(z, cfg, now) \in BOOLEAN
    BY DEF EvaluateTime, Matches
  <2>2. cfg.minute # Unset =>
          (EvaluateTime(z, cfg) <=>
             \E t \in (now - cfg.leeway)..now :
                 /\ Matches(z, cfg, t)
                 /\ DayOf(z, t) = DayOf(z, now)
                 /\ cfg.hour = Unset => HourOf(z, t) = HourOf(z, now))
    BY LeewayMinute
  <2>3. ASSUME cfg.minute = Unset, cfg.leeway = 0
        PROVE  EvaluateTime(z, cfg) = Matches(z, cfg, now)
    BY <2>1, <2>3, LeewayHour
  <2> QED BY <2>2, <2>3
<1> QED BY <1>1, TimeInvariant, PTL

-----------------------------------------------------------------------------
(* The number predicates.                                                   *)

(* The remainder is zero for the multiples, and for nothing else.           *)
LEMMA Multiples ==
    ASSUME NEW n \in Nat, NEW d \in Nat \ {0}
    PROVE  IsMultipleOf(n, d) <=> \E e \in Nat : n = e * d
<1>1. ASSUME IsMultipleOf(n, d) PROVE \E e \in Nat : n = e * d
  <2>1. n \div d \in Nat /\ n = (n \div d) * d + (n % d) /\ n % d = 0
    BY <1>1, DivMod DEF IsMultipleOf
  <2> DEFINE e == n \div d
  <2>2. e \in Nat /\ n = e * d + 0
    BY <2>1
  <2> HIDE DEF e
  <2>3. n = e * d
    BY <2>2
  <2> QED BY <2>2, <2>3
<1>2. ASSUME NEW e \in Nat, n = e * d PROVE IsMultipleOf(n, d)
  <2> DEFINE q == n \div d
  <2> DEFINE r == n % d
  <2> DEFINE z == 0
  <2>1. q \in Int /\ r \in 0..(d - 1) /\ n = q * d + r
    BY DivMod
  <2>2. e \in Int /\ z \in 0..(d - 1) /\ n = e * d + z
    BY <1>2
  <2> HIDE DEF q, r, z
  <2>3. q * d + r = e * d + z
    BY <2>1, <2>2
  <2>4. r = z
    BY <2>1, <2>2, <2>3, DivModUnique
  <2> QED BY <2>4 DEF r, z, IsMultipleOf
<1> QED BY <1>1, <1>2

(* A multiple of a multiple is a multiple.                                  *)
LEMMA MultiplesCompose ==
    ASSUME NEW n \in Nat, NEW c \in Nat \ {0}, NEW d \in Nat \ {0},
           IsMultipleOf(n, c), IsMultipleOf(c, d)
    PROVE  IsMultipleOf(n, d)
<1>1. PICK e \in Nat : n = e * c
  BY Multiples
<1>2. PICK f \in Nat : c = f * d
  BY Multiples
<1>3. n = (e * f) * d /\ e * f \in Nat
  <2>1. n = e * (f * d)
    BY <1>1, <1>2
  <2> QED BY <2>1
<1> QED BY <1>3, Multiples

(* Two natural numbers and their product.                                   *)
LEMMA ProductMonotone ==
    ASSUME NEW x \in Nat, NEW y \in Nat, NEW v \in Nat, x <= y
    PROVE  x * v <= y * v /\ v * x <= v * y /\ x * v \in Nat /\ y * v \in Nat
  OBVIOUS

(* A number with a proper divisor has one whose square it reaches.          *)
LEMMA SmallDivisor ==
    ASSUME NEW n \in Nat, NEW d \in 2..(n - 1), IsMultipleOf(n, d)
    PROVE  \E c \in 2..(n - 1) : IsMultipleOf(n, c) /\ c * c <= n
<1>1. PICK e \in Nat : n = e * d
  BY Multiples
<1>2. e # 0 /\ e # 1
  BY <1>1
<1>3. CASE d <= e
  <2>1. d * d <= e * d
    BY <1>3, ProductMonotone
  <2> QED BY <1>1, <2>1
<1>4. CASE e <= d
  <2>1. e * e <= e * d
    BY <1>4, ProductMonotone
  <2>2. e * 2 <= e * d
    BY ProductMonotone
  <2>3. e \in 2..(n - 1)
    BY <1>1, <1>2, <2>2
  <2>4. n = d * e
    BY <1>1
  <2>5. IsMultipleOf(n, e)
    BY <2>3, <2>4, Multiples
  <2> QED BY <1>1, <2>1, <2>3, <2>5
<1> QED BY <1>3, <1>4

(* A number that neither 2 nor 3 divides is one off a multiple of six.      *)
LEMMA OneOffSix ==
    ASSUME NEW c \in Nat, c > 1, ~IsMultipleOf(c, 2), ~IsMultipleOf(c, 3)
    PROVE  \E k \in Nat \ {0} : 6 * k - 6 <= c /\ (c = 6 * k - 1 \/ c = 6 * k + 1)
<1>1. \E q \in Nat : \E r \in 0..5 : c = 6 * q + r
  <2>1. c \div 6 \in Nat /\ c % 6 \in 0..5 /\ c = 6 * (c \div 6) + (c % 6)
    OBVIOUS
  <2> QED BY <2>1
<1>2. PICK q \in Nat, r \in 0..5 : c = 6 * q + r
  BY <1>1
<1>3. r \notin {0, 2, 4}
  <2>1. r = 0 => c = (3 * q) * 2
    BY <1>2
  <2>2. r = 2 => c = (3 * q + 1) * 2
    BY <1>2
  <2>3. r = 4 => c = (3 * q + 2) * 2
    BY <1>2
  <2>4. \A e \in Nat : c # e * 2
    BY Multiples
  <2>5. 3 * q \in Nat /\ 3 * q + 1 \in Nat /\ 3 * q + 2 \in Nat
    OBVIOUS
  <2> QED BY <2>1, <2>2, <2>3, <2>4, <2>5
<1>4. r # 3
  <2>1. r = 3 => c = (2 * q + 1) * 3
    BY <1>2
  <2>2. \A e \in Nat : c # e * 3
    BY Multiples
  <2>3. 2 * q + 1 \in Nat
    OBVIOUS
  <2> QED BY <2>1, <2>2, <2>3
<1>5. CASE r = 1
  <2>1. q # 0 /\ c = 6 * q + 1 /\ 6 * q - 6 <= c
    BY <1>2, <1>5
  <2> QED BY <2>1
<1>6. CASE r = 5
  <2>1. c = 6 * (q + 1) - 1 /\ 6 * (q + 1) - 6 <= c /\ q + 1 \in Nat \ {0}
    BY <1>2, <1>6
  <2> QED BY <2>1
<1> QED BY <1>3, <1>4, <1>5, <1>6

(* internal_is_prime finds the numbers without a proper divisor.            *)
LEMMA TrialDivision ==
    ASSUME NEW n \in Nat
    PROVE  IsPrime(n) <=> n > 1 /\ \A d \in 2..(n - 1) : ~IsMultipleOf(n, d)
<1>1. ASSUME IsPrime(n), NEW d \in 2..(n - 1), IsMultipleOf(n, d)
      PROVE  FALSE
  <2>1. CASE n \in {2, 3}
    <3>1. n = 3 /\ d = 2
      BY <1>1, <2>1
    <3>2. PICK e \in Nat : 3 = e * 2
      BY <1>1, <3>1, Multiples
    <3> QED BY <3>2
  <2>2. CASE n \notin {2, 3}
    <3>1. /\ n > 1 /\ ~IsMultipleOf(n, 2) /\ ~IsMultipleOf(n, 3)
          /\ \A i \in {6 * k - 1 : k \in 1..(n \div 6 + 1)} :
                i * i <= n => ~IsMultipleOf(n, i) /\ ~IsMultipleOf(n, i + 2)
      BY <1>1, <2>2 DEF IsPrime
    <3>2. PICK c \in 2..(n - 1) : IsMultipleOf(n, c) /\ c * c <= n
      BY <1>1, SmallDivisor
    <3>3. ~IsMultipleOf(c, 2) /\ ~IsMultipleOf(c, 3)
      BY <3>1, <3>2, MultiplesCompose
    <3>4. c \in Nat /\ c > 1 /\ c < n
      BY <3>2
    <3>5. PICK k \in Nat \ {0} : 6 * k - 6 <= c /\ (c = 6 * k - 1 \/ c = 6 * k + 1)
      BY <3>3, <3>4, OneOffSix
    <3>6. k \in 1..(n \div 6 + 1)
      BY <3>4, <3>5
    <3> DEFINE i == 6 * k - 1
    <3>7. i \in {6 * j - 1 : j \in 1..(n \div 6 + 1)} /\ i \in Nat
      BY <3>6
    <3>8. c = i \/ c = i + 2
      BY <3>5
    <3> HIDE DEF i
    <3>9. i * i <= n
      <4>1. i <= c
        BY <3>4, <3>7, <3>8
      <4>2. i * i <= c * i /\ c * i <= c * c
        BY <3>4, <3>7, <4>1, ProductMonotone
      <4> QED BY <3>2, <3>4, <3>7, <4>2
    <3> QED BY <3>1, <3>2, <3>7, <3>8, <3>9
  <2> QED BY <2>1, <2>2
<1>2. ASSUME IsPrime(n) PROVE n > 1
  BY <1>2 DEF IsPrime
<1>3. ASSUME n > 1, \A d \in 2..(n - 1) : ~IsMultipleOf(n, d)
      PROVE  IsPrime(n)
  <2>1. CASE n \in {2, 3}
    BY <2>1 DEF IsPrime
  <2>2. CASE n \notin {2, 3}
    <3>1. ~IsMultipleOf(n, 2) /\ ~IsMultipleOf(n, 3)
      BY <1>3, <2>2
    <3>2. ASSUME NEW i \in {6 * k - 1 : k \in 1..(n \div 6 + 1)}, i * i <= n
          PROVE  ~IsMultipleOf(n, i) /\ ~IsMultipleOf(n, i + 2)
      <4>1. i \in Nat /\ i >= 5
        OBVIOUS
      <4>2. 5 * i <= i * i /\ i * i \in Nat
        BY <4>1, ProductMonotone
      <4>3. i \in 2..(n - 1) /\ i + 2 \in 2..(n - 1)
        BY <3>2, <4>1, <4>2
      <4> QED BY <1>3, <4>3
    <3> QED BY <1>3, <3>1, <3>2 DEF IsPrime
  <2> QED BY <2>1, <2>2
<1> QED BY <1>1, <1>2, <1>3

(* Said with the divisors, of which a prime has one and itself only.        *)
LEMMA PrimeExact ==
    ASSUME NEW n \in Nat
    PROVE  IsPrime(n) <=> n > 1 /\ {d \in 1..n : IsMultipleOf(n, d)} = {1, n}
<1> DEFINE D == {d \in 1..n : IsMultipleOf(n, d)}
<1>1. ASSUME n > 1 PROVE 1 \in D /\ n \in D
  <2>1. n = n * 1 /\ n = 1 * n
    OBVIOUS
  <2>2. IsMultipleOf(n, 1) /\ IsMultipleOf(n, n)
    BY <1>1, <2>1, Multiples
  <2> QED BY <1>1, <2>2
<1>2. ASSUME n > 1 PROVE (\A d \in 2..(n - 1) : ~IsMultipleOf(n, d)) <=> D = {1, n}
  <2>1. ASSUME \A d \in 2..(n - 1) : ~IsMultipleOf(n, d) PROVE D = {1, n}
    <3>1. ASSUME NEW d \in D PROVE d \in {1, n}
      <4>1. d \in 1..n /\ IsMultipleOf(n, d)
        OBVIOUS
      <4>2. d \notin 2..(n - 1)
        BY <2>1, <4>1
      <4> QED BY <4>1, <4>2
    <3> HIDE DEF D
    <3> QED BY <1>1, <1>2, <3>1
  <2>2. ASSUME D = {1, n}, NEW d \in 2..(n - 1) PROVE ~IsMultipleOf(n, d)
    <3>1. d \in 1..n /\ d \notin {1, n}
      OBVIOUS
    <3> QED BY <2>2, <3>1
  <2> QED BY <2>1, <2>2
<1> HIDE DEF D
<1>3. IsPrime(n) <=> n > 1 /\ \A d \in 2..(n - 1) : ~IsMultipleOf(n, d)
  BY TrialDivision
<1>4. IsPrime(n) <=> n > 1 /\ D = {1, n}
  BY <1>2, <1>3
<1> QED BY <1>4 DEF D

-----------------------------------------------------------------------------
(* The rounded root exists.                                                 *)
LEMMA RootRoundedDown ==
    ASSUME NEW n \in Nat
    PROVE  /\ Sqrt(n) \in 0..n
           /\ Sqrt(n) * Sqrt(n) <= n /\ n < (Sqrt(n) + 1) * (Sqrt(n) + 1)
<1> DEFINE T == {r \in Nat : n < (r + 1) * (r + 1)}
<1>1. n \in T
  <2>1. (n + 1) * (n + 1) = n * n + 2 * n + 1 /\ n * n \in Nat
    OBVIOUS
  <2> QED BY <2>1
<1>2. PICK r \in T : \A s \in T : r <= s
  BY <1>1, NatLeast
<1>3. r \in Nat /\ n < (r + 1) * (r + 1) /\ r <= n
  BY <1>1, <1>2
<1>4. r * r <= n
  <2>1. CASE r = 0
    BY <2>1
  <2>2. CASE r # 0
    <3>1. r - 1 \in Nat /\ ~(r <= r - 1) /\ (r - 1) + 1 = r
      BY <1>3, <2>2
    <3>2. r - 1 \notin T
      BY <1>2, <3>1
    <3>3. ~(n < ((r - 1) + 1) * ((r - 1) + 1))
      BY <3>1, <3>2
    <3>4. ~(n < r * r)
      BY <3>1, <3>3
    <3>5. r * r \in Nat
      BY <1>3
    <3> QED BY <3>4, <3>5
  <2> QED BY <2>1, <2>2
<1>5. \E s \in 0..n : s * s <= n /\ n < (s + 1) * (s + 1)
  BY <1>3, <1>4
<1> QED BY <1>5 DEF Sqrt

(* internal_is_perfect_square finds the squares.                            *)
LEMMA SquareExact ==
    ASSUME NEW n \in Nat
    PROVE  /\ IsPerfectSquare(n) \in BOOLEAN
           /\ IsPerfectSquare(n) <=> \E r \in 0..n : r * r = n
           /\ IsPerfectSquare(n) <=> \E r \in Nat : r * r = n
<1> DEFINE s == Sqrt(n)
<1>1. s \in 0..n /\ s \in Nat /\ s * s <= n /\ n < (s + 1) * (s + 1)
  BY RootRoundedDown
<1>2. IsPerfectSquare(n) = (s * s = n)
  BY DEF IsPerfectSquare
<1> HIDE DEF s
<1>3. ASSUME NEW r \in Nat, r * r = n PROVE s * s = n
  <2>1. CASE r <= s
    <3>1. r * r <= s * r /\ s * r <= s * s /\ s * s \in Nat /\ s * r \in Nat
      BY <1>1, <2>1, ProductMonotone
    <3> QED BY <1>1, <1>3, <3>1
  <2>2. CASE s + 1 <= r
    <3>1. s + 1 \in Nat
      BY <1>1
    <3> DEFINE t == s + 1
    <3> HIDE DEF t
    <3>2. t \in Nat /\ t <= r /\ n < t * t
      BY <1>1, <2>2, <3>1 DEF t
    <3>3. t * t <= r * t /\ r * t <= r * r /\ t * t \in Nat /\ r * t \in Nat
      BY <3>2, ProductMonotone
    <3> QED BY <1>3, <3>2, <3>3
  <2> QED BY <1>1, <2>1, <2>2
<1>4. s * s = n <=> \E r \in Nat : r * r = n
  BY <1>1, <1>3
<1>5. s * s = n <=> \E r \in 0..n : r * r = n
  BY <1>1, <1>3
<1> QED BY <1>2, <1>4, <1>5

-----------------------------------------------------------------------------
(* A beginning of the Fibonacci sequence.                                   *)
IsFib(f, k) == f = [i \in 0..k |-> IF i < 2 THEN i ELSE f[i - 1] + f[i - 2]]

(* It can be as long as one wants.                                          *)
LEMMA FibExists ==
    ASSUME NEW m \in Nat
    PROVE  \E f : IsFib(f, m)
<1> DEFINE P == {k \in Nat : \E f : IsFib(f, k)}
<1>1. 0 \in P
  <2> DEFINE f == [i \in 0..0 |-> i]
  <2>1. IsFib(f, 0)
    BY DEF IsFib
  <2> QED BY <2>1
<1>2. ASSUME NEW k \in Nat, k \in P PROVE k + 1 \in P
  <2>1. PICK f : IsFib(f, k)
    BY <1>2
  <2> DEFINE g == [i \in 0..(k + 1) |->
                     IF i = k + 1 THEN IF i < 2 THEN i ELSE f[i - 1] + f[i - 2] ELSE f[i]]
  <2>2. \A i \in 0..k : g[i] = f[i]
    OBVIOUS
  <2>3. ASSUME NEW i \in 0..(k + 1)
        PROVE  g[i] = IF i < 2 THEN i ELSE g[i - 1] + g[i - 2]
    <3>1. CASE i = k + 1
      <4>1. g[i] = IF i < 2 THEN i ELSE f[i - 1] + f[i - 2]
        BY <3>1
      <4>2. ~(i < 2) => i - 1 \in 0..k /\ i - 2 \in 0..k
        BY <3>1
      <4> HIDE DEF g
      <4>3. ~(i < 2) => g[i - 1] = f[i - 1] /\ g[i - 2] = f[i - 2]
        BY <2>2, <4>2
      <4> QED BY <4>1, <4>3
    <3>2. CASE i \in 0..k
      <4>1. f[i] = IF i < 2 THEN i ELSE f[i - 1] + f[i - 2]
        BY <2>1, <3>2 DEF IsFib
      <4>2. ~(i < 2) => i - 1 \in 0..k /\ i - 2 \in 0..k
        BY <3>2
      <4> HIDE DEF g
      <4>3. ~(i < 2) => g[i - 1] = f[i - 1] /\ g[i - 2] = f[i - 2]
        BY <2>2, <4>2
      <4> QED BY <2>2, <3>2, <4>1, <4>3
    <3> QED BY <3>1, <3>2
  <2>4. g = [i \in 0..(k + 1) |-> g[i]]
    OBVIOUS
  <2> HIDE DEF g
  <2>5. IsFib(g, k + 1)
    BY <2>3, <2>4 DEF IsFib
  <2> QED BY <2>5
<1> HIDE DEF P
<1>3. \A n \in Nat : n \in P
  BY <1>1, <1>2, NatSetInduction
<1> QED BY <1>3 DEF P

(* The recurrence.                                                          *)
LEMMA FibEquations ==
    \A i \in 0..MaxFib : Fib[i] = IF i < 2 THEN i ELSE Fib[i - 1] + Fib[i - 2]
<1>1. MaxFib \in Nat
  BY NumberAssumption
<1> DEFINE F == Fib
<1>2. F = CHOOSE f : IsFib(f, MaxFib)
  BY DEF Fib, IsFib
<1>3. IsFib(F, MaxFib)
  BY <1>1, <1>2, FibExists
<1> HIDE DEF F
<1>4. \A i \in 0..MaxFib : F[i] = IF i < 2 THEN i ELSE F[i - 1] + F[i - 2]
  BY <1>3 DEF IsFib
<1> QED BY <1>4 DEF F

(* Two numbers that could follow each other in the sequence: they solve     *)
(* x^2 - xw - w^2 = 1 or -1.                                                *)
Consecutive(w, x) ==
    /\ w \in Nat /\ x \in Nat
    /\ \/ x * x = x * w + w * w + 1
       \/ x * x + 1 = x * w + w * w

(* One step forward, and back.                                              *)
LEMMA ConsecutiveStep ==
    ASSUME NEW w \in Nat, NEW x \in Nat
    PROVE  Consecutive(w, x) <=> Consecutive(x, w + x)
<1>1. (w + x) * (w + x) = w * w + 2 * (x * w) + x * x
  OBVIOUS
<1>2. (w + x) * x = x * w + x * x
  OBVIOUS
<1>3. w * w \in Nat /\ x * w \in Nat /\ x * x \in Nat
  OBVIOUS
<1> DEFINE W == w * w
<1> DEFINE M == x * w
<1> DEFINE X == x * x
<1> HIDE DEF W, M, X
<1>4. Consecutive(w, x) <=> X = M + W + 1 \/ X + 1 = M + W
  BY DEF Consecutive, W, M, X
<1>5. Consecutive(x, w + x) <=> \/ W + 2 * M + X = (M + X) + X + 1
                                \/ (W + 2 * M + X) + 1 = (M + X) + X
  BY <1>1, <1>2 DEF Consecutive, W, M, X
<1>6. W \in Nat /\ M \in Nat /\ X \in Nat
  BY <1>3 DEF W, M, X
<1>7. (X = M + W + 1) <=> ((W + 2 * M + X) + 1 = (M + X) + X)
  BY <1>6
<1>8. (X + 1 = M + W) <=> (W + 2 * M + X = (M + X) + X + 1)
  BY <1>6
<1> QED BY <1>4, <1>5, <1>7, <1>8

(* The numbers of the sequence do.                                          *)
LEMMA FibConsecutive ==
    \A i \in 0..MaxFib : Fib[i] \in Nat /\ (i > 0 => Consecutive(Fib[i - 1], Fib[i]))
<1> DEFINE F == Fib
<1> DEFINE P == {i \in Nat : i \in 0..MaxFib =>
                    F[i] \in Nat /\ (i > 0 => F[i - 1] \in Nat /\ Consecutive(F[i - 1], F[i]))}
<1>1. MaxFib \in Nat
  BY NumberAssumption
<1>2. \A i \in 0..MaxFib : F[i] = IF i < 2 THEN i ELSE F[i - 1] + F[i - 2]
  BY FibEquations
<1> HIDE DEF F
<1>3. 0 \in P
  BY <1>1, <1>2
<1>4. ASSUME NEW i \in Nat, i \in P, i + 1 \in 0..MaxFib
      PROVE  /\ F[i + 1] \in Nat
             /\ i + 1 > 0 => F[(i + 1) - 1] \in Nat /\ Consecutive(F[(i + 1) - 1], F[i + 1])
  <2>1. i \in 0..MaxFib /\ (i + 1) - 1 = i /\ F[i] \in Nat
    BY <1>1, <1>4
  <2>2. CASE i = 0
    <3>1. F[0] = 0 /\ F[1] = 1
      BY <1>1, <1>2, <1>4, <2>2
    <3>2. Consecutive(0, 1)
      BY DEF Consecutive
    <3> QED BY <2>1, <2>2, <3>1, <3>2
  <2>3. CASE i > 0
    <3>1. F[i - 1] \in Nat /\ Consecutive(F[i - 1], F[i])
      BY <1>4, <2>1, <2>3
    <3>2. ~(i + 1 < 2) /\ (i + 1) - 2 = i - 1
      BY <2>3
    <3>3. F[i + 1] = F[(i + 1) - 1] + F[(i + 1) - 2]
      BY <1>2, <1>4, <3>2
    <3>4. F[i + 1] = F[i - 1] + F[i]
      BY <2>1, <3>1, <3>2, <3>3
    <3>5. Consecutive(F[i], F[i - 1] + F[i])
      BY <2>1, <3>1, ConsecutiveStep
    <3> QED BY <2>1, <3>1, <3>4, <3>5
  <2> QED BY <2>2, <2>3
<1>5. \A i \in Nat : i \in P => i + 1 \in P
  BY <1>4
<1> HIDE DEF P
<1>6. \A i \in Nat : i \in P
  BY <1>3, <1>5, NatSetInduction
<1>7. \A i \in 0..MaxFib : F[i] \in Nat /\ (i > 0 => Consecutive(F[i - 1], F[i]))
  BY <1>1, <1>6 DEF P
<1> QED BY <1>7 DEF F

(* The solutions that are not ordered.                                      *)
LEMMA ConsecutiveUnordered ==
    ASSUME NEW w \in Nat, NEW x \in Nat, Consecutive(w, x), x <= w
    PROVE  w = 1 /\ x \in {0, 1}
<1>1. x * x <= w * x /\ w * x = x * w /\ x * x \in Nat /\ x * w \in Nat /\ w * w \in Nat
  BY ProductMonotone
<1>2. w * w <= 1
  BY <1>1 DEF Consecutive
<1>3. w \in {0, 1}
  <2>1. ASSUME 2 <= w PROVE FALSE
    <3>1. 2 * 2 <= w * 2 /\ w * 2 <= w * w
      BY <2>1, ProductMonotone
    <3> QED BY <1>1, <1>2, <3>1
  <2> QED BY <2>1
<1>4. w # 0
  <2>1. w = 0 => x = 0
    OBVIOUS
  <2>2. ~Consecutive(0, 0)
    BY DEF Consecutive
  <2> QED BY <2>1, <2>2
<1> QED BY <1>3, <1>4

(* Every solution is in the sequence: going back from it ends at (0, 1) or  *)
(* (1, 1).                                                                  *)
LEMMA ConsecutiveInFib ==
    ASSUME NEW w \in Nat, NEW x \in Nat, Consecutive(w, x), x <= Fib[MaxFib]
    PROVE  \/ x = 0
           \/ w = 1 /\ x = 1
           \/ \E i \in 1..MaxFib : w = Fib[i - 1] /\ x = Fib[i]
<1> DEFINE F == Fib
<1> DEFINE Found(v, y) == \/ y = 0
                          \/ v = 1 /\ y = 1
                          \/ \E i \in 1..MaxFib : v = F[i - 1] /\ y = F[i]
<1> DEFINE P == {s \in Nat : \A v, y \in Nat :
                    v + y <= s /\ Consecutive(v, y) /\ y <= F[MaxFib] => Found(v, y)}
<1>1. MaxFib \in Nat
  BY NumberAssumption
<1>2. \A i \in 0..MaxFib : F[i] = IF i < 2 THEN i ELSE F[i - 1] + F[i - 2]
  BY FibEquations
<1>3. \A i \in 0..MaxFib : F[i] \in Nat
  BY FibConsecutive
<1> HIDE DEF F
<1>4. 0 \in P
  <2>1. ASSUME NEW v \in Nat, NEW y \in Nat, v + y <= 0, Consecutive(v, y)
        PROVE  Found(v, y)
    <3>1. v = 0 /\ y = 0
      BY <2>1
    <3> QED BY <3>1
  <2> QED BY <2>1
<1>5. ASSUME NEW s \in Nat, s \in P, NEW v \in Nat, NEW y \in Nat,
             v + y <= s + 1, Consecutive(v, y), y <= F[MaxFib]
      PROVE  Found(v, y)
  <2>1. CASE y <= v
    <3>1. v = 1 /\ y \in {0, 1}
      BY <1>5, <2>1, ConsecutiveUnordered
    <3> QED BY <3>1
  <2>2. CASE v = 0 /\ v < y
    <3>1. y * 0 = 0 /\ y * y \in Nat /\ 0 * 0 = 0
      OBVIOUS
    <3>2. y * y = 1
      BY <1>5, <2>2, <3>1 DEF Consecutive
    <3>3. y = 1
      <4>1. ASSUME 2 <= y PROVE FALSE
        <5>1. 2 * 2 <= y * 2 /\ y * 2 <= y * y
          BY <4>1, ProductMonotone
        <5> QED BY <3>2, <5>1
      <4> QED BY <2>2, <4>1
    <3>4. F[0] = 0
      BY <1>1, <1>2
    <3>5. MaxFib # 0
      BY <1>5, <3>3, <3>4
    <3>6. F[1] = 1 /\ 1 \in 1..MaxFib /\ 1 - 1 = 0
      BY <1>1, <1>2, <3>5
    <3> QED BY <2>2, <3>3, <3>4, <3>6
  <2>3. CASE 0 < v /\ v < y
    <3> DEFINE t == y - v
    <3>1. t \in Nat /\ t + v = y /\ t + v <= s
      BY <1>5, <2>3
    <3> HIDE DEF t
    <3>2. Consecutive(t, v)
      BY <1>5, <3>1, ConsecutiveStep
    <3>3. F[MaxFib] \in Nat
      BY <1>1, <1>3
    <3>4. v <= F[MaxFib]
      BY <1>5, <2>3, <3>3
    <3>5. Found(t, v)
      BY <1>5, <3>1, <3>2, <3>4
    <3>6. CASE t = 1 /\ v = 1
      <4>1. v = 1 /\ y = 2
        BY <3>1, <3>6
      <4>2. F[0] = 0
        BY <1>1, <1>2
      <4>3. MaxFib # 0
        BY <1>5, <4>1, <4>2
      <4>4. F[1] = 1
        BY <1>1, <1>2, <4>3
      <4>5. MaxFib # 1
        BY <1>5, <4>1, <4>4
      <4>6. F[2] = F[1] + F[0]
        <5>1. 2 \in 0..MaxFib /\ 2 - 1 = 1 /\ 2 - 2 = 0 /\ ~(2 < 2)
          BY <1>1, <4>3, <4>5
        <5>2. F[2] = IF 2 < 2 THEN 2 ELSE F[2 - 1] + F[2 - 2]
          BY <1>2, <5>1
        <5> QED BY <5>1, <5>2
      <4>7. F[2] = 1
        BY <4>2, <4>4, <4>6
      <4>8. MaxFib # 2
        BY <1>5, <4>1, <4>7
      <4>9. F[3] = F[2] + F[1] /\ 3 \in 1..MaxFib
        <5>1. 3 \in 0..MaxFib /\ 3 \in 1..MaxFib /\ 3 - 1 = 2 /\ 3 - 2 = 1 /\ ~(3 < 2)
          BY <1>1, <4>3, <4>5, <4>8
        <5>2. F[3] = IF 3 < 2 THEN 3 ELSE F[3 - 1] + F[3 - 2]
          BY <1>2, <5>1
        <5> QED BY <5>1, <5>2
      <4>10. v = F[3 - 1] /\ y = F[3] /\ 3 \in 1..MaxFib
        BY <4>1, <4>4, <4>7, <4>9
      <4> QED BY <4>10
    <3>7. CASE \E i \in 1..MaxFib : t = F[i - 1] /\ v = F[i]
      <4>1. PICK i \in 1..MaxFib : t = F[i - 1] /\ v = F[i]
        BY <3>7
      <4>2. i # MaxFib
        BY <1>5, <2>3, <3>3, <4>1
      <4>3. i + 1 \in 0..MaxFib /\ i + 1 \in 1..MaxFib /\ ~(i + 1 < 2) /\ (i + 1) - 1 = i /\ (i + 1) - 2 = i - 1
        BY <1>1, <4>1, <4>2
      <4>4. F[i + 1] = IF i + 1 < 2 THEN i + 1 ELSE F[(i + 1) - 1] + F[(i + 1) - 2]
        BY <1>2, <4>3
      <4>5. F[i + 1] = v + t
        BY <4>1, <4>3, <4>4
      <4>6. v = F[(i + 1) - 1] /\ y = F[i + 1]
        BY <3>1, <4>1, <4>3, <4>5
      <4> QED BY <4>3, <4>6
    <3> QED BY <2>3, <3>5, <3>6, <3>7
  <2> QED BY <2>1, <2>2, <2>3
<1>6. \A s \in Nat : s \in P => s + 1 \in P
  <2> SUFFICES ASSUME NEW s \in Nat, s \in P PROVE s + 1 \in P
    OBVIOUS
  <2> HIDE DEF Found
  <2>1. \A v, y \in Nat :
            v + y <= s + 1 /\ Consecutive(v, y) /\ y <= F[MaxFib] => Found(v, y)
    BY <1>5
  <2>2. s + 1 \in Nat
    OBVIOUS
  <2> QED BY <2>1, <2>2
<1> HIDE DEF P, Found
<1>7. \A s \in Nat : s \in P
  BY <1>4, <1>6, NatSetInduction
<1>8. w + x \in P /\ w + x <= w + x
  BY <1>7
<1>9. x <= F[MaxFib]
  BY DEF F
<1>10. Found(w, x)
  BY <1>8, <1>9 DEF P
<1> QED BY <1>10 DEF Found, F

-----------------------------------------------------------------------------
(* A solution of m^2 = 5n^2 + 4 or m^2 = 5n^2 - 4 gives two consecutive     *)
(* numbers: m exceeds n by an even number.                                  *)
LEMMA SolutionConsecutive ==
    ASSUME NEW n \in Nat, NEW m \in Nat, m * m = 5 * (n * n) + 4 \/ m * m + 4 = 5 * (n * n)
    PROVE  \E w \in Nat : Consecutive(w, n)
<1>1. n * n \in Nat /\ m * m \in Nat
  OBVIOUS
<1>2. n <= m
  <2>1. ASSUME m + 1 <= n PROVE FALSE
    <3>1. (m + 1) * (m + 1) <= n * (m + 1) /\ n * (m + 1) <= n * n
      BY <2>1, ProductMonotone
    <3>2. (m + 1) * (m + 1) = m * m + 2 * m + 1 /\ n * (m + 1) \in Nat
      OBVIOUS
    <3>3. m * m + 2 * m + 1 <= n * n
      BY <1>1, <3>1, <3>2
    <3> QED BY <1>1, <3>3
  <2> QED BY <2>1
<1>3. PICK d \in Nat : m = n + d
  <2>1. m - n \in Nat /\ m = n + (m - n)
    BY <1>2
  <2> QED BY <2>1
<1>4. PICK a \in Nat : d = 2 * a \/ d = 2 * a + 1
  <2>1. d \div 2 \in Nat /\ (d = 2 * (d \div 2) \/ d = 2 * (d \div 2) + 1)
    OBVIOUS
  <2> QED BY <2>1
<1>5. n * a \in Nat /\ a * a \in Nat
  OBVIOUS
<1>6. CASE d = 2 * a
  <2>1. m * m = n * n + 4 * (n * a) + 4 * (a * a)
    <3>1. m = n + 2 * a
      BY <1>3, <1>6
    <3>2. (n + 2 * a) * (n + 2 * a) = n * n + 4 * (n * a) + 4 * (a * a)
      OBVIOUS
    <3> QED BY <3>1, <3>2
  <2>2. n * n = n * a + a * a + 1 \/ n * n + 1 = n * a + a * a
    BY <1>1, <1>5, <2>1
  <2> QED BY <2>2 DEF Consecutive
<1>7. CASE d = 2 * a + 1
  <2>1. m * m = n * n + 4 * (n * a) + 2 * n + 4 * (a * a) + 4 * a + 1
    <3>1. m = n + (2 * a + 1)
      BY <1>3, <1>7
    <3>2. (n + (2 * a + 1)) * (n + (2 * a + 1)) = n * n + 4 * (n * a) + 2 * n + 4 * (a * a) + 4 * a + 1
      OBVIOUS
    <3> QED BY <3>1, <3>2
  <2> DEFINE N == n * n
  <2> DEFINE Q == m * m
  <2> DEFINE B == n * a
  <2> DEFINE A == a * a
  <2>2. N \in Nat /\ Q \in Nat /\ A \in Nat /\ B \in Nat
    BY <1>1, <1>5
  <2>3. Q = N + 4 * B + 2 * n + 4 * A + 4 * a + 1
    BY <2>1
  <2>4. Q = 5 * N + 4 \/ Q + 4 = 5 * N
    OBVIOUS
  <2> HIDE DEF N, Q, A, B
  <2>5. 2 * (2 * B + n + 2 * A + 2 * a) + 1 = 2 * (2 * N + 2) \/ 2 * (2 * B + n + 2 * A + 2 * a) + 1 = 2 * (2 * N - 2)
    BY <2>2, <2>3, <2>4
  <2> DEFINE L == 2 * B + n + 2 * A + 2 * a
  <2>6. L \in Int /\ 2 * N + 2 \in Int /\ 2 * N - 2 \in Int
    BY <2>2
  <2> HIDE DEF L
  <2>7. \A x, y \in Int : 2 * x + 1 # 2 * y
    OBVIOUS
  <2>8. FALSE
    BY <2>5, <2>6, <2>7 DEF L
  <2> QED BY <2>8
<1> QED BY <1>4, <1>6, <1>7

(* The numbers of the sequence are those for which 5n^2 + 4 or 5n^2 - 4 is  *)
(* a square.                                                                *)
LEMMA FibonacciSolutions ==
    ASSUME NEW n \in 0..MaxNumber
    PROVE  n \in Fibonaccis <=>
               \E m \in Nat : m * m = 5 * (n * n) + 4 \/ m * m + 4 = 5 * (n * n)
<1> DEFINE F == Fib
<1>1. MaxFib \in Nat /\ MaxNumber \in Nat /\ MaxNumber <= F[MaxFib]
  BY NumberAssumption
<1>2. \A i \in 0..MaxFib : F[i] = IF i < 2 THEN i ELSE F[i - 1] + F[i - 2]
  BY FibEquations
<1>3. \A i \in 0..MaxFib : F[i] \in Nat /\ (i > 0 => Consecutive(F[i - 1], F[i]))
  BY FibConsecutive
<1>4. Fibonaccis = {F[i] : i \in 0..MaxFib}
  BY DEF Fibonaccis
<1>5. \A w \in Nat : Consecutive(w, n) /\ n <= F[MaxFib] =>
          n = 0 \/ (w = 1 /\ n = 1) \/ \E i \in 1..MaxFib : w = F[i - 1] /\ n = F[i]
  BY <1>1, ConsecutiveInFib
<1> HIDE DEF F
<1>6. n \in Nat /\ n <= F[MaxFib] /\ n * n \in Nat
  <2>1. F[MaxFib] \in Nat
    BY <1>1, <1>3
  <2> QED BY <1>1, <2>1
<1>7. F[0] = 0
  BY <1>1, <1>2
<1>8. ASSUME n \in Fibonaccis
      PROVE  \E m \in Nat : m * m = 5 * (n * n) + 4 \/ m * m + 4 = 5 * (n * n)
  <2>1. PICK i \in 0..MaxFib : n = F[i]
    BY <1>4, <1>8
  <2>2. CASE i = 0
    <3>1. n = 0
      BY <1>7, <2>1, <2>2
    <3>2. 2 * 2 = 5 * (0 * 0) + 4
      OBVIOUS
    <3> QED BY <3>1, <3>2
  <2>3. CASE i > 0
    <3>1. PICK w \in Nat : Consecutive(w, n)
      <4>1. i - 1 \in 0..MaxFib
        BY <1>1, <2>3
      <4> QED BY <1>3, <2>1, <2>3, <4>1
    <3>2. (2 * w + n) * (2 * w + n) = 4 * (w * w) + 4 * (n * w) + n * n
      BY <1>6
    <3>3. w * w \in Nat /\ n * w \in Nat
      BY <1>6
    <3>4. n * n = n * w + w * w + 1 \/ n * n + 1 = n * w + w * w
      BY <3>1 DEF Consecutive
    <3> DEFINE m == 2 * w + n
    <3>5. m * m = 5 * (n * n) + 4 \/ m * m + 4 = 5 * (n * n)
      BY <1>6, <3>2, <3>3, <3>4
    <3>6. m \in Nat
      BY <1>6
    <3> HIDE DEF m
    <3> QED BY <3>5, <3>6
  <2> QED BY <1>1, <2>2, <2>3
<1>9. ASSUME NEW m \in Nat, m * m = 5 * (n * n) + 4 \/ m * m + 4 = 5 * (n * n)
      PROVE  n \in Fibonaccis
  <2>1. PICK w \in Nat : Consecutive(w, n)
    BY <1>6, <1>9, SolutionConsecutive
  <2>2. n = 0 \/ (w = 1 /\ n = 1) \/ \E i \in 1..MaxFib : w = F[i - 1] /\ n = F[i]
    BY <1>5, <1>6, <2>1
  <2>3. CASE n = 0
    BY <1>1, <1>4, <1>7, <2>3
  <2>4. CASE n = 1
    <3>1. MaxFib # 0
      BY <1>6, <1>7, <2>4
    <3>2. F[1] = 1 /\ 1 \in 0..MaxFib
      BY <1>1, <1>2, <3>1
    <3> QED BY <1>4, <2>4, <3>2
  <2>5. CASE \E i \in 1..MaxFib : w = F[i - 1] /\ n = F[i]
    BY <1>1, <1>4, <2>5
  <2> QED BY <2>2, <2>3, <2>4, <2>5
<1> QED BY <1>8, <1>9

(* internal_is_fibonacci finds them.                                        *)
LEMMA FibonacciExact ==
    ASSUME NEW n \in 0..MaxNumber, 5 * n * n + 4 <= MaxUsize
    PROVE  IsFibonacci(n) = (n \in Fibonaccis)
<1> DEFINE sq == 5 * n * n
<1>1. MaxNumber \in Nat /\ MaxUsize \in Nat /\ n \in Nat
  BY NumberAssumption
<1>2. sq = 5 * (n * n) /\ sq \in Nat /\ n * n \in Nat
  BY <1>1
<1>3. IsFibonacci(n) = IF sq + 4 > MaxUsize THEN Panic
                       ELSE IF IsPerfectSquare(sq + 4) THEN TRUE
                       ELSE IF sq < 4 THEN Panic
                       ELSE IsPerfectSquare(sq - 4)
  BY DEF IsFibonacci
<1>4. sq + 4 <= MaxUsize
  OBVIOUS
<1>5. n = 0 => sq = 0
  BY <1>2
<1>6. n # 0 => sq >= 5
  <2>1. n # 0 => 1 * n <= n * n
    BY <1>1, ProductMonotone
  <2> QED BY <1>1, <1>2, <2>1
<1>7. n \in Fibonaccis <=> \E m \in Nat : m * m = sq + 4 \/ m * m + 4 = sq
  BY <1>2, FibonacciSolutions
<1> HIDE DEF sq
<1>8. /\ IsPerfectSquare(sq + 4) \in BOOLEAN
      /\ IsPerfectSquare(sq + 4) <=> \E m \in Nat : m * m = sq + 4
  <2>1. sq + 4 \in Nat
    BY <1>2
  <2> QED BY <2>1, SquareExact
<1>9. CASE n = 0
  <2>1. 2 * 2 = sq + 4 /\ 2 \in Nat
    BY <1>5, <1>9
  <2>2. ~(sq + 4 > MaxUsize)
    BY <1>1, <1>2, <1>4
  <2>3. IsPerfectSquare(sq + 4) /\ n \in Fibonaccis
    BY <1>7, <1>8, <2>1
  <2>4. IsFibonacci(n) = TRUE
    BY <1>3, <2>2, <2>3
  <2> QED BY <2>3, <2>4
<1>10. CASE n # 0
  <2>1. sq - 4 \in Nat
    BY <1>2, <1>6, <1>10
  <2>2. /\ IsPerfectSquare(sq - 4) \in BOOLEAN
        /\ IsPerfectSquare(sq - 4) <=> \E m \in Nat : m * m = sq - 4
    BY <2>1, SquareExact
  <2>3. \A m \in Nat : m * m = sq - 4 <=> m * m + 4 = sq
    BY <1>2
  <2>4. ~(sq < 4) /\ ~(sq + 4 > MaxUsize)
    BY <1>1, <1>2, <1>4, <1>6, <1>10
  <2>5. IsFibonacci(n) = IF IsPerfectSquare(sq + 4) THEN TRUE ELSE IsPerfectSquare(sq - 4)
    BY <1>3, <2>4
  <2>6. n \in Fibonaccis <=> IsPerfectSquare(sq + 4) \/ IsPerfectSquare(sq - 4)
    BY <1>7, <1>8, <2>2, <2>3
  <2>7. CASE IsPerfectSquare(sq + 4)
    <3>1. IsFibonacci(n) = TRUE /\ n \in Fibonaccis
      BY <2>5, <2>6, <2>7
    <3> QED BY <3>1
  <2>8. CASE ~IsPerfectSquare(sq + 4)
    <3>1. IsFibonacci(n) = IsPerfectSquare(sq - 4)
      BY <2>5, <2>8
    <3>2. n \in Fibonaccis <=> IsPerfectSquare(sq - 4)
      BY <2>6, <2>8
    <3>3. IsFibonacci(n) \in BOOLEAN /\ (IsFibonacci(n) <=> n \in Fibonaccis)
      BY <2>2, <3>1, <3>2
    <3>4. CASE n \in Fibonaccis
      <4>1. IsFibonacci(n) = TRUE
        BY <3>3, <3>4, Zenon
      <4> QED BY <3>4, <4>1
    <3>5. CASE n \notin Fibonaccis
      <4>1. IsFibonacci(n) = FALSE
        BY <3>3, <3>5, Zenon
      <4>2. (n \in Fibonaccis) = FALSE
        BY <3>5
      <4> QED BY <4>1, <4>2, Zenon
    <3> QED BY <3>4, <3>5
  <2> QED BY <2>7, <2>8
<1> QED BY <1>9, <1>10

-----------------------------------------------------------------------------
(* The first values of the digit sum.                                       *)
IsDigitSum(f, k) == f = [n \in 0..k |-> IF n > 0 THEN (n % 10) + f[n \div 10] ELSE 0]

(* There are such functions ...                                             *)
LEMMA DigitSumExists ==
    ASSUME NEW m \in Nat
    PROVE  \E f : IsDigitSum(f, m)
<1> DEFINE P == {k \in Nat : \E f : IsDigitSum(f, k)}
<1>1. 0 \in P
  <2> DEFINE f == [n \in 0..0 |-> 0]
  <2>1. IsDigitSum(f, 0)
    BY DEF IsDigitSum
  <2> QED BY <2>1
<1>2. ASSUME NEW k \in Nat, k \in P PROVE k + 1 \in P
  <2>1. PICK f : IsDigitSum(f, k)
    BY <1>2
  <2> DEFINE g == [n \in 0..(k + 1) |->
                     IF n = k + 1 THEN (n % 10) + f[n \div 10] ELSE f[n]]
  <2>2. \A n \in 0..k : g[n] = f[n]
    OBVIOUS
  <2>3. ASSUME NEW n \in 0..(k + 1)
        PROVE  g[n] = IF n > 0 THEN (n % 10) + g[n \div 10] ELSE 0
    <3>1. n > 0 => n \div 10 \in 0..k
      OBVIOUS
    <3>2. CASE n = k + 1
      <4>1. g[n] = (n % 10) + f[n \div 10] /\ n > 0
        BY <3>2
      <4> HIDE DEF g
      <4>2. g[n \div 10] = f[n \div 10]
        BY <2>2, <3>1, <4>1
      <4> QED BY <4>1, <4>2
    <3>3. CASE n \in 0..k
      <4>1. f[n] = IF n > 0 THEN (n % 10) + f[n \div 10] ELSE 0
        BY <2>1, <3>3 DEF IsDigitSum
      <4> HIDE DEF g
      <4>2. n > 0 => g[n \div 10] = f[n \div 10]
        BY <2>2, <3>1
      <4> QED BY <2>2, <3>3, <4>1, <4>2
    <3> QED BY <3>2, <3>3
  <2>4. g = [n \in 0..(k + 1) |-> g[n]]
    OBVIOUS
  <2> HIDE DEF g
  <2>5. IsDigitSum(g, k + 1)
    BY <2>3, <2>4 DEF IsDigitSum
  <2> QED BY <2>5
<1> HIDE DEF P
<1>3. \A n \in Nat : n \in P
  BY <1>1, <1>2, NatSetInduction
<1> QED BY <1>3 DEF P

(* ... which agree with each other.                                         *)
LEMMA DigitSumUnique ==
    ASSUME NEW k \in Nat, NEW m \in Nat, NEW f, NEW g, IsDigitSum(f, k), IsDigitSum(g, m),
           NEW n \in Nat, n <= k, n <= m
    PROVE  f[n] = g[n]
<1> DEFINE T == {x \in Nat : x <= k /\ x <= m /\ f[x] # g[x]}
<1>1. SUFFICES ASSUME T # {} PROVE FALSE
  OBVIOUS
<1>2. PICK x \in T : \A y \in T : x <= y
  BY <1>1, NatLeast
<1>3. x \in 0..k /\ x \in 0..m /\ x \in Nat /\ f[x] # g[x]
  BY <1>2
<1>4. f[x] = (IF x > 0 THEN (x % 10) + f[x \div 10] ELSE 0)
  BY <1>3 DEF IsDigitSum
<1>5. g[x] = (IF x > 0 THEN (x % 10) + g[x \div 10] ELSE 0)
  BY <1>3 DEF IsDigitSum
<1>6. x > 0 /\ f[x \div 10] # g[x \div 10]
  BY <1>3, <1>4, <1>5
<1>7. x \div 10 \in Nat /\ x \div 10 < x
  BY <1>3, <1>6
<1>8. x \div 10 \in T
  BY <1>3, <1>6, <1>7
<1> QED BY <1>2, <1>3, <1>7, <1>8

(* The equation of digit_sum.                                               *)
LEMMA DigitSumEquation ==
    \A n \in Nat : DigitSum[n] = IF n > 0 THEN (n % 10) + DigitSum[n \div 10] ELSE 0
<1> DEFINE Up(k) == CHOOSE f : IsDigitSum(f, k)
<1> DEFINE h == [n \in Nat |-> Up(n)[n]]
<1>1. \A k \in Nat : IsDigitSum(Up(k), k)
  BY DigitSumExists
<1> HIDE DEF Up
<1>2. ASSUME NEW n \in Nat
      PROVE  h[n] = IF n > 0 THEN (n % 10) + h[n \div 10] ELSE 0
  <2>1. n \div 10 \in Nat /\ n \div 10 <= n
    OBVIOUS
  <2>2. Up(n)[n] = IF n > 0 THEN (n % 10) + Up(n)[n \div 10] ELSE 0
    <3>1. n \in 0..n
      OBVIOUS
    <3> QED BY <1>1, <3>1 DEF IsDigitSum
  <2>3. Up(n)[n \div 10] = Up(n \div 10)[n \div 10]
    BY <1>1, <2>1, DigitSumUnique
  <2> QED BY <2>1, <2>2, <2>3
<1>3. h = [n \in Nat |-> IF n > 0 THEN (n % 10) + h[n \div 10] ELSE 0]
  <2>1. h = [n \in Nat |-> h[n]]
    OBVIOUS
  <2> HIDE DEF h
  <2> QED BY <1>2, <2>1
<1> DEFINE D == DigitSum
<1>4. D = CHOOSE d : d = [n \in Nat |-> IF n > 0 THEN (n % 10) + d[n \div 10] ELSE 0]
  BY DEF DigitSum
<1> HIDE DEF h, D
<1>5. D = [n \in Nat |-> IF n > 0 THEN (n % 10) + D[n \div 10] ELSE 0]
  BY <1>3, <1>4
<1>6. \A n \in Nat : D[n] = IF n > 0 THEN (n % 10) + D[n \div 10] ELSE 0
  BY <1>5
<1> QED BY <1>6 DEF D

(* digit_sum adds up three digits.                                          *)
LEMMA DigitSumExact ==
    ASSUME NEW h \in 0..9, NEW t \in 0..9, NEW u \in 0..9
    PROVE  DigitSum[100 * h + 10 * t + u] = h + t + u
<1> DEFINE D == DigitSum
<1>1. \A n \in Nat : D[n] = IF n > 0 THEN (n % 10) + D[n \div 10] ELSE 0
  BY DigitSumEquation
<1> HIDE DEF D
<1>2. D[0] = 0
  BY <1>1
<1>3. \A q \in Nat, r \in 0..9 : D[10 * q + r] = r + D[q]
  <2> SUFFICES ASSUME NEW q \in Nat, NEW r \in 0..9 PROVE D[10 * q + r] = r + D[q]
    OBVIOUS
  <2>1. 10 * q + r \in Nat /\ (10 * q + r) % 10 = r /\ (10 * q + r) \div 10 = q
    OBVIOUS
  <2>2. CASE 10 * q + r > 0
    BY <1>1, <2>1, <2>2
  <2>3. CASE 10 * q + r = 0
    <3>1. q = 0 /\ r = 0
      BY <2>3
    <3> QED BY <1>2, <2>3, <3>1
  <2> QED BY <2>1, <2>2, <2>3
<1>4. D[10 * 0 + h] = h + D[0] /\ 10 * 0 + h = h
  <2>1. D[10 * 0 + h] = h + D[0]
    <3>1. 0 \in Nat
      OBVIOUS
    <3> QED BY <1>3, <3>1, Zenon
  <2> QED BY <2>1
<1>5. D[h] = h
  BY <1>2, <1>4
<1>6. 10 * h + t \in Nat
  OBVIOUS
<1>7. D[10 * h + t] = t + D[h]
  <2>1. h \in Nat
    OBVIOUS
  <2> QED BY <1>3, <2>1
<1>8. D[10 * (10 * h + t) + u] = u + D[10 * h + t]
  BY <1>3, <1>6
<1>9. 10 * (10 * h + t) + u = 100 * h + 10 * t + u
  OBVIOUS
<1>10. D[100 * h + 10 * t + u] = h + t + u
  BY <1>5, <1>7, <1>8, <1>9
<1> QED BY <1>10 DEF D

-----------------------------------------------------------------------------
(* Whatever numbers the players have: the prime test, the square test and   *)
(* the Fibonacci test of registration_number.rs hold for the numbers with   *)
(* two divisors, the squares and the numbers of the recurrence, the latter  *)
(* without leaving usize, and digit_sum adds up the digits.                 *)
THEOREM NumbersAreExact == NumberSpec => []NumberPredicatesExact
<1> DEFINE Examined == number \in 0..MaxNumber
<1>1. MaxNumber \in Nat /\ MaxUsize \in Nat
  BY NumberAssumption
<1>2. NumberInit => Examined
  BY <1>1 DEF NumberInit
<1>3. Examined /\ [NumberNext]_number => Examined'
  BY <1>1 DEF NumberNext
<1>4. ASSUME Examined PROVE NumberPredicatesExact
  <2> DEFINE n == number
  <2>1. n \in 0..MaxNumber /\ n \in Nat
    BY <1>1, <1>4
  <2> HIDE DEF n
  <2>2. SUFFICES ASSUME 5 * n * n + 4 <= MaxUsize
                 PROVE  /\ IsPrime(n) = (n > 1 /\ {d \in 1..n : IsMultipleOf(n, d)} = {1, n})
                        /\ IsPerfectSquare(n) = (\E r \in 0..n : r * r = n)
                        /\ IsFibonacci(n) = (n \in Fibonaccis)
                        /\ \A h, t, u \in 0..9 :
                                n = 100 * h + 10 * t + u => DigitSum[n] = h + t + u
    BY DEF NumberPredicatesExact, n
  <2>3. IsPrime(n) = (n > 1 /\ {d \in 1..n : IsMultipleOf(n, d)} = {1, n})
    <3>1. IsPrime(n) <=> n > 1 /\ {d \in 1..n : IsMultipleOf(n, d)} = {1, n}
      BY <2>1, PrimeExact
    <3>2. IsPrime(n) \in BOOLEAN
      BY DEF IsPrime
    <3> QED BY <3>1, <3>2
  <2>4. IsPerfectSquare(n) = (\E r \in 0..n : r * r = n)
    BY <2>1, SquareExact
  <2>5. IsFibonacci(n) = (n \in Fibonaccis)
    BY <2>1, <2>2, FibonacciExact
  <2>6. \A h, t, u \in 0..9 : n = 100 * h + 10 * t + u => DigitSum[n] = h + t + u
    BY DigitSumExact
  <2> QED BY <2>3, <2>4, <2>5, <2>6
<1> QED BY <1>2, <1>3, <1>4, PTL DEF NumberSpec
=============================================================================
