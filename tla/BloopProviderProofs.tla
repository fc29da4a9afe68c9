------------------------- MODULE BloopProviderProofs -------------------------
(* Proofs about the bloop collections, for any clients, players, ages and   *)
(* any sequence of additions.                                               *)
EXTENDS BloopProvider, CountingLemmas, TLAPS

-----------------------------------------------------------------------------
(* One step of the filter, for the n-th bloop of s and what was kept of the *)
(* ones before it.                                                          *)
Keep(s, S, n, before) == IF s[n] \in S THEN Append(before, s[n]) ELSE before

IsFilter(f, s, S, m) ==
    f = [n \in 0..m |-> IF n = 0 THEN <<>> ELSE Keep(s, S, n, f[n - 1])]

(* The filter's recursion defines a function.                               *)
LEMMA FilterExists ==
    ASSUME NEW s, NEW S, NEW m \in Nat
    PROVE  \E f : IsFilter(f, s, S, m)
<1> DEFINE P == {k \in Nat : \E f : IsFilter(f, s, S, k)}
<1>1. 0 \in P
  <2> DEFINE f == [n \in 0..0 |-> <<>>]
  <2>1. IsFilter(f, s, S, 0)
    BY DEF IsFilter
  <2> QED BY <2>1
<1>2. ASSUME NEW k \in Nat, k \in P PROVE k + 1 \in P
  <2>1. PICK f : IsFilter(f, s, S, k)
    BY <1>2
  <2> DEFINE g == [n \in 0..(k + 1) |-> IF n = k + 1 THEN Keep(s, S, n, f[k]) ELSE f[n]]
  <2>2. \A n \in 0..k : g[n] = f[n]
    OBVIOUS
  <2>3. \A n \in 0..(k + 1) : g[n] = IF n = 0 THEN <<>> ELSE Keep(s, S, n, g[n - 1])
    <3> SUFFICES ASSUME NEW n \in 0..(k + 1)
                 PROVE  g[n] = IF n = 0 THEN <<>> ELSE Keep(s, S, n, g[n - 1])
      OBVIOUS
    <3>1. CASE n = k + 1
      <4>1. g[n] = Keep(s, S, n, f[k]) /\ g[n - 1] = f[k] /\ n # 0
        BY <2>2, <3>1
      <4> QED BY <4>1
    <3>2. CASE n \in 0..k
      <4>1. f[n] = IF n = 0 THEN <<>> ELSE Keep(s, S, n, f[n - 1])
        BY <2>1, <3>2 DEF IsFilter
      <4>2. n # 0 => n - 1 \in 0..k
        BY <3>2
      <4> QED BY <2>2, <3>2, <4>1, <4>2
    <3> QED BY <3>1, <3>2
  <2>4. g = [n \in 0..(k + 1) |-> g[n]]
    OBVIOUS
  <2> HIDE DEF g
  <2>5. IsFilter(g, s, S, k + 1)
    BY <2>3, <2>4 DEF IsFilter
  <2> QED BY <2>5
<1> HIDE DEF P
<1>3. \A n \in Nat : n \in P
  BY <1>1, <1>2, NatSetInduction
<1> QED BY <1>3 DEF P

(* The equations of the filter.                                             *)
LEMMA FilterEquations ==
    ASSUME NEW B, NEW s \in Seq(B), NEW S
    PROVE  /\ FilteredUpTo(s, S)[0] = <<>>
           /\ \A n \in 1..Len(s) :
                FilteredUpTo(s, S)[n] = Keep(s, S, n, FilteredUpTo(s, S)[n - 1])
<1> DEFINE f == FilteredUpTo(s, S)
<1>1. Len(s) \in Nat
  OBVIOUS
<1>2. f = CHOOSE g : IsFilter(g, s, S, Len(s))
  BY DEF FilteredUpTo, IsFilter, Keep
<1>3. IsFilter(f, s, S, Len(s))
  BY <1>1, <1>2, FilterExists
<1> HIDE DEF f
<1>4. f[0] = <<>>
  BY <1>1, <1>3 DEF IsFilter
<1>5. \A n \in 1..Len(s) : f[n] = Keep(s, S, n, f[n - 1])
  BY <1>1, <1>3 DEF IsFilter
<1> QED BY <1>4, <1>5 DEF f

(* What is kept are bloops of the sequence that are in the set.             *)
LEMMA FilterContents ==
    ASSUME NEW B, NEW s \in Seq(B), NEW S, NEW n \in 0..Len(s)
    PROVE  /\ FilteredUpTo(s, S)[n] \in Seq(B)
           /\ \A i \in DOMAIN FilteredUpTo(s, S)[n] : FilteredUpTo(s, S)[n][i] \in S
<1> DEFINE f == FilteredUpTo(s, S)
<1> DEFINE Good(k) == f[k] \in Seq(B) /\ \A i \in DOMAIN f[k] : f[k][i] \in S
<1> DEFINE P == {k \in Nat : k <= Len(s) => Good(k)}
<1>1. Len(s) \in Nat
  OBVIOUS
<1>2. f[0] = <<>> /\ \A k \in 1..Len(s) : f[k] = Keep(s, S, k, f[k - 1])
  BY FilterEquations
<1> HIDE DEF f
<1>3. 0 \in P
  <2>1. <<>> \in Seq(B) /\ \A i \in DOMAIN <<>> : <<>>[i] \in S
    OBVIOUS
  <2>2. Good(0)
    BY <1>2, <2>1
  <2> QED BY <2>2
<1>4. ASSUME NEW k \in Nat, k \in P PROVE k + 1 \in P
  <2> SUFFICES ASSUME k + 1 <= Len(s) PROVE Good(k + 1)
    OBVIOUS
  <2>1. Good(k) /\ k + 1 \in 1..Len(s) /\ (k + 1) - 1 = k
    BY <1>1, <1>4
  <2>2. f[k + 1] = Keep(s, S, k + 1, f[k])
    BY <1>2, <2>1
  <2>3. CASE s[k + 1] \in S
    <3>1. f[k + 1] = Append(f[k], s[k + 1]) /\ s[k + 1] \in B /\ f[k] \in Seq(B)
      BY <2>1, <2>2, <2>3 DEF Keep
    <3>2. f[k + 1] \in Seq(B)
      BY <3>1
    <3>3. ASSUME NEW i \in DOMAIN f[k + 1] PROVE f[k + 1][i] \in S
      BY <2>1, <2>3, <3>1
    <3> QED BY <3>2, <3>3
  <2>4. CASE s[k + 1] \notin S
    BY <2>1, <2>2, <2>4 DEF Keep
  <2> QED BY <2>3, <2>4
<1> HIDE DEF P
<1>5. \A k \in Nat : k \in P
  BY <1>3, <1>4, NatSetInduction
<1> QED BY <1>1, <1>5 DEF P, f

(* a is how b begins.                                                       *)
Begins(a, b) == Len(a) <= Len(b) /\ \A i \in 1..Len(a) : a[i] = b[i]

(* Filtering more of a sequence only adds to what was kept.                 *)
LEMMA FilterGrows ==
    ASSUME NEW B, NEW s \in Seq(B), NEW S, NEW n \in 0..Len(s), NEW m \in n..Len(s)
    PROVE  Begins(FilteredUpTo(s, S)[n], FilteredUpTo(s, S)[m])
<1> DEFINE f == FilteredUpTo(s, S)
<1> DEFINE P == {k \in Nat : n + k <= Len(s) => Begins(f[n], f[n + k])}
<1>1. Len(s) \in Nat /\ n \in Nat
  OBVIOUS
<1>2. \A k \in 1..Len(s) : f[k] = Keep(s, S, k, f[k - 1])
  BY FilterEquations
<1>3. \A k \in 0..Len(s) : f[k] \in Seq(B)
  BY FilterContents
<1> HIDE DEF f
<1>4. 0 \in P
  <2>1. f[n] \in Seq(B) /\ n + 0 = n
    BY <1>1, <1>3
  <2>2. Begins(f[n], f[n])
    BY <2>1 DEF Begins
  <2> QED BY <2>1, <2>2
<1>5. ASSUME NEW k \in Nat, k \in P PROVE k + 1 \in P
  <2> SUFFICES ASSUME n + (k + 1) <= Len(s) PROVE Begins(f[n], f[n + (k + 1)])
    OBVIOUS
  <2> DEFINE j == n + k
  <2>1. j \in 0..Len(s) /\ j + 1 \in 1..Len(s) /\ (j + 1) - 1 = j /\ n + (k + 1) = j + 1
    BY <1>1
  <2>2. Begins(f[n], f[j])
    BY <1>1, <1>5
  <2> HIDE DEF j
  <2>3. f[j + 1] = Keep(s, S, j + 1, f[j]) /\ f[j] \in Seq(B) /\ f[n] \in Seq(B) /\ s[j + 1] \in B
    BY <1>1, <1>2, <1>3, <2>1
  <2>4. Begins(f[j], f[j + 1])
    BY <2>3 DEF Keep, Begins
  <2>5. f[j + 1] \in Seq(B)
    BY <1>3, <2>1
  <2>6. Begins(f[n], f[j + 1])
    BY <2>2, <2>3, <2>4, <2>5 DEF Begins
  <2> QED BY <2>1, <2>6
<1> HIDE DEF P
<1>6. \A k \in Nat : k \in P
  BY <1>4, <1>5, NatSetInduction
<1>7. m - n \in Nat /\ n + (m - n) = m /\ m <= Len(s)
  BY <1>1
<1>8. m - n \in P
  BY <1>6, <1>7
<1> QED BY <1>7, <1>8 DEF P, f

(* What is kept of the first bloops depends on no later ones.               *)
LEMMA FilterOfPrefix ==
    ASSUME NEW B, NEW s \in Seq(B), NEW t \in Seq(B), NEW S, Begins(s, t)
    PROVE  \A n \in 0..Len(s) : FilteredUpTo(s, S)[n] = FilteredUpTo(t, S)[n]
<1> DEFINE f == FilteredUpTo(s, S)
<1> DEFINE g == FilteredUpTo(t, S)
<1> DEFINE P == {k \in Nat : k <= Len(s) => f[k] = g[k]}
<1>1. Len(s) \in Nat /\ Len(t) \in Nat /\ Len(s) <= Len(t)
  BY DEF Begins
<1>2. /\ f[0] = <<>> /\ \A k \in 1..Len(s) : f[k] = Keep(s, S, k, f[k - 1])
      /\ g[0] = <<>> /\ \A k \in 1..Len(t) : g[k] = Keep(t, S, k, g[k - 1])
  BY FilterEquations
<1> HIDE DEF f, g
<1>3. 0 \in P
  BY <1>2
<1>4. ASSUME NEW k \in Nat, k \in P PROVE k + 1 \in P
  <2> SUFFICES ASSUME k + 1 <= Len(s) PROVE f[k + 1] = g[k + 1]
    OBVIOUS
  <2>1. f[k] = g[k] /\ k + 1 \in 1..Len(s) /\ k + 1 \in 1..Len(t) /\ (k + 1) - 1 = k
    BY <1>1, <1>4
  <2>2. s[k + 1] = t[k + 1]
    BY <2>1 DEF Begins
  <2> QED BY <1>2, <2>1, <2>2 DEF Keep
<1> HIDE DEF P
<1>5. \A k \in Nat : k \in P
  BY <1>3, <1>4, NatSetInduction
<1> QED BY <1>1, <1>5 DEF P, f, g

(* So filtering how a sequence begins gives how its filter begins.          *)
LEMMA FilteredBegins ==
    ASSUME NEW B, NEW s \in Seq(B), NEW t \in Seq(B), NEW S, Begins(s, t)
    PROVE  Begins(Filtered(s, S), Filtered(t, S))
<1>1. Len(s) \in 0..Len(t) /\ Len(s) \in 0..Len(s) /\ Len(t) \in Len(s)..Len(t)
  BY DEF Begins
<1>2. FilteredUpTo(s, S)[Len(s)] = FilteredUpTo(t, S)[Len(s)]
  BY <1>1, FilterOfPrefix
<1>3. Begins(FilteredUpTo(t, S)[Len(s)], FilteredUpTo(t, S)[Len(t)])
  BY <1>1, FilterGrows
<1> QED BY <1>2, <1>3 DEF Filtered

(* A new first bloop comes first in the filter too, or does not appear.     *)
LEMMA FilteredPrepend ==
    ASSUME NEW B, NEW s \in Seq(B), NEW b \in B, NEW S
    PROVE  /\ b \in S => Filtered(<<b>> \o s, S) = <<b>> \o Filtered(s, S)
           /\ b \notin S => Filtered(<<b>> \o s, S) = Filtered(s, S)
<1> DEFINE t == <<b>> \o s
<1> DEFINE f == FilteredUpTo(s, S)
<1> DEFINE g == FilteredUpTo(t, S)
<1> DEFINE with(x) == IF b \in S THEN <<b>> \o x ELSE x
<1> DEFINE P == {k \in Nat : k <= Len(s) => g[k + 1] = with(f[k])}
<1>1. /\ t \in Seq(B) /\ Len(t) = Len(s) + 1 /\ Len(s) \in Nat
      /\ t[1] = b /\ \A k \in 1..Len(s) : t[k + 1] = s[k]
  OBVIOUS
<1>2. /\ f[0] = <<>> /\ \A k \in 1..Len(s) : f[k] = Keep(s, S, k, f[k - 1])
  BY FilterEquations
<1> HIDE DEF t
<1>3. g[0] = <<>> /\ \A k \in 1..Len(t) : g[k] = Keep(t, S, k, g[k - 1])
  BY <1>1, FilterEquations
<1>4. \A k \in 0..Len(s) : f[k] \in Seq(B)
  BY FilterContents
<1> HIDE DEF f, g
<1>5. 0 \in P
  <2>1. g[1] = Keep(t, S, 1, <<>>)
    BY <1>1, <1>3
  <2>2. g[1] = with(<<>>)
    BY <1>1, <2>1 DEF Keep
  <2> HIDE DEF with
  <2>3. g[0 + 1] = with(f[0])
    BY <1>2, <2>2
  <2> QED BY <2>3
<1>6. ASSUME NEW k \in Nat, k \in P PROVE k + 1 \in P
  <2> SUFFICES ASSUME k + 1 <= Len(s) PROVE g[(k + 1) + 1] = with(f[k + 1])
    OBVIOUS
  <2>1. /\ g[k + 1] = with(f[k]) /\ k + 1 \in 1..Len(s) /\ (k + 1) - 1 = k
        /\ (k + 1) + 1 \in 1..Len(t) /\ ((k + 1) + 1) - 1 = k + 1 /\ f[k] \in Seq(B)
    BY <1>1, <1>4, <1>6
  <2>2. f[k + 1] = Keep(s, S, k + 1, f[k])
    BY <1>2, <2>1
  <2>3. g[(k + 1) + 1] = Keep(t, S, (k + 1) + 1, with(f[k])) /\ t[(k + 1) + 1] = s[k + 1]
    BY <1>1, <1>3, <2>1
  <2>4. s[k + 1] \in B
    BY <2>1
  <2>5. Append(with(f[k]), s[k + 1]) = with(Append(f[k], s[k + 1]))
    BY <2>1, <2>4
  <2> HIDE DEF with
  <2> QED BY <2>2, <2>3, <2>5 DEF Keep
<1> HIDE DEF P
<1>7. \A k \in Nat : k \in P
  BY <1>5, <1>6, NatSetInduction
<1>8. g[Len(s) + 1] = with(f[Len(s)])
  BY <1>1, <1>7 DEF P
<1> QED BY <1>1, <1>8 DEF Filtered, f, g, t

(* If the first m bloops all pass, they are what the filter begins with.    *)
LEMMA FilteredKeepsAll ==
    ASSUME NEW B, NEW s \in Seq(B), NEW S, NEW m \in 0..Len(s), \A i \in 1..m : s[i] \in S
    PROVE  /\ Filtered(s, S) \in Seq(B) /\ Len(Filtered(s, S)) >= m
           /\ \A i \in 1..m : Filtered(s, S)[i] = s[i]
<1> DEFINE f == FilteredUpTo(s, S)
<1> DEFINE Same(k) == Len(f[k]) = k /\ \A i \in 1..k : f[k][i] = s[i]
<1> DEFINE P == {k \in Nat : k <= m => Same(k)}
<1>1. Len(s) \in Nat /\ m \in Nat /\ m <= Len(s)
  OBVIOUS
<1>2. f[0] = <<>> /\ \A k \in 1..Len(s) : f[k] = Keep(s, S, k, f[k - 1])
  BY FilterEquations
<1>3. \A k \in 0..Len(s) : f[k] \in Seq(B)
  BY FilterContents
<1>4. Begins(f[m], f[Len(s)])
  BY <1>1, FilterGrows
<1> HIDE DEF f
<1>5. 0 \in P
  <2>1. Len(<<>>) = 0 /\ 1..0 = {}
    OBVIOUS
  <2>2. Same(0)
    BY <1>2, <2>1
  <2> HIDE DEF Same
  <2> QED BY <2>2
<1>6. ASSUME NEW k \in Nat, k \in P PROVE k + 1 \in P
  <2> SUFFICES ASSUME k + 1 <= m PROVE Same(k + 1)
    OBVIOUS
  <2>1. Same(k) /\ k + 1 \in 1..Len(s) /\ (k + 1) - 1 = k /\ f[k] \in Seq(B) /\ s[k + 1] \in B
        /\ s[k + 1] \in S
    BY <1>1, <1>3, <1>6
  <2>2. f[k + 1] = Append(f[k], s[k + 1])
    BY <1>2, <2>1 DEF Keep
  <2> QED BY <2>1, <2>2
<1> HIDE DEF P
<1>7. \A k \in Nat : k \in P
  BY <1>5, <1>6, NatSetInduction
<1>8. Same(m) /\ f[Len(s)] \in Seq(B)
  BY <1>1, <1>3, <1>7 DEF P
<1> QED BY <1>1, <1>4, <1>8 DEF Begins, Filtered, f

(* Every bloop of a sequence has a time.                                    *)
LEMMA BloopAt ==
    ASSUME NEW s \in Seq(Bloop)
    PROVE  \A i \in DOMAIN s : s[i] \in Bloop /\ s[i].at \in Nat
<1>1. \A b \in Bloop : b.at \in Nat
  BY MaxTimeAssumption DEF Bloop
<1>2. \A i \in DOMAIN s : s[i] \in Bloop
  OBVIOUS
<1> QED BY <1>1, <1>2

(* A filter keeps the order of time.                                        *)
LEMMA FilteredNewestFirst ==
    ASSUME NEW s \in Seq(Bloop), NEW S, NewestFirst(s)
    PROVE  NewestFirst(Filtered(s, S))
<1> DEFINE f == FilteredUpTo(s, S)
<1> DEFINE Good(k) == /\ NewestFirst(f[k])
                      /\ \A i \in DOMAIN f[k] : \A j \in k..Len(s) : j > 0 => f[k][i].at >= s[j].at
<1> DEFINE P == {k \in Nat : k <= Len(s) => Good(k)}
<1>1. Len(s) \in Nat /\ DOMAIN s = 1..Len(s)
  OBVIOUS
<1>2. f[0] = <<>> /\ \A k \in 1..Len(s) : f[k] = Keep(s, S, k, f[k - 1])
  BY FilterEquations
<1>3. \A k \in 0..Len(s) : f[k] \in Seq(Bloop)
  BY FilterContents
<1>4. \A b \in Bloop : b.at \in Nat
  BY MaxTimeAssumption DEF Bloop
<1> HIDE DEF f
<1>5. 0 \in P
  <2>1. DOMAIN <<>> = {}
    OBVIOUS
  <2>2. Good(0)
    BY <1>2, <2>1 DEF NewestFirst
  <2> HIDE DEF Good
  <2> QED BY <2>2
<1>6. ASSUME NEW k \in Nat, k \in P PROVE k + 1 \in P
  <2> SUFFICES ASSUME k + 1 <= Len(s) PROVE Good(k + 1)
    OBVIOUS
  <2>1. /\ Good(k) /\ k + 1 \in 1..Len(s) /\ (k + 1) - 1 = k /\ f[k] \in Seq(Bloop)
        /\ s[k + 1] \in Bloop /\ k + 1 \in k..Len(s) /\ k + 1 > 0
        /\ \A j \in (k + 1)..Len(s) : j \in k..Len(s)
    BY <1>1, <1>3, <1>6
  <2>2. f[k + 1] = Keep(s, S, k + 1, f[k])
    BY <1>2, <2>1
  <2>3. CASE s[k + 1] \notin S
    <3>1. f[k + 1] = f[k]
      BY <2>2, <2>3 DEF Keep
    <3> QED BY <2>1, <3>1
  <2>4. CASE s[k + 1] \in S
    <3> DEFINE new == s[k + 1]
    <3>1. f[k + 1] = Append(f[k], new)
      BY <2>2, <2>4 DEF Keep
    <3>2. /\ Len(f[k]) \in Nat /\ DOMAIN f[k] = 1..Len(f[k]) /\ DOMAIN f[k + 1] = 1..(Len(f[k]) + 1)
          /\ f[k + 1][Len(f[k]) + 1] = new
          /\ \A i \in 1..Len(f[k]) : f[k + 1][i] = f[k][i]
      BY <2>1, <3>1
    <3>3. \A i \in DOMAIN f[k + 1] :
            (i \in DOMAIN f[k] /\ f[k + 1][i] = f[k][i]) \/ f[k + 1][i] = new
      BY <3>2
    <3>4. \A i \in DOMAIN f[k] : f[k][i].at >= new.at
      BY <2>1
    <3>5. \A j \in (k + 1)..Len(s) : new.at >= s[j].at
      <4> SUFFICES ASSUME NEW j \in (k + 1)..Len(s) PROVE new.at >= s[j].at
        OBVIOUS
      <4>1. j \in DOMAIN s /\ k + 1 \in DOMAIN s /\ (j = k + 1 \/ k + 1 < j)
        BY <1>1, <2>1
      <4>2. new.at \in Nat
        BY <1>4, <2>1
      <4> QED BY <4>1, <4>2 DEF NewestFirst
    <3> HIDE DEF new
    <3>6. NewestFirst(f[k + 1])
      <4> SUFFICES ASSUME NEW i \in DOMAIN f[k + 1], NEW j \in DOMAIN f[k + 1], i < j
                   PROVE  f[k + 1][i].at >= f[k + 1][j].at
        BY DEF NewestFirst
      <4>1. i \in DOMAIN f[k] /\ f[k + 1][i] = f[k][i]
        BY <3>2
      <4>2. CASE j \in DOMAIN f[k] /\ f[k + 1][j] = f[k][j]
        BY <2>1, <4>1, <4>2 DEF NewestFirst
      <4>3. CASE f[k + 1][j] = new
        BY <3>4, <4>1, <4>3
      <4> QED BY <3>3, <4>2, <4>3
    <3>7. ASSUME NEW i \in DOMAIN f[k + 1], NEW j \in (k + 1)..Len(s), j > 0
          PROVE  f[k + 1][i].at >= s[j].at
      BY <2>1, <3>3, <3>5, <3>7
    <3> QED BY <3>6, <3>7
  <2> QED BY <2>3, <2>4
<1> HIDE DEF P
<1>7. \A k \in Nat : k \in P
  BY <1>5, <1>6, NatSetInduction
<1>8. Good(Len(s))
  BY <1>1, <1>7 DEF P
<1> QED BY <1>8 DEF Filtered, f

-----------------------------------------------------------------------------
(* The two ways to say how a sequence begins.                               *)
LEMMA PrefixIsBegin ==
    ASSUME NEW B, NEW s \in Seq(B), NEW t \in Seq(B)
    PROVE  IsPrefix(s, t) <=> Begins(s, t)
<1>1. ASSUME IsPrefix(s, t) PROVE Begins(s, t)
  <2>1. Len(s) <= Len(t) /\ SubSeq(s, 1, Len(s)) = SubSeq(t, 1, Len(s))
    BY <1>1 DEF IsPrefix
  <2>2. \A i \in 1..Len(s) : SubSeq(s, 1, Len(s))[i] = s[i] /\ SubSeq(t, 1, Len(s))[i] = t[i]
    BY <2>1
  <2> QED BY <2>1, <2>2 DEF Begins
<1>2. ASSUME Begins(s, t) PROVE IsPrefix(s, t)
  <2>1. Len(s) <= Len(t) /\ \A i \in 1..Len(s) : s[i] = t[i]
    BY <1>2 DEF Begins
  <2>2. SubSeq(s, 1, Len(s)) = [i \in 1..Len(s) |-> s[i]]
    OBVIOUS
  <2>3. SubSeq(t, 1, Len(s)) = [i \in 1..Len(s) |-> t[i]]
    BY <2>1
  <2> QED BY <2>1, <2>2, <2>3 DEF IsPrefix
<1> QED BY <1>1, <1>2

(* Counting positions from the back.                                        *)
LEMMA Mirrored ==
    ASSUME NEW n \in Nat, NEW i \in 1..n
    PROVE  n - (n - i) = i /\ n - i \in 0..n /\ \A d \in Nat : d <= n - i => i <= n - d
  OBVIOUS

(* Pruning keeps how the collection begins; what it drops is older than     *)
(* max_age, and if the newest come first it keeps nothing that is.          *)
LEMMA PruneFacts ==
    ASSUME NEW s \in Seq(Bloop), now \in Nat
    PROVE  /\ Prune(s) \in Seq(Bloop) /\ Begins(Prune(s), s)
           /\ \A i \in DOMAIN s : i > Len(Prune(s)) => s[i].at + MaxAge < now
           /\ NewestFirst(s) => \A i \in 1..Len(Prune(s)) : s[i].at + MaxAge >= now
<1> DEFINE kept == {i \in DOMAIN s : s[i].at + MaxAge >= now}
<1> DEFINE n == CHOOSE k \in kept \cup {0} : \A i \in kept : i <= k
<1>1. Len(s) \in Nat /\ DOMAIN s = 1..Len(s)
  OBVIOUS
<1>0. \A i : i \in kept <=> i \in 1..Len(s) /\ s[i].at + MaxAge >= now
  BY <1>1
<1>2. \E k \in kept \cup {0} : \A i \in kept : i <= k
  <2> DEFINE T == {d \in 0..Len(s) : Len(s) - d \in kept \cup {0}}
  <2>1. T \subseteq Nat /\ Len(s) \in T
    BY <1>1
  <2>2. PICK d \in T : \A e \in T : d <= e
    BY <2>1, NatLeast
  <2> HIDE DEF kept
  <2>3. ASSUME NEW i \in 1..Len(s), i \in kept PROVE i <= Len(s) - d
    <3>1. Len(s) - (Len(s) - i) = i /\ Len(s) - i \in 0..Len(s)
      BY <1>1, Mirrored
    <3>2. Len(s) - i \in T
      BY <2>3, <3>1
    <3>3. d \in Nat /\ d <= Len(s) - i
      BY <2>1, <2>2, <3>2
    <3> QED BY <1>1, <3>3, Mirrored
  <2>4. \A i \in kept : i <= Len(s) - d
    BY <1>0, <2>3
  <2> QED BY <2>2, <2>4
<1>3. n \in kept \cup {0} /\ \A i \in kept : i <= n
  BY <1>2
<1>4. Prune(s) = SubSeq(s, 1, n)
  BY DEF Prune
<1> HIDE DEF kept, n
<1>5. n \in 0..Len(s) /\ \A i \in DOMAIN s : i > n => ~(s[i].at + MaxAge >= now)
  BY <1>0, <1>1, <1>3
<1>6. n > 0 => s[n].at + MaxAge >= now
  BY <1>0, <1>1, <1>3
<1>7. /\ Prune(s) \in Seq(Bloop) /\ Len(Prune(s)) = n
      /\ \A i \in 1..n : Prune(s)[i] = s[i]
  BY <1>1, <1>4, <1>5
<1>8. \A i \in DOMAIN s : s[i].at \in Nat
  BY BloopAt
<1>9. \A i \in DOMAIN s : i > n => s[i].at + MaxAge < now
  BY <1>5, <1>8, MaxAgeAssumption
<1>10. ASSUME NewestFirst(s), NEW i \in 1..n PROVE s[i].at + MaxAge >= now
  <2>1. i \in DOMAIN s /\ n \in DOMAIN s /\ n > 0 /\ (i = n \/ i < n)
    BY <1>1, <1>5
  <2>2. s[i].at >= s[n].at
    BY <1>8, <1>10, <2>1 DEF NewestFirst
  <2> QED BY <1>6, <1>8, <2>1, <2>2, MaxAgeAssumption
<1> QED BY <1>1, <1>5, <1>7, <1>9, <1>10 DEF Begins

(* The bloops of one client, and what a new bloop changes of them.          *)
LEMMA OfClientFacts ==
    ASSUME NEW s \in Seq(Bloop), NEW c \in Clients
    PROVE  /\ OfClient(s, c) \in Seq(Bloop)
           /\ NewestFirst(s) => NewestFirst(OfClient(s, c))
           /\ \A b \in Bloop :
                /\ b.client = c => OfClient(<<b>> \o s, c) = <<b>> \o OfClient(s, c)
                /\ b.client # c => OfClient(<<b>> \o s, c) = OfClient(s, c)
           /\ \A t \in Seq(Bloop) : Begins(s, t) => Begins(OfClient(s, c), OfClient(t, c))
<1> DEFINE S == {b \in Bloop : b.client = c}
<1>1. \A t : OfClient(t, c) = Filtered(t, S)
  BY DEF OfClient
<1>2. \A b \in Bloop : b \in S <=> b.client = c
  OBVIOUS
<1> HIDE DEF S
<1>3. Len(s) \in 0..Len(s)
  OBVIOUS
<1>4. Filtered(s, S) \in Seq(Bloop)
  BY <1>3, FilterContents DEF Filtered
<1>5. NewestFirst(s) => NewestFirst(Filtered(s, S))
  BY FilteredNewestFirst
<1>6. ASSUME NEW b \in Bloop
      PROVE  /\ b \in S => Filtered(<<b>> \o s, S) = <<b>> \o Filtered(s, S)
             /\ b \notin S => Filtered(<<b>> \o s, S) = Filtered(s, S)
  BY FilteredPrepend
<1>7. ASSUME NEW t \in Seq(Bloop), Begins(s, t) PROVE Begins(Filtered(s, S), Filtered(t, S))
  BY <1>7, FilteredBegins
<1> QED BY <1>1, <1>2, <1>4, <1>5, <1>6, <1>7

(* Nothing filtered is nothing.                                             *)
LEMMA OfClientEmpty ==
    ASSUME NEW c \in Clients
    PROVE  OfClient(<<>>, c) = <<>>
<1>1. <<>> \in Seq(Bloop) /\ Len(<<>>) = 0
  OBVIOUS
<1> QED BY <1>1, FilterEquations DEF OfClient, Filtered

(* push_front.                                                              *)
LEMMA PrependFacts ==
    ASSUME NEW B, NEW s \in Seq(B), NEW b \in B
    PROVE  /\ <<b>> \o s \in Seq(B) /\ Len(<<b>> \o s) = Len(s) + 1 /\ Len(s) \in Nat
           /\ DOMAIN (<<b>> \o s) = 1..(Len(s) + 1) /\ DOMAIN s = 1..Len(s)
           /\ (<<b>> \o s)[1] = b
           /\ \A i \in 2..(Len(s) + 1) : i - 1 \in 1..Len(s) /\ (<<b>> \o s)[i] = s[i - 1]
  OBVIOUS

(* A bloop pushed to the front of both keeps one the begin of the other.    *)
LEMMA PrependBegins ==
    ASSUME NEW B, NEW s \in Seq(B), NEW t \in Seq(B), NEW b \in B, Begins(s, t)
    PROVE  Begins(<<b>> \o s, <<b>> \o t)
<1>1. Len(s) <= Len(t) /\ \A i \in 1..Len(s) : s[i] = t[i]
  BY DEF Begins
<1>2. Len(<<b>> \o s) <= Len(<<b>> \o t)
  BY <1>1, PrependFacts
<1>3. ASSUME NEW i \in 1..Len(<<b>> \o s) PROVE (<<b>> \o s)[i] = (<<b>> \o t)[i]
  <2>1. i = 1 \/ (i \in 2..(Len(s) + 1) /\ i \in 2..(Len(t) + 1) /\ i - 1 \in 1..Len(s))
    BY <1>1, PrependFacts
  <2> QED BY <1>1, <2>1, PrependFacts
<1> QED BY <1>2, <1>3 DEF Begins

(* Time only makes what is forgotten older.                                 *)
LEMMA WindowAges ==
    ASSUME NEW a, NEW h \in Seq(Bloop), NEW t \in Nat, NEW u \in Nat, t <= u, IsWindow(a, h, t)
    PROVE  IsWindow(a, h, u)
<1>1. ASSUME NEW i \in DOMAIN h, i > Len(a) PROVE h[i].at + MaxAge < u
  <2>1. h[i].at + MaxAge < t /\ h[i].at \in Nat
    BY <1>1, BloopAt DEF IsWindow
  <2> QED BY <2>1, MaxAgeAssumption
<1> QED BY <1>1 DEF IsWindow

(* Adding to a collection keeps it a window of its history, as of now.      *)
LEMMA PushedWindow ==
    ASSUME NEW a \in Seq(Bloop), NEW h \in Seq(Bloop), NEW b \in Bloop, now \in Nat,
           IsWindow(a, h, now)
    PROVE  Pushed(a, b) \in Seq(Bloop) /\ IsWindow(Pushed(a, b), <<b>> \o h, now)
<1> DEFINE r == Prune(a)
<1>1. /\ r \in Seq(Bloop) /\ Begins(r, a)
      /\ \A i \in DOMAIN a : i > Len(r) => a[i].at + MaxAge < now
  BY PruneFacts
<1>2. Begins(a, h) /\ \A i \in DOMAIN h : i > Len(a) => h[i].at + MaxAge < now
  BY PrefixIsBegin DEF IsWindow
<1>3. Pushed(a, b) = <<b>> \o r
  BY DEF Pushed
<1> HIDE DEF r
<1>4. /\ Len(r) \in Nat /\ Len(a) \in Nat /\ Len(h) \in Nat
      /\ DOMAIN a = 1..Len(a) /\ DOMAIN h = 1..Len(h) /\ DOMAIN r = 1..Len(r)
  BY <1>1
<1>5. Begins(r, h)
  BY <1>1, <1>2, <1>4 DEF Begins
<1>6. \A i \in DOMAIN h : i > Len(r) => h[i].at + MaxAge < now
  <2> SUFFICES ASSUME NEW i \in DOMAIN h, i > Len(r) PROVE h[i].at + MaxAge < now
    OBVIOUS
  <2>1. CASE i \in 1..Len(a)
    BY <1>1, <1>2, <1>4, <2>1 DEF Begins
  <2>2. CASE i > Len(a)
    BY <1>2, <2>2
  <2>3. i \in 1..Len(a) \/ i > Len(a)
    BY <1>4
  <2> QED BY <2>1, <2>2, <2>3
<1>7. Begins(<<b>> \o r, <<b>> \o h) /\ <<b>> \o r \in Seq(Bloop) /\ <<b>> \o h \in Seq(Bloop)
  BY <1>1, <1>5, PrependBegins, PrependFacts
<1>8. ASSUME NEW i \in DOMAIN (<<b>> \o h), i > Len(<<b>> \o r)
      PROVE  (<<b>> \o h)[i].at + MaxAge < now
  <2>1. Len(<<b>> \o r) = Len(r) + 1 /\ DOMAIN (<<b>> \o h) = 1..(Len(h) + 1)
    BY <1>1, PrependFacts
  <2>2. i \in 2..(Len(h) + 1) /\ i - 1 > Len(r)
    BY <1>4, <1>8, <2>1
  <2>3. i - 1 \in DOMAIN h /\ (<<b>> \o h)[i] = h[i - 1]
    BY <2>2, PrependFacts
  <2> QED BY <1>6, <2>2, <2>3
<1>9. IsPrefix(<<b>> \o r, <<b>> \o h)
  BY <1>7, PrefixIsBegin
<1> QED BY <1>3, <1>7, <1>8, <1>9 DEF IsWindow

(* A collection that was just added to holds nothing old but the new bloop. *)
LEMMA PushedIsPruned ==
    ASSUME NEW a \in Seq(Bloop), NEW b \in Bloop, now \in Nat, NewestFirst(a)
    PROVE  \A i \in 2..Len(Pushed(a, b)) : Pushed(a, b)[i].at + MaxAge >= now
<1>1. /\ Prune(a) \in Seq(Bloop) /\ Begins(Prune(a), a)
      /\ \A i \in 1..Len(Prune(a)) : a[i].at + MaxAge >= now
  BY PruneFacts
<1>2. \A i \in 1..Len(Prune(a)) : Prune(a)[i] = a[i]
  BY <1>1 DEF Begins
<1> QED BY <1>1, <1>2, PrependFacts DEF Pushed

(* How a collection in order of time begins is in order of time, and so is  *)
(* one with a newer bloop in front.                                         *)
LEMMA BeginsNewestFirst ==
    ASSUME NEW s \in Seq(Bloop), NEW t \in Seq(Bloop), Begins(s, t), NewestFirst(t)
    PROVE  NewestFirst(s)
<1>1. \A i \in DOMAIN s : i \in DOMAIN t /\ s[i] = t[i]
  BY DEF Begins
<1> QED BY <1>1 DEF NewestFirst

(* A bloop that is no older than the others may go to the front.            *)
LEMMA PrependNewestFirst ==
    ASSUME NEW s \in Seq(Bloop), NEW b \in Bloop, NewestFirst(s),
           \A i \in DOMAIN s : s[i].at <= b.at
    PROVE  NewestFirst(<<b>> \o s)
<1> DEFINE t == <<b>> \o s
<1> SUFFICES ASSUME NEW i \in DOMAIN t, NEW j \in DOMAIN t, i < j PROVE t[i].at >= t[j].at
  BY DEF NewestFirst
<1>1. j \in 2..(Len(s) + 1) /\ (i = 1 \/ i \in 2..(Len(s) + 1))
  BY PrependFacts
<1>2. t[j] = s[j - 1] /\ j - 1 \in DOMAIN s
  BY <1>1, PrependFacts
<1>3. CASE i = 1
  <2>1. t[i] = b
    BY <1>3, PrependFacts
  <2> HIDE DEF t
  <2>2. b.at \in Nat
    BY MaxTimeAssumption DEF Bloop
  <2>3. s[j - 1].at \in Nat /\ s[j - 1].at <= b.at
    BY <1>2, BloopAt
  <2> QED BY <1>2, <2>1, <2>2, <2>3
<1>4. CASE i \in 2..(Len(s) + 1)
  <2>1. t[i] = s[i - 1] /\ i - 1 \in DOMAIN s /\ i - 1 < j - 1
    BY <1>1, <1>4, PrependFacts
  <2> HIDE DEF t
  <2> QED BY <1>2, <2>1 DEF NewestFirst
<1> QED BY <1>1, <1>3, <1>4

-----------------------------------------------------------------------------
(* What the collections keep is only right because their history is in the  *)
(* order of time: the loop of add stops at the first bloop that is young    *)
(* enough.                                                                  *)
CollectionsInv ==
    /\ BloopTypeOK
    /\ NewestFirst(allBloops)
    /\ \A i \in DOMAIN allBloops : allBloops[i].at <= addedAt
    /\ NothingRecentForgotten
    /\ ClientViewCoversGlobal

(* The collections are in the order of time as their history is.            *)
LEMMA CollectionsNewestFirst ==
    ASSUME CollectionsInv, NEW c \in Clients
    PROVE  /\ globalBloops \in Seq(Bloop) /\ clientBloops[c] \in Seq(Bloop) /\ allBloops \in Seq(Bloop)
           /\ OfClient(allBloops, c) \in Seq(Bloop) /\ NewestFirst(OfClient(allBloops, c))
           /\ Begins(globalBloops, allBloops) /\ Begins(clientBloops[c], OfClient(allBloops, c))
           /\ NewestFirst(globalBloops) /\ NewestFirst(clientBloops[c])
<1>1. globalBloops \in Seq(Bloop) /\ clientBloops[c] \in Seq(Bloop) /\ allBloops \in Seq(Bloop)
  BY DEF CollectionsInv, BloopTypeOK
<1>2. OfClient(allBloops, c) \in Seq(Bloop) /\ NewestFirst(OfClient(allBloops, c))
  BY <1>1, OfClientFacts DEF CollectionsInv
<1>3. IsPrefix(globalBloops, allBloops) /\ IsPrefix(clientBloops[c], OfClient(allBloops, c))
  BY DEF CollectionsInv, NothingRecentForgotten, IsWindow
<1>4. Begins(globalBloops, allBloops) /\ Begins(clientBloops[c], OfClient(allBloops, c))
  BY <1>1, <1>2, <1>3, PrefixIsBegin
<1> QED BY <1>1, <1>2, <1>4, BeginsNewestFirst DEF CollectionsInv

(* The client's collection is pruned no further than the global one: both   *)
(* stop at the same age.                                                    *)
LEMMA PrunedViews ==
    ASSUME CollectionsInv, now \in Nat, NEW c \in Clients
    PROVE  /\ Begins(OfClient(Prune(globalBloops), c), Prune(clientBloops[c]))
           /\ Begins(OfClient(Prune(globalBloops), c), clientBloops[c])
           /\ OfClient(Prune(globalBloops), c) \in Seq(Bloop)
<1> DEFINE g == Prune(globalBloops)
<1> DEFINE k == Prune(clientBloops[c])
<1> DEFINE og == OfClient(g, c)
<1>1. globalBloops \in Seq(Bloop) /\ clientBloops[c] \in Seq(Bloop) /\ NewestFirst(globalBloops)
  BY CollectionsNewestFirst
<1>2. /\ g \in Seq(Bloop) /\ Begins(g, globalBloops)
      /\ \A i \in 1..Len(g) : globalBloops[i].at + MaxAge >= now
  BY <1>1, PruneFacts
<1>3. /\ k \in Seq(Bloop) /\ Begins(k, clientBloops[c])
      /\ \A i \in DOMAIN clientBloops[c] : i > Len(k) => clientBloops[c][i].at + MaxAge < now
  BY <1>1, PruneFacts
<1> HIDE DEF g, k
<1>4. og \in Seq(Bloop) /\ Begins(og, OfClient(globalBloops, c))
      /\ OfClient(globalBloops, c) \in Seq(Bloop)
  BY <1>1, <1>2, OfClientFacts
<1>5. Begins(OfClient(globalBloops, c), clientBloops[c])
  BY <1>1, <1>4, PrefixIsBegin DEF CollectionsInv, ClientViewCoversGlobal
<1>6. Begins(og, clientBloops[c])
  BY <1>1, <1>4, <1>5 DEF Begins
<1>7. \A i \in DOMAIN og : og[i].at + MaxAge >= now
  <2> DEFINE S == {b \in Bloop : b.at + MaxAge >= now}
  <2>1. ASSUME NEW i \in 1..Len(g) PROVE g[i] \in S
    <3>1. g[i] \in Bloop /\ g[i] = globalBloops[i]
      BY <1>2 DEF Begins
    <3> QED BY <1>2, <3>1
  <2> HIDE DEF S
  <2>2. g \in Seq(S)
    BY <1>2, <2>1
  <2>3. og \in Seq(S)
    BY <2>2, FilterContents DEF OfClient, Filtered
  <2>4. \A i \in DOMAIN og : og[i] \in S
    BY <2>3
  <2> QED BY <2>4 DEF S
<1> HIDE DEF og
<1>8. Len(og) <= Len(k)
  <2> SUFFICES ASSUME Len(og) > Len(k) PROVE FALSE
    BY <1>3, <1>4
  <2> DEFINE n == Len(og)
  <2>1. n \in DOMAIN og /\ n \in DOMAIN clientBloops[c] /\ n > Len(k)
    BY <1>1, <1>3, <1>4, <1>6 DEF Begins
  <2>2. og[n] = clientBloops[c][n]
    BY <1>4, <1>6, <2>1 DEF Begins
  <2>3. clientBloops[c][n].at + MaxAge >= now /\ clientBloops[c][n].at + MaxAge < now
    BY <1>3, <1>7, <2>1, <2>2
  <2>4. clientBloops[c][n].at \in Nat
    BY <1>1, <2>1, BloopAt
  <2> QED BY <2>3, <2>4, MaxAgeAssumption
<1>9. Begins(og, k)
  BY <1>3, <1>4, <1>6, <1>8 DEF Begins
<1> QED BY <1>4, <1>6, <1>9 DEF og, g, k

(* Adding a bloop made since the last one was added keeps the invariant.    *)
LEMMA AddKeepsCollections ==
    ASSUME CollectionsInv, now \in 0..MaxTime, NEW b \in Bloop,
           addedAt <= b.at, b.at <= now, AddBloop(b)
    PROVE  CollectionsInv'
<1>0. b.client \in Clients /\ b.at \in Nat /\ now \in Nat /\ addedAt \in Nat
  BY MaxTimeAssumption DEF Bloop, CollectionsInv, BloopTypeOK
<1>1. globalBloops \in Seq(Bloop) /\ allBloops \in Seq(Bloop) /\ clientBloops \in [Clients -> Seq(Bloop)]
  BY DEF CollectionsInv, BloopTypeOK
<1>2. /\ globalBloops' = Pushed(globalBloops, b)
      /\ clientBloops' = [clientBloops EXCEPT ![b.client] = Pushed(clientBloops[b.client], b)]
      /\ allBloops' = <<b>> \o allBloops
      /\ addedAt' = now
  BY DEF AddBloop
<1>11. \A i \in DOMAIN allBloops : allBloops[i].at <= b.at
  <2>1. \A i \in DOMAIN allBloops : allBloops[i].at \in Nat
    BY <1>1, BloopAt
  <2> QED BY <1>0, <2>1 DEF CollectionsInv
<1>3. allBloops' \in Seq(Bloop) /\ NewestFirst(allBloops')
  BY <1>1, <1>2, <1>11, PrependFacts, PrependNewestFirst DEF CollectionsInv
<1>12. ASSUME NEW i \in DOMAIN allBloops' PROVE allBloops'[i].at <= addedAt'
  <2>1. i = 1 \/ i \in 2..(Len(allBloops) + 1)
    BY <1>1, <1>2, <1>12, PrependFacts
  <2>2. CASE i = 1
    BY <1>0, <1>1, <1>2, <2>2, PrependFacts
  <2>3. CASE i \in 2..(Len(allBloops) + 1)
    <3>1. i - 1 \in DOMAIN allBloops /\ allBloops'[i] = allBloops[i - 1]
      BY <1>1, <1>2, <2>3, PrependFacts
    <3>2. allBloops[i - 1].at <= b.at /\ allBloops[i - 1].at \in Nat
      BY <1>1, <1>11, <3>1, BloopAt
    <3> QED BY <1>0, <1>2, <3>1, <3>2
  <2> QED BY <2>1, <2>2, <2>3
<1>13. addedAt <= now
  BY <1>0
<1>4. globalBloops' \in Seq(Bloop) /\ IsWindow(globalBloops', allBloops', addedAt')
  <2>1. IsWindow(globalBloops, allBloops, now)
    BY <1>0, <1>1, <1>13, WindowAges DEF CollectionsInv, NothingRecentForgotten
  <2> QED BY <1>0, <1>1, <1>2, <2>1, PushedWindow
<1>5. ASSUME NEW c \in Clients
      PROVE  clientBloops'[c] \in Seq(Bloop)
             /\ IsWindow(clientBloops'[c], OfClient(allBloops', c), addedAt')
  <2>0. OfClient(allBloops, c) \in Seq(Bloop) /\ clientBloops[c] \in Seq(Bloop)
    BY <1>1, OfClientFacts
  <2>1. IsWindow(clientBloops[c], OfClient(allBloops, c), now)
    BY <1>0, <1>13, <2>0, WindowAges DEF CollectionsInv, NothingRecentForgotten
  <2>2. CASE c = b.client
    <3>1. OfClient(allBloops', c) = <<b>> \o OfClient(allBloops, c)
          /\ clientBloops'[c] = Pushed(clientBloops[c], b)
      BY <1>1, <1>2, <2>2, OfClientFacts
    <3> QED BY <1>0, <1>2, <2>0, <2>1, <3>1, PushedWindow
  <2>3. CASE c # b.client
    <3>1. OfClient(allBloops', c) = OfClient(allBloops, c) /\ clientBloops'[c] = clientBloops[c]
      BY <1>1, <1>2, <2>3, OfClientFacts
    <3> QED BY <1>2, <2>0, <2>1, <3>1
  <2> QED BY <2>2, <2>3
<1>6. ASSUME NEW c \in Clients
      PROVE  IsPrefix(OfClient(globalBloops', c), clientBloops'[c])
  <2> DEFINE g == Prune(globalBloops)
  <2>1. g \in Seq(Bloop) /\ globalBloops' = <<b>> \o g
    BY <1>1, <1>2, PruneFacts DEF Pushed
  <2>2. /\ OfClient(g, c) \in Seq(Bloop)
        /\ Begins(OfClient(g, c), Prune(clientBloops[c])) /\ Begins(OfClient(g, c), clientBloops[c])
    BY PrunedViews
  <2>3. Prune(clientBloops[c]) \in Seq(Bloop) /\ clientBloops[c] \in Seq(Bloop)
    BY <1>1, PruneFacts
  <2> HIDE DEF g
  <2>4. CASE c = b.client
    <3>0. clientBloops'[c] = Pushed(clientBloops[c], b)
      BY <1>1, <1>2, <2>4
    <3>1. /\ OfClient(globalBloops', c) = <<b>> \o OfClient(g, c)
          /\ clientBloops'[c] = <<b>> \o Prune(clientBloops[c])
      BY <2>1, <2>4, <3>0, OfClientFacts DEF Pushed
    <3>2. Begins(OfClient(globalBloops', c), clientBloops'[c])
      BY <2>2, <2>3, <3>1, PrependBegins
    <3>3. OfClient(globalBloops', c) \in Seq(Bloop) /\ clientBloops'[c] \in Seq(Bloop)
      BY <2>2, <2>3, <3>1, PrependFacts
    <3> QED BY <3>2, <3>3, PrefixIsBegin
  <2>5. CASE c # b.client
    <3>1. OfClient(globalBloops', c) = OfClient(g, c) /\ clientBloops'[c] = clientBloops[c]
      BY <1>1, <1>2, <2>1, <2>5, OfClientFacts
    <3> QED BY <2>2, <2>3, <3>1, PrefixIsBegin
  <2> QED BY <2>4, <2>5
<1>7. clientBloops' \in [Clients -> Seq(Bloop)]
  BY <1>1, <1>2, <1>5
<1>8. BloopTypeOK'
  BY <1>2, <1>3, <1>4, <1>7 DEF BloopTypeOK
<1>9. NothingRecentForgotten'
  BY <1>4, <1>5 DEF NothingRecentForgotten, IsWindow
<1> QED BY <1>3, <1>6, <1>8, <1>9, <1>12 DEF CollectionsInv, ClientViewCoversGlobal

(* What does not touch the collections keeps the invariant.                 *)
LEMMA StutterKeepsCollections ==
    ASSUME CollectionsInv, UNCHANGED bloopVars
    PROVE  CollectionsInv'
<1>1. UNCHANGED <<globalBloops, clientBloops, allBloops, addedAt>>
  BY DEF bloopVars
<1> QED BY <1>1 DEF CollectionsInv, BloopTypeOK, NewestFirst, NothingRecentForgotten, IsWindow,
           ClientViewCoversGlobal

(* The present state of the provider: nothing was added in the future.      *)
ProviderInv ==
    /\ ClockTypeOK
    /\ CollectionsInv
    /\ addedAt <= now

(* Collections made from stored bloops start with all of them.              *)
LEMMA StoredCollections ==
    ASSUME NEW seed \in Seq(Bloop), NewestFirst(seed), now \in 0..MaxTime,
           \A i \in DOMAIN seed : seed[i].at <= now, BloopInit(seed)
    PROVE  CollectionsInv
<1>1. /\ allBloops = seed /\ globalBloops = seed
      /\ clientBloops = [c \in Clients |-> OfClient(seed, c)]
      /\ addedAt = now
  BY DEF BloopInit
<1>2. \A c \in Clients : OfClient(seed, c) \in Seq(Bloop)
  BY OfClientFacts
<1>3. BloopTypeOK
  BY <1>1, <1>2 DEF BloopTypeOK
<1>4. ASSUME NEW h \in Seq(Bloop) PROVE IsWindow(h, h, addedAt)
  <2>1. Begins(h, h) /\ \A i \in DOMAIN h : ~(i > Len(h))
    BY DEF Begins
  <2> QED BY <2>1, PrefixIsBegin DEF IsWindow
<1>5. NothingRecentForgotten
  BY <1>1, <1>2, <1>4 DEF NothingRecentForgotten
<1>6. ClientViewCoversGlobal
  BY <1>1, <1>2, <1>4 DEF ClientViewCoversGlobal, IsWindow
<1> QED BY <1>1, <1>3, <1>5, <1>6 DEF CollectionsInv

(* The provider starts with what was stored before.                         *)
LEMMA ProviderInitInv == ProviderInit => ProviderInv
<1> SUFFICES ASSUME ProviderInit PROVE ProviderInv
  OBVIOUS
<1>1. PICK seed \in BoundedSeq(Bloop, MaxSeed) :
        /\ NewestFirst(seed) /\ \A i \in DOMAIN seed : seed[i].at <= now
        /\ BloopInit(seed)
  BY DEF ProviderInit
<1>2. seed \in Seq(Bloop)
  <2>1. PICK m \in 0..MaxSeed : seed \in [1..m -> Bloop]
    BY DEF BoundedSeq, SeqOf
  <2>2. m \in Nat
    BY <2>1, MaxSeedAssumption
  <2> QED BY <2>1, <2>2
<1>3. ClockTypeOK /\ now \in 0..MaxTime /\ addedAt = now /\ addedAt <= now
  BY <1>1, MaxTimeAssumption DEF ProviderInit, ClockTypeOK, BloopInit
<1> QED BY <1>1, <1>2, <1>3, StoredCollections DEF ProviderInv

(* Record adds a bloop that was made since the last one was added.          *)
LEMMA RecordAdds ==
    ASSUME now \in 0..MaxTime, addedAt \in 0..MaxTime, Record
    PROVE  \E b \in Bloop : AddBloop(b) /\ addedAt <= b.at /\ b.at <= now /\ now' = now
<1>1. PICK p \in Pids, c \in Clients, at \in addedAt..now :
        AddBloop([pid |-> p, client |-> c, at |-> at]) /\ now' = now
  BY DEF Record
<1> DEFINE b == [pid |-> p, client |-> c, at |-> at]
<1>2. at \in 0..MaxTime /\ addedAt <= at /\ at <= now
  BY MaxTimeAssumption
<1>3. b \in Bloop /\ b.at = at
  BY <1>2 DEF Bloop
<1>4. AddBloop(b)
  BY <1>1
<1> HIDE DEF b
<1> QED BY <1>1, <1>2, <1>3, <1>4

(* Recording a bloop, and time, keep the invariant.                         *)
LEMMA ProviderStep ==
    ASSUME ProviderInv, [ProviderNext]_<<now, bloopVars>>
    PROVE  ProviderInv'
<1> USE DEF ProviderInv, ClockTypeOK
<1>1. now \in Nat /\ now \in 0..MaxTime /\ addedAt \in 0..MaxTime /\ addedAt \in Nat
  BY MaxTimeAssumption DEF CollectionsInv, BloopTypeOK
<1>2. CASE Record
  <2>1. PICK b \in Bloop : AddBloop(b) /\ addedAt <= b.at /\ b.at <= now /\ now' = now
    BY <1>1, <1>2, RecordAdds
  <2>2. CollectionsInv'
    BY <1>1, <2>1, AddKeepsCollections
  <2>3. addedAt' = now
    BY <2>1 DEF AddBloop
  <2> QED BY <1>1, <2>1, <2>2, <2>3
<1>3. CASE now' = now /\ UNCHANGED bloopVars
  BY <1>3, StutterKeepsCollections DEF bloopVars
<1>4. CASE Tick /\ UNCHANGED bloopVars
  <2>1. now' = now + 1 /\ now' \in 0..MaxTime /\ addedAt' = addedAt
    BY <1>1, <1>4, MaxTimeAssumption DEF Tick, bloopVars
  <2>2. CollectionsInv'
    BY <1>4, StutterKeepsCollections
  <2> QED BY <1>1, <2>1, <2>2
<1> QED BY <1>2, <1>3, <1>4 DEF ProviderNext

(* What the theorems below are read from.                                   *)
LEMMA ProviderInvariant == ProviderSpec => []ProviderInv
<1>1. ProviderInv /\ [ProviderNext]_<<now, bloopVars>> => ProviderInv'
  BY ProviderStep
<1> QED BY <1>1, ProviderInitInv, PTL DEF ProviderSpec

(* The collections forget only bloops older than max_age and only the       *)
(* oldest ones, globally and per client, although each is pruned at its own *)
(* times.                                                                   *)
THEOREM RecentBloopsAreRemembered == ProviderSpec => []NothingRecentForgotten
<1>1. ProviderInv => NothingRecentForgotten
  BY DEF ProviderInv, CollectionsInv
<1> QED BY <1>1, ProviderInvariant, PTL

(* global() never shows a bloop of a client, or an order of its bloops,     *)
(* that for_client() does not.                                              *)
THEOREM ClientViewsCoverGlobal == ProviderSpec => []ClientViewCoversGlobal
<1>1. ProviderInv => ClientViewCoversGlobal
  BY DEF ProviderInv, CollectionsInv
<1> QED BY <1>1, ProviderInvariant, PTL

(* A collection that is added to keeps nothing older than max_age, for any  *)
(* number of bloops that ran out at once.                                   *)
THEOREM AddingPrunes == ProviderSpec => PrunedOnAdd
<1> DEFINE A(c) ==
      Len(OfClient(allBloops', c)) > Len(OfClient(allBloops, c)) =>
        /\ \A i \in 2..Len(clientBloops'[c]) : clientBloops'[c][i].at + MaxAge >= now
        /\ \A i \in 2..Len(globalBloops') : globalBloops'[i].at + MaxAge >= now
<1>1. ASSUME ProviderInv, [ProviderNext]_<<now, bloopVars>>, NEW c \in Clients,
             ~UNCHANGED <<now, bloopVars>>
      PROVE  A(c)
  <2> SUFFICES ASSUME Len(OfClient(allBloops', c)) > Len(OfClient(allBloops, c))
               PROVE  /\ \A i \in 2..Len(clientBloops'[c]) : clientBloops'[c][i].at + MaxAge >= now
                      /\ \A i \in 2..Len(globalBloops') : globalBloops'[i].at + MaxAge >= now
    OBVIOUS
  <2>1. now \in Nat
    BY <1>1, MaxTimeAssumption DEF ProviderInv, ClockTypeOK
  <2>2. /\ globalBloops \in Seq(Bloop) /\ clientBloops[c] \in Seq(Bloop) /\ allBloops \in Seq(Bloop)
        /\ NewestFirst(globalBloops) /\ NewestFirst(clientBloops[c])
        /\ OfClient(allBloops, c) \in Seq(Bloop)
        /\ clientBloops \in [Clients -> Seq(Bloop)]
    BY <1>1, CollectionsNewestFirst DEF ProviderInv, CollectionsInv, BloopTypeOK
  <2>3. allBloops' # allBloops
    BY <2>2
  <2>4. Record
    BY <1>1, <2>3 DEF ProviderNext, bloopVars
  <2>5. PICK b \in Bloop : AddBloop(b)
    BY <1>1, <2>4, RecordAdds DEF ProviderInv, ClockTypeOK, CollectionsInv, BloopTypeOK
  <2>6. c = b.client
    BY <2>2, <2>5, OfClientFacts DEF AddBloop
  <2>7. clientBloops'[c] = Pushed(clientBloops[c], b) /\ globalBloops' = Pushed(globalBloops, b)
    BY <2>2, <2>5, <2>6 DEF AddBloop
  <2> QED BY <2>1, <2>2, <2>7, PushedIsPruned
<1>2. ProviderInv /\ [ProviderNext]_<<now, bloopVars>> =>
        [\A c \in Clients :
            Len(OfClient(allBloops', c)) > Len(OfClient(allBloops, c)) =>
              /\ \A i \in 2..Len(clientBloops'[c]) : clientBloops'[c][i].at + MaxAge >= now
              /\ \A i \in 2..Len(globalBloops') : globalBloops'[i].at + MaxAge >= now]_<<now, bloopVars>>
  BY <1>1
<1> QED BY <1>2, ProviderInvariant, PTL DEF ProviderSpec, PrunedOnAdd
=============================================================================
