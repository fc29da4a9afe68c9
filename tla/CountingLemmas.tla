--------------------------- MODULE CountingLemmas ---------------------------
(* Lemmas about what the specifications count with: natural numbers, the    *)
(* entries of a sequence that are in a set, sums over finite sets, and      *)
(* quotients.                                                               *)
EXTENDS Integers, Sequences, FiniteSets, FiniteSetsExt, FiniteSetTheorems, TLAPS

(* Every set of natural numbers that is not empty has a least member.       *)
LEMMA NatLeast ==
    ASSUME NEW T, T \subseteq Nat, T # {}
    PROVE  \E x \in T : \A y \in T : x <= y
<1>1. PICK x \in T : \A y \in T : <<y, x>> \notin OpToRel(<, Nat)
  BY NatLessThanWellFounded, WFMin, Zenon
<1>2. \A y \in T : ~(y < x)
  BY <1>1 DEF OpToRel
<1> QED BY <1>2

(* Induction over the natural numbers, stated for a set: the least number   *)
(* outside of it would be neither zero nor a successor.                     *)
LEMMA NatSetInduction ==
    ASSUME NEW P, 0 \in P, \A n \in Nat : n \in P => n + 1 \in P
    PROVE  \A n \in Nat : n \in P
<1> DEFINE T == {n \in Nat : n \notin P}
<1>1. SUFFICES ASSUME T # {} PROVE FALSE
  OBVIOUS
<1>2. PICK x \in T : \A y \in T : x <= y
  BY <1>1, NatLeast
<1>3. x # 0 /\ x - 1 \in Nat /\ ~(x <= x - 1)
  OBVIOUS
<1>4. x - 1 \in P
  BY <1>2, <1>3
<1> QED BY <1>3, <1>4

-----------------------------------------------------------------------------
(* The entries of q that are in S.                                          *)
Entries(q, S) == {i \in DOMAIN q : q[i] \in S}

(* There are finitely many of them, and in a smaller set fewer.             *)
LEMMA EntriesCounted ==
    ASSUME NEW B, NEW q \in Seq(B), NEW S
    PROVE  /\ IsFiniteSet(Entries(q, S)) /\ Cardinality(Entries(q, S)) \in Nat
           /\ \A T \in SUBSET S : Cardinality(Entries(q, T)) <= Cardinality(Entries(q, S))
<1>1. IsFiniteSet(DOMAIN q)
  BY FS_Interval
<1>2. IsFiniteSet(Entries(q, S))
  <2>1. Entries(q, S) \in SUBSET DOMAIN q
    BY DEF Entries
  <2> QED BY <1>1, <2>1, FS_Subset
<1>3. ASSUME NEW T \in SUBSET S PROVE Cardinality(Entries(q, T)) <= Cardinality(Entries(q, S))
  <2>1. Entries(q, T) \in SUBSET Entries(q, S)
    BY DEF Entries
  <2> QED BY <1>2, <2>1, FS_Subset
<1> QED BY <1>2, <1>3, FS_CardinalityType

(* One entry more counts once, if it is in the set.                         *)
LEMMA AppendCounted ==
    ASSUME NEW B, NEW q \in Seq(B), NEW e \in B, NEW S
    PROVE  /\ e \in S => Cardinality(Entries(Append(q, e), S)) = Cardinality(Entries(q, S)) + 1
           /\ e \notin S => Entries(Append(q, e), S) = Entries(q, S)
<1> DEFINE r == Append(q, e)
<1>1. /\ DOMAIN r = 1..(Len(q) + 1) /\ DOMAIN q = 1..Len(q) /\ Len(q) \in Nat
      /\ r[Len(q) + 1] = e /\ \A i \in 1..Len(q) : r[i] = q[i]
  OBVIOUS
<1>2. DOMAIN r = DOMAIN q \cup {Len(q) + 1} /\ Len(q) + 1 \notin DOMAIN q
  BY <1>1
<1> HIDE DEF r
<1>3. ASSUME e \in S PROVE Cardinality(Entries(r, S)) = Cardinality(Entries(q, S)) + 1
  <2>1. Entries(r, S) = Entries(q, S) \cup {Len(q) + 1}
    BY <1>1, <1>2, <1>3 DEF Entries
  <2>2. Len(q) + 1 \notin Entries(q, S)
    BY <1>2 DEF Entries
  <2>3. IsFiniteSet(Entries(q, S))
    BY EntriesCounted
  <2> QED BY <2>1, <2>2, <2>3, FS_AddElement
<1>4. ASSUME e \notin S PROVE Entries(r, S) = Entries(q, S)
  BY <1>1, <1>2, <1>4 DEF Entries
<1> QED BY <1>3, <1>4 DEF r

(* The same for an entry that is put in front of the others.                *)
LEMMA PrependCounted ==
    ASSUME NEW B, NEW q \in Seq(B), NEW e \in B, NEW S
    PROVE  /\ e \in S => Cardinality(Entries(<<e>> \o q, S)) = Cardinality(Entries(q, S)) + 1
           /\ e \notin S => Cardinality(Entries(<<e>> \o q, S)) = Cardinality(Entries(q, S))
<1> DEFINE r == <<e>> \o q
<1> DEFINE E == Entries(q, S)
<1> DEFINE F == {i + 1 : i \in E}
<1> DEFINE f == [i \in E |-> i + 1]
<1>1. /\ DOMAIN r = 1..(Len(q) + 1) /\ DOMAIN q = 1..Len(q) /\ Len(q) \in Nat
      /\ r[1] = e /\ \A i \in 1..Len(q) : r[i + 1] = q[i]
  OBVIOUS
<1>2. E \subseteq 1..Len(q) /\ \A i \in E : i \in Nat
  BY <1>1 DEF Entries
<1>3. \A j \in DOMAIN r : j = 1 \/ (j - 1 \in 1..Len(q) /\ j = (j - 1) + 1)
  BY <1>1
<1>4. \A i \in 1..Len(q) : i + 1 \in DOMAIN r
  BY <1>1
<1> HIDE DEF r
<1>5. \A j \in DOMAIN r : j # 1 => (r[j] \in S <=> j \in F)
  <2> SUFFICES ASSUME NEW j \in DOMAIN r, j # 1 PROVE r[j] \in S <=> j \in F
    OBVIOUS
  <2>1. j - 1 \in DOMAIN q /\ r[j] = q[j - 1] /\ j - 1 \in 1..Len(q) /\ j \in Int
    BY <1>1, <1>3
  <2>2. j \in F <=> j - 1 \in E
    BY <1>2, <2>1
  <2> QED BY <2>1, <2>2 DEF Entries
<1>6. F \subseteq DOMAIN r /\ 1 \notin F /\ 1 \in DOMAIN r
  BY <1>1, <1>2, <1>4
<1>7. IsFiniteSet(F) /\ Cardinality(F) = Cardinality(E)
  <2>1. f \in Bijection(E, F)
    BY <1>2 DEF Bijection, Injection, Surjection, IsInjective
  <2>2. ExistsBijection(E, F)
    BY <2>1 DEF ExistsBijection
  <2>3. IsFiniteSet(E)
    BY EntriesCounted
  <2> HIDE DEF E, F
  <2> QED BY <2>2, <2>3, FS_Bijection
<1>8. ASSUME e \in S PROVE Entries(r, S) = F \cup {1}
  BY <1>1, <1>5, <1>6, <1>8 DEF Entries
<1>9. ASSUME e \notin S PROVE Entries(r, S) = F
  BY <1>1, <1>5, <1>6, <1>9 DEF Entries
<1> HIDE DEF F, E
<1> QED BY <1>6, <1>7, <1>8, <1>9, FS_AddElement DEF r, E

(* Induction over the subsets of a finite set, stated for a set of them.    *)
LEMMA SubsetInduction ==
    ASSUME NEW S, IsFiniteSet(S), NEW Q, {} \in Q,
           \A s \in SUBSET S : s # {} /\ (\A x \in s : s \ {x} \in Q) => s \in Q
    PROVE  \A s \in SUBSET S : s \in Q
<1> DEFINE P == {n \in Nat : \A s \in SUBSET S : Cardinality(s) = n => s \in Q}
<1>1. \A s \in SUBSET S : IsFiniteSet(s) /\ Cardinality(s) \in Nat
  BY FS_Subset, FS_CardinalityType
<1>2. 0 \in P
  BY <1>1, FS_EmptySet
<1>3. ASSUME NEW n \in Nat, n \in P PROVE n + 1 \in P
  <2> SUFFICES ASSUME NEW s \in SUBSET S, Cardinality(s) = n + 1 PROVE s \in Q
    OBVIOUS
  <2>1. s # {}
    <3>1. Cardinality({}) = 0
      BY FS_EmptySet
    <3> QED BY <3>1
  <2>2. ASSUME NEW x \in s PROVE s \ {x} \in Q
    <3>1. s \ {x} \in SUBSET S /\ Cardinality(s \ {x}) = n
      BY <1>1, FS_RemoveElement
    <3> QED BY <1>3, <3>1
  <2> QED BY <2>1, <2>2
<1> HIDE DEF P
<1>4. \A n \in Nat : n \in P
  BY <1>2, <1>3, NatSetInduction
<1> QED BY <1>1, <1>4 DEF P

-----------------------------------------------------------------------------
(* The sum of w over S, as MapThenSumSet computes it: the elements in the   *)
(* order CHOOSE picks them.                                                 *)
Pick(s) == CHOOSE x \in s : TRUE

Summing(w, S, g) == [s \in SUBSET S |-> IF s = {} THEN 0 ELSE w[Pick(s)] + g[s \ {Pick(s)}]]

Partial(w, S) == CHOOSE g : g = Summing(w, S, g)

SumOver(w, S) == Partial(w, S)[S]

(* A member of the set is picked.                                           *)
LEMMA Picked ==
    ASSUME NEW s, s # {}
    PROVE  Pick(s) \in s
  BY DEF Pick

(* The sum depends on what w is on S only.                                  *)
LEMMA SumSame ==
    ASSUME NEW S, NEW w, NEW v, \A x \in S : w[x] = v[x]
    PROVE  SumOver(w, S) = SumOver(v, S)
<1>1. ASSUME NEW g PROVE Summing(w, S, g) = Summing(v, S, g)
  BY Picked DEF Summing
<1>2. Partial(w, S) = Partial(v, S)
  <2>1. \A g : g = Summing(w, S, g) <=> g = Summing(v, S, g)
    BY <1>1
  <2> HIDE DEF Summing
  <2> QED BY <2>1 DEF Partial
<1> QED BY <1>2 DEF SumOver

(* MapThenSumSet is that sum.                                               *)
LEMMA SumOfMap ==
    ASSUME NEW S, NEW f(_)
    PROVE  MapThenSumSet(f, S) = SumOver([x \in S |-> f(x)], S)
<1> DEFINE w == [x \in S |-> f(x)]
<1> DEFINE F(g) == [s \in SUBSET S |-> IF s = {} THEN 0 ELSE f(Pick(s)) + g[s \ {Pick(s)}]]
<1>1. MapThenSumSet(f, S) = (CHOOSE g : g = F(g))[S]
  BY DEF MapThenSumSet, MapThenFoldSet, Pick
<1>2. ASSUME NEW g PROVE F(g) = Summing(w, S, g)
  BY Picked DEF Summing
<1> HIDE DEF w, F
<1>3. \A g : g = F(g) <=> g = Summing(w, S, g)
  BY <1>2
<1>4. (CHOOSE g : g = F(g)) = Partial(w, S)
  <2> HIDE DEF Summing
  <2> QED BY <1>3 DEF Partial
<1> QED BY <1>1, <1>4 DEF SumOver, w

(* The subsets of S with at most n elements, and the sums over them.        *)
Upto(S, n) == {s \in SUBSET S : Cardinality(s) <= n}

SummingUpto(w, S, n, g) == [s \in Upto(S, n) |-> IF s = {} THEN 0 ELSE w[Pick(s)] + g[s \ {Pick(s)}]]

(* The recursion of the sum defines a function.                             *)
LEMMA SumExists ==
    ASSUME NEW S, IsFiniteSet(S), NEW w
    PROVE  Partial(w, S) = Summing(w, S, Partial(w, S))
<1> DEFINE P == {n \in Nat : \E g : g = SummingUpto(w, S, n, g)}
<1>1. \A s \in SUBSET S : IsFiniteSet(s) /\ Cardinality(s) \in Nat /\ Cardinality(s) <= Cardinality(S)
  BY FS_Subset, FS_CardinalityType
<1>2. 0 \in P
  <2>1. \A s \in Upto(S, 0) : s = {}
    BY <1>1, FS_EmptySet DEF Upto
  <2> DEFINE g == [s \in Upto(S, 0) |-> 0]
  <2>2. g = SummingUpto(w, S, 0, g)
    BY <2>1 DEF SummingUpto
  <2> QED BY <2>2
<1>3. ASSUME NEW n \in Nat, n \in P PROVE n + 1 \in P
  <2>1. PICK g : g = SummingUpto(w, S, n, g)
    BY <1>3
  <2> DEFINE h == SummingUpto(w, S, n + 1, g)
  <2>2. \A t \in Upto(S, n) : t \in Upto(S, n + 1)
    BY <1>1 DEF Upto
  <2>3. ASSUME NEW t \in Upto(S, n) PROVE h[t] = g[t]
    <3>1. h[t] = IF t = {} THEN 0 ELSE w[Pick(t)] + g[t \ {Pick(t)}]
      BY <2>2 DEF SummingUpto
    <3>2. g[t] = IF t = {} THEN 0 ELSE w[Pick(t)] + g[t \ {Pick(t)}]
      BY <2>1 DEF SummingUpto
    <3> QED BY <3>1, <3>2
  <2>4. ASSUME NEW s \in Upto(S, n + 1), s # {} PROVE s \ {Pick(s)} \in Upto(S, n)
    <3>1. Pick(s) \in s /\ s \in SUBSET S /\ Cardinality(s) <= n + 1
      BY <2>4, Picked DEF Upto
    <3>2. Cardinality(s \ {Pick(s)}) = Cardinality(s) - 1
      BY <1>1, <3>1, FS_RemoveElement
    <3> QED BY <1>1, <3>1, <3>2 DEF Upto
  <2>5. \A s \in Upto(S, n + 1) :
          (IF s = {} THEN 0 ELSE w[Pick(s)] + g[s \ {Pick(s)}])
            = (IF s = {} THEN 0 ELSE w[Pick(s)] + h[s \ {Pick(s)}])
    BY <2>3, <2>4
  <2>6. h = SummingUpto(w, S, n + 1, h)
    <3> HIDE DEF h
    <3>1. h = SummingUpto(w, S, n + 1, g)
      BY DEF h
    <3> QED BY <2>5, <3>1 DEF SummingUpto
  <2> QED BY <2>6
<1> HIDE DEF P
<1>4. \A n \in Nat : n \in P
  BY <1>2, <1>3, NatSetInduction
<1>5. Cardinality(S) \in Nat
  BY <1>1
<1>6. PICK g : g = SummingUpto(w, S, Cardinality(S), g)
  BY <1>4, <1>5 DEF P
<1>7. Upto(S, Cardinality(S)) = SUBSET S
  BY <1>1 DEF Upto
<1>8. g = Summing(w, S, g)
  BY <1>6, <1>7 DEF SummingUpto, Summing
<1> HIDE DEF Summing
<1> QED BY <1>8 DEF Partial

(* The sums over the subsets of a set, of numbers.                          *)
LEMMA PartialSums ==
    ASSUME NEW S, IsFiniteSet(S), NEW w, \A x \in S : w[x] \in Nat
    PROVE  /\ Partial(w, S)[{}] = 0
           /\ \A s \in SUBSET S : Partial(w, S)[s] \in Nat
           /\ \A s \in SUBSET S : \A x \in s : Partial(w, S)[s] = w[x] + Partial(w, S)[s \ {x}]
<1> DEFINE g == Partial(w, S)
<1>1. g = Summing(w, S, g)
  BY SumExists
<1> HIDE DEF g
<1>2. g[{}] = 0
  BY <1>1 DEF Summing
<1>3. \A s \in SUBSET S : s # {} => Pick(s) \in s /\ g[s] = w[Pick(s)] + g[s \ {Pick(s)}]
  BY <1>1, Picked DEF Summing
<1>4. \A s \in SUBSET S : g[s] \in Nat
  <2> DEFINE Q == {s \in SUBSET S : g[s] \in Nat}
  <2>1. {} \in Q
    BY <1>2
  <2>2. ASSUME NEW s \in SUBSET S, s # {}, \A x \in s : s \ {x} \in Q PROVE s \in Q
    <3>1. Pick(s) \in s /\ g[s] = w[Pick(s)] + g[s \ {Pick(s)}]
      BY <1>3, <2>2
    <3>2. g[s \ {Pick(s)}] \in Nat /\ w[Pick(s)] \in Nat
      BY <2>2, <3>1
    <3> QED BY <3>1, <3>2
  <2>3. \A s \in SUBSET S : s \in Q
    <3> HIDE DEF Q
    <3> QED BY <2>1, <2>2, SubsetInduction
  <2> QED BY <2>3
<1>5. \A s \in SUBSET S : \A x \in s : g[s] = w[x] + g[s \ {x}]
  <2> DEFINE Q == {s \in SUBSET S : \A x \in s : g[s] = w[x] + g[s \ {x}]}
  <2>1. {} \in Q
    OBVIOUS
  <2>2. ASSUME NEW s \in SUBSET S, s # {}, \A x \in s : s \ {x} \in Q PROVE s \in Q
    <3> SUFFICES ASSUME NEW x \in s PROVE g[s] = w[x] + g[s \ {x}]
      OBVIOUS
    <3> DEFINE y == Pick(s)
    <3>1. y \in s /\ g[s] = w[y] + g[s \ {y}]
      BY <1>3, <2>2
    <3> HIDE DEF y
    <3>2. CASE x = y
      BY <3>1, <3>2
    <3>3. CASE x # y
      <4>1. g[s \ {y}] = w[x] + g[(s \ {y}) \ {x}]
        BY <2>2, <3>1, <3>3
      <4>2. g[s \ {x}] = w[y] + g[(s \ {x}) \ {y}]
        BY <2>2, <3>1, <3>3
      <4>3. (s \ {x}) \ {y} = (s \ {y}) \ {x}
        OBVIOUS
      <4>4. w[x] \in Nat /\ w[y] \in Nat /\ g[(s \ {y}) \ {x}] \in Nat
        BY <1>4, <3>1
      <4>5. \A a, b, k \in Nat : b + (a + k) = a + (b + k)
        OBVIOUS
      <4>6. g[s] = w[y] + (w[x] + g[(s \ {y}) \ {x}]) /\ g[s \ {x}] = w[y] + g[(s \ {y}) \ {x}]
        BY <3>1, <4>1, <4>2, <4>3
      <4> QED BY <4>4, <4>5, <4>6
    <3> QED BY <3>2, <3>3
  <2>3. \A s \in SUBSET S : s \in Q
    <3> HIDE DEF Q
    <3> QED BY <2>1, <2>2, SubsetInduction
  <2> QED BY <2>3
<1> QED BY <1>2, <1>4, <1>5 DEF g

(* A sum is a number, and any element can be taken out of it.               *)
LEMMA SumSplit ==
    ASSUME NEW S, IsFiniteSet(S), NEW w, \A x \in S : w[x] \in Nat
    PROVE  /\ SumOver(w, S) \in Nat
           /\ \A x \in S : SumOver(w, S) = w[x] + SumOver(w, S \ {x})
<1> DEFINE g == Partial(w, S)
<1>1. /\ g[{}] = 0 /\ \A s \in SUBSET S : g[s] \in Nat
      /\ \A s \in SUBSET S : \A x \in s : g[s] = w[x] + g[s \ {x}]
  BY PartialSums
<1> HIDE DEF g
<1>2. ASSUME NEW x \in S PROVE g[S] = w[x] + SumOver(w, S \ {x})
  <2> DEFINE T == S \ {x}
  <2> DEFINE h == Partial(w, T)
  <2>1. IsFiniteSet(T) /\ T \in SUBSET S /\ \A y \in T : w[y] \in Nat
    BY FS_RemoveElement
  <2>2. /\ h[{}] = 0
        /\ \A s \in SUBSET T : \A y \in s : h[s] = w[y] + h[s \ {y}]
    <3> HIDE DEF T
    <3> QED BY <2>1, PartialSums
  <2> HIDE DEF h
  <2> DEFINE Q == {s \in SUBSET T : h[s] = g[s]}
  <2>3. {} \in Q
    BY <1>1, <2>2
  <2>4. ASSUME NEW s \in SUBSET T, s # {}, \A y \in s : s \ {y} \in Q PROVE s \in Q
    <3>1. PICK y : y \in s
      BY <2>4
    <3>2. h[s] = w[y] + h[s \ {y}] /\ g[s] = w[y] + g[s \ {y}] /\ h[s \ {y}] = g[s \ {y}]
      BY <1>1, <2>1, <2>2, <2>4, <3>1
    <3> QED BY <3>2
  <2>5. \A s \in SUBSET T : s \in Q
    <3> HIDE DEF Q, T
    <3> QED BY <2>1, <2>3, <2>4, SubsetInduction
  <2>6. h[T] = g[T]
    BY <2>5
  <2> QED BY <1>1, <2>6 DEF SumOver, h
<1> QED BY <1>1, <1>2 DEF SumOver, g

(* What is zero adds nothing to a sum.                                      *)
LEMMA SumZeros ==
    ASSUME NEW T, IsFiniteSet(T), NEW S \in SUBSET T, NEW w, \A x \in T : w[x] \in Nat,
           \A x \in T \ S : w[x] = 0
    PROVE  SumOver(w, T) = SumOver(w, S)
<1> DEFINE Z == T \ S
<1> DEFINE Q == {z \in SUBSET Z : SumOver(w, S \cup z) = SumOver(w, S)}
<1>1. IsFiniteSet(Z) /\ S \cup Z = T
  BY FS_Subset
<1>2. {} \in Q
  <2>1. S \cup {} = S
    OBVIOUS
  <2> QED BY <2>1
<1>3. ASSUME NEW z \in SUBSET Z, z # {}, \A x \in z : z \ {x} \in Q PROVE z \in Q
  <2>1. PICK x : x \in z
    BY <1>3
  <2> DEFINE U == S \cup z
  <2>2. IsFiniteSet(U) /\ x \in U /\ w[x] = 0 /\ \A y \in U : w[y] \in Nat
    <3>1. U \in SUBSET T
      OBVIOUS
    <3> QED BY <2>1, <3>1, FS_Subset
  <2>3. SumOver(w, S \cup (z \ {x})) = SumOver(w, S)
    BY <1>3, <2>1
  <2>4. U \ {x} = S \cup (z \ {x})
    BY <2>1
  <2>5. IsFiniteSet(U \ {x}) /\ \A y \in U \ {x} : w[y] \in Nat
    BY <2>2, FS_RemoveElement
  <2> HIDE DEF U
  <2>6. SumOver(w, U) = w[x] + SumOver(w, U \ {x})
    BY <2>2, SumSplit
  <2>7. SumOver(w, U \ {x}) \in Nat
    BY <2>5, SumSplit
  <2>8. SumOver(w, U) = SumOver(w, U \ {x})
    BY <2>2, <2>6, <2>7
  <2> QED BY <2>3, <2>4, <2>8 DEF U
<1>4. \A z \in SUBSET Z : z \in Q
  <2> HIDE DEF Q, Z
  <2> QED BY <1>1, <1>2, <1>3, SubsetInduction
<1>5. Z \in Q
  BY <1>4
<1> QED BY <1>1, <1>5

-----------------------------------------------------------------------------
(* Quotient and remainder.                                                  *)
LEMMA DivMod ==
    ASSUME NEW a \in Int, NEW b \in Nat \ {0}
    PROVE  /\ a \div b \in Int /\ a % b \in 0..(b - 1) /\ a = ((a \div b) * b) + (a % b)
           /\ a \in Nat => a \div b \in Nat
  OBVIOUS

(* They are the only ones.                                                  *)
LEMMA DivModUnique ==
    ASSUME NEW b \in Nat \ {0}, NEW q \in Int, NEW r \in 0..(b - 1), NEW p \in Int, NEW s \in 0..(b - 1),
           q * b + r = p * b + s
    PROVE  q = p /\ r = s
  OBVIOUS

(* A quotient grows with what is divided.                                   *)
LEMMA DivMonotone ==
    ASSUME NEW x \in Int, NEW y \in Int, NEW b \in Nat \ {0}, x <= y
    PROVE  x \div b <= y \div b
<1> DEFINE q == x \div b
<1> DEFINE p == y \div b
<1>1. /\ q \in Int /\ p \in Int /\ x % b \in 0..(b - 1) /\ y % b \in 0..(b - 1)
      /\ x = (q * b) + (x % b) /\ y = (p * b) + (y % b)
  BY DivMod
<1> HIDE DEF q, p
<1>2. ASSUME p + 1 <= q PROVE FALSE
  <2>1. (p + 1) * b <= q * b
    BY <1>1, <1>2
  <2>2. (p + 1) * b = p * b + b
    BY <1>1
  <2>3. p * b \in Int /\ q * b \in Int
    BY <1>1
  <2> QED BY <1>1, <2>1, <2>2, <2>3
<1> QED BY <1>1, <1>2 DEF q, p

(* A digit of at most n and a remainder make up less than n whole units.    *)
LEMMA BelowProduct ==
    ASSUME NEW n \in Nat \ {0}, NEW b \in Nat \ {0}, NEW a \in 0..(n - 1), NEW s \in 0..(b - 1)
    PROVE  a * b + s \in 0..(n * b - 1)
<1>1. (n - 1) * b = n * b - b /\ n * b \in Nat /\ a * b \in Nat
  OBVIOUS
<1>2. a * b <= (n - 1) * b
  OBVIOUS
<1> QED BY <1>1, <1>2

(* And the other way round.                                                 *)
LEMMA QuotientBelow ==
    ASSUME NEW n \in Nat \ {0}, NEW b \in Nat \ {0}, NEW q \in 0..(n * b - 1)
    PROVE  q \div b \in 0..(n - 1)
<1> DEFINE d == q \div b
<1>1. n * b \in Nat
  OBVIOUS
<1>2. q \in Nat /\ q \in Int /\ q < n * b
  BY <1>1
<1>3. d \in Nat /\ q % b \in 0..(b - 1) /\ q = d * b + (q % b)
  BY <1>2, DivMod
<1> HIDE DEF d
<1>4. ASSUME d >= n PROVE FALSE
  <2>1. d * b >= n * b /\ d * b \in Nat
    BY <1>3, <1>4
  <2> QED BY <1>1, <1>2, <1>3, <2>1
<1> QED BY <1>3, <1>4 DEF d
=============================================================================
