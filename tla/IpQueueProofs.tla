--------------------------- MODULE IpQueueProofs ---------------------------
(***************************************************************************)
(* What the intra-process queue promises for any number of producers,      *)
(* consumers, arrays and pushes, and any limits.                           *)
(***************************************************************************)
EXTENDS IpQueue, SequenceTheorems, FiniteSetTheorems, WellFoundedInduction,
        NaturalsInduction, TLAPS

-----------------------------------------------------------------------------
(* Sequences: what remains of a slice after an append and after a popOne.  *)

\* An append to the slice is an append to what popOne has left of it.
LEMMA RestOfAppend ==
  ASSUME NEW S, NEW s \in Seq(S), NEW e \in S, NEW m \in Nat, m <= Len(s)
  PROVE  SubSeq(Append(s, e), m + 1, Len(s) + 1)
           = Append(SubSeq(s, m + 1, Len(s)), e)
<1>1. /\ Append(s, e) \in Seq(S) /\ Len(Append(s, e)) = Len(s) + 1
      /\ Len(s) \in Nat /\ Append(s, e)[Len(s) + 1] = e
  OBVIOUS
<1>2. SubSeq(Append(s, e), m + 1, Len(s) + 1)
        = SubSeq(Append(s, e), m + 1, Len(s)) \o <<e>>
  <2>1. /\ m + 1 \in 1 .. Len(Append(s, e))
        /\ Len(s) + 1 \in m + 1 .. Len(Append(s, e))
        /\ (Len(s) + 1) - 1 = Len(s)
    BY <1>1
  <2> QED
    BY <1>1, <2>1, SubSeqRecursiveSecond
<1>3. /\ SubSeq(Append(s, e), m + 1, Len(s)) = SubSeq(s, m + 1, Len(s))
      /\ SubSeq(s, m + 1, Len(s)) \in Seq(S)
  OBVIOUS
<1>4. SubSeq(s, m + 1, Len(s)) \o <<e>> = Append(SubSeq(s, m + 1, Len(s)), e)
  BY <1>3, AppendIsConcat
<1> QED
  BY <1>2, <1>3, <1>4

\* Moving the entry at m + 1 from the queued part to the taken part.
LEMMA RestOfPopOne ==
  ASSUME NEW S, NEW a \in Seq(S), NEW s \in Seq(S), NEW m \in Nat, m < Len(s)
  PROVE  a \o SubSeq(s, m + 1, Len(s))
           = Append(a, s[m + 1]) \o SubSeq(s, m + 2, Len(s))
<1> DEFINE P == SubSeq(s, m + 1, Len(s))
           Q == SubSeq(s, m + 2, Len(s))
           x == s[m + 1]
<1>1. /\ Len(s) \in Nat /\ m + 1 \in 1 .. Len(s) /\ Len(s) \in m + 1 .. Len(s)
      /\ (m + 1) + 1 = m + 2 /\ x \in S
  OBVIOUS
<1>2. Q \in Seq(S) /\ <<x>> \in Seq(S)
  BY <1>1
<1>3. P = <<x>> \o Q
  BY <1>1, SubSeqRecursiveFirst
<1> HIDE DEF P, Q, x
<1>4. Append(a, x) = a \o <<x>>
  BY <1>1, AppendIsConcat
<1>5. (a \o <<x>>) \o Q = a \o (<<x>> \o Q)
  BY <1>2, ConcatAssociative
<1>6. a \o P = Append(a, x) \o Q
  BY <1>3, <1>4, <1>5
<1> QED
  BY <1>6 DEF P, Q, x

-----------------------------------------------------------------------------
(***************************************************************************)
(* Sums.  SumFunction folds over the domain in an order of its own; that   *)
(* it adds up is shown by counting: x stands for w[x] units.               *)
(***************************************************************************)
Units(w, S) == UNION {{x} \X (1 .. w[x]) : x \in S}

SumStep(f, w, S) ==
    [s \in SUBSET S |-> IF s = {} THEN 0
                        ELSE w[CHOOSE x \in s : TRUE] + f[s \ {CHOOSE x \in s : TRUE}]]
Sums(w, S) == CHOOSE f : f = SumStep(f, w, S)

\* The recursive function within the fold.
LEMMA SumUnfolded == ASSUME NEW w, NEW S PROVE SumFunctionOnSet(w, S) = Sums(w, S)[S]
  BY DEF SumFunctionOnSet, FoldFunctionOnSet, MapThenFoldSet, Sums, SumStep

\* A nonempty set of naturals has a least element.
LEMMA LeastNumber ==
    ASSUME NEW A \in SUBSET Nat, A # {}
    PROVE  \E a \in A : \A b \in A : a <= b
  <1> DEFINE R == {ss \in Nat \X Nat : ss[1] < ss[2]}
  <1>1. IsWellFoundedOn(R, Nat)
    BY NatLessThanWellFounded DEF OpToRel
  <1>2. \A x, y \in Nat : <<y, x>> \notin R => x <= y
    OBVIOUS
  <1> HIDE DEF R
  <1>3. \E x \in A : \A y \in A : ~(<<y, x>> \in R)
    BY <1>1, WFMin
  <1>4. QED
    BY <1>2, <1>3

\* The units of T are those of x and those of the others.
LEMMA UnitsOfOne ==
    ASSUME NEW T, NEW w, NEW x \in T, w[x] \in Nat
    PROVE  /\ Units(w, T) = Units(w, T \ {x}) \cup ({x} \X (1 .. w[x]))
           /\ Units(w, T \ {x}) \cap ({x} \X (1 .. w[x])) = {}
           /\ IsFiniteSet({x} \X (1 .. w[x]))
           /\ Cardinality({x} \X (1 .. w[x])) = w[x]
  <1>1. Units(w, T) = Units(w, T \ {x}) \cup ({x} \X (1 .. w[x]))
    BY DEF Units
  <1>2. Units(w, T \ {x}) \cap ({x} \X (1 .. w[x])) = {}
    BY DEF Units
  <1>3. IsFiniteSet({x}) /\ Cardinality({x}) = 1
    BY FS_Singleton, Zenon
  <1>4. IsFiniteSet(1 .. w[x]) /\ Cardinality(1 .. w[x]) = w[x]
    BY FS_Interval
  <1>5. IsFiniteSet({x} \X (1 .. w[x])) /\ Cardinality({x} \X (1 .. w[x])) = 1 * w[x]
    BY <1>3, <1>4, FS_Product
  <1>6. QED
    BY <1>1, <1>2, <1>5, 1 * w[x] = w[x]

\* A finite set has finitely many units.
LEMMA UnitsFinite ==
    ASSUME NEW T, IsFiniteSet(T), NEW w \in [T -> Nat]
    PROVE  IsFiniteSet(Units(w, T))
  <1> DEFINE f == [x \in T |-> {x} \X (1 .. w[x])]
             R == {{x} \X (1 .. w[x]) : x \in T}
  <1>1. f \in Surjection(T, R)
    BY DEF Surjection
  <1>2. IsFiniteSet(R)
    BY <1>1, FS_Surjection
  <1>3. ASSUME NEW u \in R PROVE IsFiniteSet(u)
    <2>1. PICK x \in T : u = {x} \X (1 .. w[x])
      BY <1>3
    <2>2. w[x] \in Nat
      OBVIOUS
    <2>3. QED
      BY <2>1, <2>2, UnitsOfOne
  <1>4. IsFiniteSet(UNION R)
    BY <1>2, <1>3, FS_UNION
  <1>5. QED
    BY <1>4 DEF Units

\* The units of x can be counted apart.
LEMMA CountOne ==
    ASSUME NEW T, IsFiniteSet(T), NEW w \in [T -> Nat], NEW x \in T
    PROVE  Cardinality(Units(w, T)) = w[x] + Cardinality(Units(w, T \ {x}))
  <1>1. IsFiniteSet(T \ {x})
    BY FS_RemoveElement
  <1>2. IsFiniteSet(Units(w, T))
    BY UnitsFinite
  <1>3. Units(w, T \ {x}) \in SUBSET Units(w, T) /\ w[x] \in Nat
    BY DEF Units
  <1>4. IsFiniteSet(Units(w, T \ {x})) /\ Cardinality(Units(w, T \ {x})) \in Nat
    BY <1>2, <1>3, FS_Subset, FS_CardinalityType
  <1>5. PICK O : O = {x} \X (1 .. w[x])
    OBVIOUS
  <1>6. /\ IsFiniteSet(O) /\ Cardinality(O) = w[x]
        /\ Units(w, T) = Units(w, T \ {x}) \cup O
        /\ Units(w, T \ {x}) \cap O = {}
    BY <1>3, <1>5, UnitsOfOne
  <1>7. Cardinality(Units(w, T \ {x}) \cup O)
          = Cardinality(Units(w, T \ {x})) + Cardinality(O) - Cardinality(Units(w, T \ {x}) \cap O)
    BY <1>4, <1>6, FS_Union
  <1>8. Cardinality(Units(w, T \ {x}) \cap O) = 0
    BY <1>6, FS_EmptySet
  <1>9. QED
    BY <1>3, <1>4, <1>6, <1>7, <1>8

\* A sum is the number of its units, in whatever order the fold takes them.
LEMMA SumIsCount ==
    ASSUME NEW S, IsFiniteSet(S), NEW w \in [S -> Nat]
    PROVE  SumFunctionOnSet(w, S) = Cardinality(Units(w, S))
  <1> DEFINE g == [s \in SUBSET S |-> Cardinality(Units(w, s))]
             f == Sums(w, S)
             first(s) == CHOOSE x \in s : TRUE
  <1>1. ASSUME NEW s \in SUBSET S, NEW x \in s
        PROVE  /\ IsFiniteSet(s)
               /\ Cardinality(Units(w, s)) = w[x] + Cardinality(Units(w, s \ {x}))
    <2>1. IsFiniteSet(s)
      BY FS_Subset
    <2>2. PICK v : v = [y \in s |-> w[y]]
      OBVIOUS
    <2>3. v \in [s -> Nat] /\ Units(w, s) = Units(v, s) /\ Units(w, s \ {x}) = Units(v, s \ {x}) /\ v[x] = w[x]
      BY <2>2 DEF Units
    <2>4. Cardinality(Units(v, s)) = v[x] + Cardinality(Units(v, s \ {x}))
      BY <2>1, <2>3, CountOne
    <2>5. QED
      BY <2>1, <2>3, <2>4
  <1>2. Cardinality(Units(w, {})) = 0
    <2>1. Units(w, {}) = {}
      BY DEF Units
    <2>2. QED
      BY <2>1, FS_EmptySet
  <1>3. ASSUME NEW s \in SUBSET S, s # {} PROVE first(s) \in s
    BY <1>3
  <1>4. ASSUME NEW s \in SUBSET S
        PROVE  g[s] = IF s = {} THEN 0 ELSE w[first(s)] + g[s \ {first(s)}]
    <2>1. CASE s = {}
      BY <1>2, <2>1
    <2>2. CASE s # {}
      <3>1. first(s) \in s /\ s \ {first(s)} \in SUBSET S
        BY <1>3, <2>2
      <3>2. Cardinality(Units(w, s)) = w[first(s)] + Cardinality(Units(w, s \ {first(s)}))
        BY <1>1, <3>1
      <3>3. QED
        BY <2>2, <3>1, <3>2
    <2>3. QED
      BY <2>1, <2>2
  <1>5. g = SumStep(g, w, S)
    BY <1>4 DEF SumStep
  <1>6. f = SumStep(f, w, S)
    BY <1>5 DEF Sums
  <1>7. ASSUME NEW s \in SUBSET S
        PROVE  f[s] = IF s = {} THEN 0 ELSE w[first(s)] + f[s \ {first(s)}]
    BY <1>6 DEF SumStep
  <1> HIDE DEF f
  <1>8. ASSUME NEW s0 \in SUBSET S, f[s0] # Cardinality(Units(w, s0)) PROVE FALSE
    <2> DEFINE A == {n \in Nat : \E s \in SUBSET S : Cardinality(s) = n /\ f[s] # Cardinality(Units(w, s))}
    <2>0. \A s \in SUBSET S : IsFiniteSet(s) /\ Cardinality(s) \in Nat
      BY FS_Subset, FS_CardinalityType
    <2>1. A \in SUBSET Nat /\ A # {}
      BY <1>8, <2>0
    <2>2. PICK a \in A : \A b \in A : a <= b
      BY <2>1, LeastNumber
    <2>3. PICK s \in SUBSET S : Cardinality(s) = a /\ f[s] # Cardinality(Units(w, s))
      BY <2>2
    <2>4. s # {}
      BY <1>2, <1>7, <2>3
    <2>5. PICK x : x = first(s)
      OBVIOUS
    <2>6. x \in s /\ s \ {x} \in SUBSET S
      BY <1>3, <2>4, <2>5
    <2>7. f[s] = w[x] + f[s \ {x}]
      BY <1>7, <2>4, <2>5
    <2>8. Cardinality(s \ {x}) = Cardinality(s) - 1
      BY <2>0, <2>6, FS_RemoveElement
    <2>9. a \in Nat /\ Cardinality(s \ {x}) \in Nat
      BY <2>0, <2>6
    <2>10. f[s \ {x}] = Cardinality(Units(w, s \ {x}))
      <3>1. a <= Cardinality(s \ {x}) => FALSE
        BY <2>3, <2>8, <2>9
      <3>2. Cardinality(s \ {x}) \notin A
        BY <2>2, <3>1, Zenon
      <3>3. QED
        BY <2>6, <2>9, <3>2
    <2>11. QED
      BY <1>1, <2>3, <2>6, <2>7, <2>10
  <1>9. f[S] = Cardinality(Units(w, S))
    BY <1>8
  <1>10. QED
    BY <1>9, SumUnfolded DEF f

\* The sum of a function on a finite set is a natural.
LEMMA SumNatural ==
    ASSUME NEW S, IsFiniteSet(S), NEW w \in [S -> Nat]
    PROVE  /\ SumFunction(w) = Cardinality(Units(w, S))
           /\ SumFunction(w) \in Nat
  <1>1. SumFunction(w) = SumFunctionOnSet(w, S)
    BY DEF SumFunction
  <1>2. Cardinality(Units(w, S)) \in Nat
    BY UnitsFinite, FS_CardinalityType
  <1>3. QED
    BY <1>1, <1>2, SumIsCount

\* Changing one summand changes the sum by the difference.
LEMMA SumUpdate ==
    ASSUME NEW S, IsFiniteSet(S), NEW w \in [S -> Nat], NEW v \in [S -> Nat],
           NEW x \in S, \A y \in S \ {x} : v[y] = w[y]
    PROVE  SumFunction(v) = SumFunction(w) - w[x] + v[x]
  <1>1. Units(v, S \ {x}) = Units(w, S \ {x})
    BY DEF Units
  <1>2. Cardinality(Units(w, S)) = w[x] + Cardinality(Units(w, S \ {x}))
    BY CountOne
  <1>3. Cardinality(Units(v, S)) = v[x] + Cardinality(Units(v, S \ {x}))
    BY CountOne
  <1>4. /\ SumFunction(w) = Cardinality(Units(w, S)) /\ SumFunction(w) \in Nat
        /\ SumFunction(v) = Cardinality(Units(v, S)) /\ SumFunction(v) \in Nat
    BY SumNatural
  <1>5. /\ IsFiniteSet(S \ {x})
        /\ Units(w, S \ {x}) \in SUBSET Units(w, S)
    BY FS_RemoveElement DEF Units
  <1>6. Cardinality(Units(w, S \ {x})) \in Nat
    BY <1>5, UnitsFinite, FS_Subset, FS_CardinalityType
  <1>7. w[x] \in Nat /\ v[x] \in Nat
    OBVIOUS
  <1>8. QED
    BY <1>1, <1>2, <1>3, <1>4, <1>6, <1>7

\* The sizes of the entries of a queue.
Sizes(s) == [k \in DOMAIN s |-> Calc(s[k])]

\* The size of a queue is a natural, and zero for an empty one.
LEMMA SumCalcType ==
    ASSUME NEW s \in Seq(Entries)
    PROVE  /\ Sizes(s) \in [1 .. Len(s) -> Nat]
           /\ IsFiniteSet(1 .. Len(s))
           /\ SumCalc(s) = Cardinality(Units(Sizes(s), 1 .. Len(s)))
           /\ SumCalc(s) \in Nat
           /\ s = <<>> => SumCalc(s) = 0
  <1>1. DOMAIN s = 1 .. Len(s) /\ Len(s) \in Nat /\ \A k \in 1 .. Len(s) : s[k] \in Entries
    OBVIOUS
  <1>2. Sizes(s) \in [1 .. Len(s) -> Nat]
    BY <1>1, CalcIsNatural DEF Sizes
  <1>3. IsFiniteSet(1 .. Len(s))
    BY <1>1, FS_Interval
  <1>4. SumCalc(s) = SumFunction(Sizes(s))
    BY DEF SumCalc, Sizes
  <1>5. SumCalc(s) = Cardinality(Units(Sizes(s), 1 .. Len(s))) /\ SumCalc(s) \in Nat
    BY <1>2, <1>3, <1>4, SumNatural
  <1>6. ASSUME s = <<>> PROVE SumCalc(s) = 0
    <2>1. Units(Sizes(s), 1 .. Len(s)) = {}
      BY <1>6 DEF Units
    <2>2. QED
      BY <1>5, <2>1, FS_EmptySet
  <1>7. QED
    BY <1>2, <1>3, <1>5, <1>6

\* An appended entry adds its size.
LEMMA SumCalcAppend ==
    ASSUME NEW s \in Seq(Entries), NEW e \in Entries
    PROVE  SumCalc(Append(s, e)) = SumCalc(s) + Calc(e)
  <1>0. Append(s, e) \in Seq(Entries)
    BY AppendProperties
  <1>1. PICK a \in Seq(Entries) : a = Append(s, e)
    BY <1>0, Zenon
  <1>2. /\ Len(s) \in Nat /\ Len(a) = Len(s) + 1 /\ a[Len(a)] = e
        /\ \A k \in 1 .. Len(s) : a[k] = s[k]
    BY <1>1
  <1>3. /\ 1 .. Len(s) = (1 .. Len(a)) \ {Len(a)} /\ Len(a) \in 1 .. Len(a)
    BY <1>2
  <1>4. Units(Sizes(a), (1 .. Len(a)) \ {Len(a)}) = Units(Sizes(s), 1 .. Len(s))
    <2>1. \A k \in 1 .. Len(s) : Sizes(a)[k] = Sizes(s)[k]
      BY <1>2 DEF Sizes
    <2>2. QED
      BY <1>3, <2>1 DEF Units
  <1>5. Cardinality(Units(Sizes(a), 1 .. Len(a)))
          = Sizes(a)[Len(a)] + Cardinality(Units(Sizes(a), (1 .. Len(a)) \ {Len(a)}))
    BY <1>3, SumCalcType, CountOne
  <1>6. Sizes(a)[Len(a)] = Calc(e) /\ Calc(e) \in Nat
    BY <1>2, <1>3, CalcIsNatural DEF Sizes
  <1>7. /\ SumCalc(a) = Cardinality(Units(Sizes(a), 1 .. Len(a)))
        /\ SumCalc(s) = Cardinality(Units(Sizes(s), 1 .. Len(s))) /\ SumCalc(s) \in Nat
    BY SumCalcType
  <1>8. QED
    BY <1>1, <1>4, <1>5, <1>6, <1>7

\* Taking the first entry takes its size.
LEMMA SumCalcFirst ==
    ASSUME NEW a \in Seq(Entries), NEW b \in Seq(Entries), Len(a) = Len(b) + 1,
           \A k \in 1 .. Len(b) : b[k] = a[k + 1]
    PROVE  SumCalc(a) = Calc(a[1]) + SumCalc(b)
  <1>1. Len(b) \in Nat /\ 1 \in 1 .. Len(a) /\ a[1] \in Entries
    OBVIOUS
  <1> DEFINE U == Units(Sizes(a), (1 .. Len(a)) \ {1})
             V == Units(Sizes(b), 1 .. Len(b))
             f == [u \in U |-> <<u[1] - 1, u[2]>>]
  <1>2. \A k \in 1 .. Len(b) : Sizes(b)[k] = Sizes(a)[k + 1] /\ k + 1 \in (1 .. Len(a)) \ {1}
    BY <1>1 DEF Sizes
  <1>3. \A k \in (1 .. Len(a)) \ {1} : k - 1 \in 1 .. Len(b) /\ (k - 1) + 1 = k
    BY <1>1
  <1>4. \A u \in U : /\ u = <<u[1], u[2]>> /\ u[1] \in (1 .. Len(a)) \ {1}
                     /\ u[2] \in 1 .. Sizes(a)[u[1]]
    BY DEF Units
  <1>5. \A k \in (1 .. Len(a)) \ {1} : \A j \in 1 .. Sizes(a)[k] : <<k, j>> \in U
    BY DEF Units
  <1>6. \A v \in V : /\ v = <<v[1], v[2]>> /\ v[1] \in 1 .. Len(b)
                     /\ v[2] \in 1 .. Sizes(b)[v[1]]
    BY DEF Units
  <1>7. \A k \in 1 .. Len(b) : \A j \in 1 .. Sizes(b)[k] : <<k, j>> \in V
    BY DEF Units
  <1> HIDE DEF U, V
  <1>8. f \in [U -> V]
    <2>1. ASSUME NEW u \in U PROVE <<u[1] - 1, u[2]>> \in V
      <3>1. u[1] \in (1 .. Len(a)) \ {1} /\ u[2] \in 1 .. Sizes(a)[u[1]]
        BY <1>4
      <3>2. PICK k \in 1 .. Len(b) : k = u[1] - 1 /\ k + 1 = u[1]
        BY <1>3, <3>1
      <3>3. u[2] \in 1 .. Sizes(b)[k]
        BY <1>2, <3>1, <3>2
      <3>4. QED
        BY <1>7, <3>2, <3>3
    <2>2. QED
      BY <2>1
  <1>9. f \in Injection(U, V)
    <2>1. ASSUME NEW u \in U, NEW t \in U, f[u] = f[t] PROVE u = t
      <3>1. <<u[1] - 1, u[2]>> = <<t[1] - 1, t[2]>>
        BY <2>1
      <3>2. u[1] - 1 = t[1] - 1 /\ u[2] = t[2]
        BY <3>1
      <3>3. u[1] \in Int /\ t[1] \in Int
        BY <1>4
      <3>4. u[1] = t[1]
        BY <3>2, <3>3
      <3>5. QED
        BY <1>4, <3>2, <3>4
    <2>2. QED
      BY <1>8, <2>1 DEF Injection, IsInjective
  <1>10. f \in Surjection(U, V)
    <2>1. ASSUME NEW v \in V PROVE \E u \in U : f[u] = v
      <3>1. <<v[1] + 1, v[2]>> \in U
        BY <1>2, <1>5, <1>6
      <3>2. f[<<v[1] + 1, v[2]>>] = <<(v[1] + 1) - 1, v[2]>>
        BY <3>1
      <3>3. (v[1] + 1) - 1 = v[1]
        BY <1>6
      <3>4. QED
        BY <1>6, <3>1, <3>2, <3>3
    <2>2. QED
      BY <1>8, <2>1 DEF Surjection
  <1>11. ExistsBijection(U, V)
    BY <1>9, <1>10 DEF ExistsBijection, Bijection
  <1>12. /\ Cardinality(Units(Sizes(a), 1 .. Len(a))) = Sizes(a)[1] + Cardinality(U)
         /\ IsFiniteSet(U)
    <2>1. Sizes(a) \in [1 .. Len(a) -> Nat] /\ IsFiniteSet(1 .. Len(a))
      BY SumCalcType
    <2>2. U \in SUBSET Units(Sizes(a), 1 .. Len(a))
      BY DEF U, Units
    <2>3. IsFiniteSet(U)
      BY <2>1, <2>2, UnitsFinite, FS_Subset
    <2>4. QED
      BY <1>1, <2>1, <2>3, CountOne DEF U
  <1>13. Cardinality(V) = Cardinality(U)
    BY <1>11, <1>12, FS_Bijection
  <1>14. /\ SumCalc(a) = Cardinality(Units(Sizes(a), 1 .. Len(a)))
         /\ SumCalc(b) = Cardinality(V) /\ SumCalc(b) \in Nat
    BY SumCalcType DEF V
  <1>15. Sizes(a)[1] = Calc(a[1])
    BY <1>1 DEF Sizes
  <1>16. QED
    BY <1>12, <1>13, <1>14, <1>15

-----------------------------------------------------------------------------
\* The slice and its unread rest are sequences of entries.
LEMMA PendingType == TypeOK => /\ elts \in Seq(Entries)
                               /\ Len(elts) \in Nat
                               /\ Pending \in Seq(Entries)
<1> SUFFICES ASSUME TypeOK
             PROVE  /\ elts \in Seq(Entries)
                    /\ Len(elts) \in Nat
                    /\ Pending \in Seq(Entries)
  OBVIOUS
<1>1. elts \in Seq(Entries)
  BY DEF TypeOK, elts
<1>2. Len(elts) \in Nat /\ pos \in Nat
  BY <1>1 DEF TypeOK
<1> QED
  BY <1>1, <1>2 DEF Pending

\* Truncating one array, as popOne and recycle do, keeps the arrays' type.
LEMMA ClearedArray ==
  ASSUME mem \in [Buffers -> Seq(Entries)], NEW b \in Buffers
  PROVE  [mem EXCEPT ![b] = <<>>] \in [Buffers -> Seq(Entries)]
<1>1. <<>> \in Seq(Entries)
  OBVIOUS
<1> QED
  BY <1>1

(***************************************************************************)
(* Every operation keeps the types.  ArraysOwned is needed: it says that   *)
(* popOne finds an entry at q.pos and that a held batch has an array.      *)
(***************************************************************************)
LEMMA TypeStep == TypeOK /\ ArraysOwned /\ [Next]_vars => TypeOK'
<1> SUFFICES ASSUME TypeOK, ArraysOwned, [Next]_vars PROVE TypeOK'
  OBVIOUS
<1>0. /\ elts \in Seq(Entries) /\ Len(elts) \in Nat
      /\ Pending \in Seq(Entries) /\ QLen \in Int
  BY PendingType DEF QLen, TypeOK
<1> USE DEF TypeOK, queue
<1>1. ASSUME NEW p \in Producers, PushRefused(p) PROVE TypeOK'
  BY <1>1, BoundsAreNaturals DEF PushRefused
<1>2. ASSUME NEW p \in Producers, PushAppend(p) PROVE TypeOK'
  <2> DEFINE e == <<p, next[p]>>
  <2>1. e \in Entries /\ Calc(e) \in Nat /\ next[p] \in 1 .. MaxPush
    BY <1>2, BoundsAreNaturals, CalcIsNatural DEF PushAppend, Entries
  <2>2. PICK b \in Buffers :
          /\ qbuf' = b
          /\ mem' = [mem EXCEPT ![b] =
                        Append(IF b \in pool \cup {qbuf} THEN @ ELSE <<>>, e)]
          /\ pool' = pool \ {b}
    BY <1>2 DEF PushAppend
  <2>3. mem' \in [Buffers -> Seq(Entries)] /\ qbuf' \in Buffers /\ pool' \subseteq Buffers
    BY <2>1, <2>2
  <2>4. appended' \in Seq(Entries)
    BY <1>2, <2>1 DEF PushAppend
  <2>5. /\ next' = [next EXCEPT ![p] = @ + 1] /\ sz' = sz + Calc(e)
        /\ UNCHANGED <<pos, ch, inprogress, batch, taken>>
    BY <1>2 DEF PushAppend
  <2>7. /\ next' \in [Producers -> 1 .. MaxPush + 1] /\ sz' \in Int
    BY <2>1, <2>5, BoundsAreNaturals
  <2>6. pc' = [pc EXCEPT ![p] = IF MustSignal THEN "signal" ELSE "idle"]
    BY <1>2 DEF PushAppend
  <2> QED
    BY <2>3, <2>4, <2>5, <2>6, <2>7, ProcessesDisjoint
<1>3. ASSUME NEW p \in Producers, PushSignal(p) PROVE TypeOK'
  BY <1>3, ProcessesDisjoint DEF PushSignal
<1>4. ASSUME NEW c \in Consumers, Receive(c) PROVE TypeOK'
  BY <1>4, ProcessesDisjoint DEF Receive
<1>5. ASSUME NEW c \in Consumers, PopNothing(c) PROVE TypeOK'
  BY <1>5, ProcessesDisjoint DEF PopNothing
<1>6. ASSUME NEW c \in Consumers, Pop(c) PROVE TypeOK'
  <2>1. batch' \in [Consumers -> [buf : Buffers \cup {Nil}, from : Nat,
                                  elts : Seq(Entries)]]
    BY <1>0, <1>6 DEF Pop
  <2>2. taken' \in Seq(Entries) /\ inprogress' \in Int
    BY <1>0, <1>6 DEF Pop
  <2>3. pc' = [pc EXCEPT ![c] = "holding"] /\ qbuf' = Nil /\ pos' = 0 /\ sz' = 0
        /\ UNCHANGED <<mem, ch, pool, next, appended>>
    BY <1>6 DEF Pop, ForgetArray
  <2> QED
    BY <2>1, <2>2, <2>3, ProcessesDisjoint
<1>7. ASSUME NEW c \in Consumers, PopOne(c) PROVE TypeOK'
  <2>0. pc' = [pc EXCEPT ![c] = "waiting"]
        /\ UNCHANGED <<inprogress, pool, batch, next, appended>>
    BY <1>7 DEF PopOne
  <2>1. CASE QLen > 1
    <3>1. /\ pos + 1 \in 1 .. Len(elts)
          /\ elts[pos + 1] \in Entries /\ Calc(elts[pos + 1]) \in Nat
      BY <1>0, <2>1, CalcIsNatural DEF QLen
    <3>2. /\ taken' = Append(taken, elts[pos + 1])
          /\ pos' = pos + 1 /\ sz' = sz - Calc(elts[pos + 1]) /\ ch' = 1
          /\ UNCHANGED <<mem, qbuf>>
      BY <1>7, <2>1 DEF PopOne, TakeFirst
    <3> QED
      BY <2>0, <3>1, <3>2, ProcessesDisjoint
  <2>2. CASE ~(QLen > 1)
    <3>1. /\ taken' = Append(taken, elts[pos + 1]) /\ pos' = 0 /\ sz' = 0
          /\ ch' = ch /\ QLen # 0
      BY <1>7, <2>2 DEF PopOne
    <3>2. pos + 1 \in 1 .. Len(elts) /\ elts[pos + 1] \in Entries
      BY <1>0, <3>1 DEF QLen, ArraysOwned
    <3>3. qbuf \in Buffers
      BY <3>2 DEF elts
    <3>4. \/ mem' = [mem EXCEPT ![qbuf] = <<>>] /\ qbuf' = qbuf
          \/ qbuf' = Nil /\ mem' = mem
      BY <1>7, <2>2 DEF PopOne
    <3>5. mem' \in [Buffers -> Seq(Entries)] /\ qbuf' \in Buffers \cup {Nil}
      BY <3>3, <3>4, ClearedArray
    <3>6. taken' \in Seq(Entries)
      BY <3>1, <3>2
    <3> QED
      BY <2>0, <3>1, <3>5, <3>6, ProcessesDisjoint
  <2> QED
    BY <2>1, <2>2
<1>8. ASSUME NEW c \in Consumers, Recycle(c) PROVE TypeOK'
  <2>1. batch[c].elts \in Seq(Entries) /\ batch[c].buf \in Buffers
    BY <1>8 DEF Recycle, ArraysOwned
  <2>2. \/ /\ mem' = [mem EXCEPT ![batch[c].buf] = <<>>]
           /\ pool' = pool \cup {batch[c].buf}
        \/ UNCHANGED <<mem, pool>>
    BY <1>8 DEF Recycle, Truncated
  <2>3. mem' \in [Buffers -> Seq(Entries)] /\ pool' \subseteq Buffers
    BY <2>1, <2>2, ClearedArray
  <2>4. /\ batch' = [batch EXCEPT ![c] = NoBatch]
        /\ inprogress' = inprogress - Len(batch[c].elts)
        /\ pc' = [pc EXCEPT ![c] = "waiting"]
        /\ UNCHANGED <<qbuf, pos, sz, ch, next, appended, taken>>
    BY <1>8 DEF Recycle
  <2>5. batch' \in [Consumers -> [buf : Buffers \cup {Nil}, from : Nat,
                                  elts : Seq(Entries)]]
    BY <2>4 DEF NoBatch
  <2>6. inprogress' \in Int
    BY <2>1, <2>4
  <2> QED
    BY <2>3, <2>4, <2>5, <2>6, ProcessesDisjoint
<1>9. CASE Drain
  BY <1>0, <1>9 DEF Drain
<1>10. CASE UNCHANGED vars
  BY <1>10 DEF vars
<1> QED
  BY <1>1, <1>2, <1>3, <1>4, <1>5, <1>6, <1>7, <1>8, <1>9, <1>10
  DEF Next, Push, Consume

-----------------------------------------------------------------------------
(* The effect of each operation on the slice.                              *)

\* push appends to the slice, in its array or in one that nobody else uses.
LEMMA PushEffect ==
  ASSUME TypeOK, ArraysOwned, NEW p \in Producers, PushAppend(p)
  PROVE  /\ <<p, next[p]>> \in Entries
         /\ elts' = Append(elts, <<p, next[p]>>)
         /\ qbuf' \in Buffers
         /\ qbuf' = qbuf \/ (qbuf = Nil /\ qbuf' \in pool \cup Unreferenced)
         /\ pool' = pool \ {qbuf'}
         /\ \A b \in Buffers : b # qbuf' => mem'[b] = mem[b]
<1> DEFINE e == <<p, next[p]>>
<1>1. e \in Entries
  BY BoundsAreNaturals DEF PushAppend, Entries, TypeOK
<1>2. PICK b \in Buffers :
        /\ GetBuffer(b)
        /\ qbuf' = b
        /\ mem' = [mem EXCEPT ![b] =
                      Append(IF b \in pool \cup {qbuf} THEN @ ELSE <<>>, e)]
        /\ pool' = pool \ {b}
  BY DEF PushAppend
<1>3. /\ mem \in [Buffers -> Seq(Entries)]
      /\ mem'[b] = Append(IF b \in pool \cup {qbuf} THEN mem[b] ELSE <<>>, e)
      /\ \A a \in Buffers : a # b => mem'[a] = mem[a]
  BY <1>2 DEF TypeOK
<1>4. elts' = mem'[b]
  BY <1>2, NilIsNoBuffer DEF elts
<1>5. (IF b \in pool \cup {qbuf} THEN mem[b] ELSE <<>>) = elts
  <2>1. CASE qbuf = Nil
    <3>1. b # qbuf /\ elts = <<>>
      BY <2>1, NilIsNoBuffer DEF elts
    <3> QED
      BY <3>1 DEF ArraysOwned
  <2>2. CASE qbuf # Nil
    BY <1>2, <2>2 DEF GetBuffer, elts
  <2> QED
    BY <2>1, <2>2
<1>6. b = qbuf \/ (qbuf = Nil /\ b \in pool \cup Unreferenced)
  BY <1>2 DEF GetBuffer
<1> QED
  BY <1>1, <1>2, <1>3, <1>4, <1>5, <1>6

\* popOne advances the position, or empties the queue and keeps or drops the array.
LEMMA PopOneEffect ==
  ASSUME TypeOK, ArraysOwned, NEW c \in Consumers, PopOne(c)
  PROVE  /\ pos < Len(elts) /\ pos \in Nat /\ qbuf \in Buffers
         /\ \/ QLen > 1 /\ elts' = elts /\ pos' = pos + 1 /\ ch' = 1
               /\ UNCHANGED <<mem, qbuf>>
            \/ pos + 1 = Len(elts) /\ elts' = <<>> /\ pos' = 0 /\ qbuf' = qbuf
               /\ mem' = [mem EXCEPT ![qbuf] = <<>>]
            \/ pos + 1 = Len(elts) /\ elts' = <<>> /\ pos' = 0 /\ qbuf' = Nil
               /\ mem' = mem
<1>0. elts \in Seq(Entries) /\ Len(elts) \in Nat /\ pos \in Nat
  BY PendingType DEF TypeOK
<1>1. QLen # 0 /\ QLen = Len(elts) - pos /\ pos <= Len(elts)
  BY DEF PopOne, QLen, ArraysOwned
<1>2. pos < Len(elts)
  BY <1>0, <1>1
<1>3. qbuf \in Buffers
  BY <1>0, <1>2 DEF elts, TypeOK
<1>4. CASE QLen > 1
  BY <1>0, <1>2, <1>3, <1>4 DEF PopOne, TakeFirst, elts
<1>5. CASE ~(QLen > 1)
  <2>1. pos + 1 = Len(elts)
    BY <1>0, <1>1, <1>2, <1>5
  <2>2. /\ pos' = 0
        /\ \/ mem' = [mem EXCEPT ![qbuf] = <<>>] /\ qbuf' = qbuf
           \/ qbuf' = Nil /\ mem' = mem
    BY <1>5 DEF PopOne
  <2>3. elts' = <<>>
    BY <1>3, <2>2, NilIsNoBuffer DEF elts, TypeOK
  <2> QED
    BY <1>0, <1>2, <1>3, <2>1, <2>2, <2>3
<1> QED
  BY <1>4, <1>5

\* recycle truncates the consumer's array only, never the queue's.
LEMMA RecycleEffect ==
  ASSUME TypeOK, ArraysOwned, NEW c \in Consumers, Recycle(c)
  PROVE  /\ elts' = elts /\ pos' = pos /\ qbuf' = qbuf
         /\ batch[c].buf \in Buffers \ pool /\ batch[c].buf # qbuf
         /\ \/ /\ pool' = pool \cup {batch[c].buf}
               /\ mem' = [mem EXCEPT ![batch[c].buf] = <<>>]
            \/ UNCHANGED <<pool, mem>>
<1>1. batch[c].buf \in Buffers \ pool /\ batch[c].buf # qbuf
  BY DEF Recycle, ArraysOwned
<1>2. /\ pos' = pos /\ qbuf' = qbuf
      /\ \/ /\ pool' = pool \cup {batch[c].buf}
            /\ mem' = [mem EXCEPT ![batch[c].buf] = <<>>]
         \/ UNCHANGED <<pool, mem>>
  BY DEF Recycle, Truncated
<1>3. elts' = elts
  BY <1>1, <1>2 DEF elts, TypeOK
<1> QED
  BY <1>1, <1>2, <1>3

-----------------------------------------------------------------------------
(***************************************************************************)
(* Every operation keeps the arrays disjoint: what is in the pool, what    *)
(* the queue appends to and what each consumer holds.                      *)
(***************************************************************************)
LEMMA OwnedStep ==
  ASSUME TypeOK, ArraysOwned, [Next]_vars
  PROVE  ArraysOwned'
<1>0. /\ elts \in Seq(Entries) /\ Len(elts) \in Nat /\ pos \in Nat
      /\ pc \in [Producers \cup Consumers ->
                    {"idle", "signal", "waiting", "notified", "holding"}]
      /\ batch \in [Consumers -> [buf : Buffers \cup {Nil}, from : Nat,
                                   elts : Seq(Entries)]]
      /\ mem \in [Buffers -> Seq(Entries)] /\ pool \subseteq Buffers
  BY PendingType DEF TypeOK
<1>1. ASSUME NEW p \in Producers, PushRefused(p) PROVE ArraysOwned'
  BY <1>1 DEF PushRefused, queue, ArraysOwned, elts
<1>2. ASSUME NEW p \in Producers, PushAppend(p) PROVE ArraysOwned'
  <2>1. /\ \A c \in Consumers : pc'[c] = pc[c]
        /\ batch' = batch /\ pos' = pos
    BY <1>0, <1>2, ProcessesDisjoint DEF PushAppend
  <2>2. Len(elts') = Len(elts) + 1
    <3>1. elts' = Append(elts, <<p, next[p]>>) /\ <<p, next[p]>> \in Entries
      BY <1>2, PushEffect
    <3>2. Len(Append(elts, <<p, next[p]>>)) = Len(elts) + 1
      BY <1>0, <3>1, AppendProperties
    <3> QED
      BY <3>1, <3>2
  <2>3. \A c \in Consumers : pc[c] = "holding" => batch[c].buf # qbuf'
    BY <1>2, PushEffect DEF ArraysOwned, Unreferenced
  <2>4. qbuf' \notin pool' /\ pool' \subseteq pool
        /\ \A b \in pool' : mem'[b] = mem[b]
    BY <1>0, <1>2, PushEffect
  <2>5. pos' <= Len(elts')
    BY <1>0, <2>1, <2>2 DEF ArraysOwned
  <2> QED
    BY <2>1, <2>3, <2>4, <2>5 DEF ArraysOwned
<1>3. ASSUME NEW p \in Producers, PushSignal(p) PROVE ArraysOwned'
  BY <1>0, <1>3, ProcessesDisjoint DEF PushSignal, queue, ArraysOwned, elts
<1>4. ASSUME NEW c \in Consumers, Receive(c) PROVE ArraysOwned'
  BY <1>0, <1>4 DEF Receive, queue, ArraysOwned, elts
<1>5. ASSUME NEW c \in Consumers, PopNothing(c) PROVE ArraysOwned'
  BY <1>0, <1>5 DEF PopNothing, queue, ArraysOwned, elts
<1>6. ASSUME NEW c \in Consumers, Pop(c) PROVE ArraysOwned'
  <2>1. /\ qbuf' = Nil /\ pos' = 0 /\ mem' = mem /\ pool' = pool
        /\ pc[c] = "notified" /\ QLen # 0
        /\ pc' = [pc EXCEPT ![c] = "holding"]
        /\ batch' = [batch EXCEPT ![c] =
                        [buf |-> qbuf, from |-> pos, elts |-> Pending]]
    BY <1>6 DEF Pop, ForgetArray
  <2>2. elts' = <<>> /\ pos' <= Len(elts')
    BY <2>1 DEF elts
  <2>3. qbuf \in Buffers
    <3>1. elts # <<>>
      BY <1>0, <2>1 DEF QLen, ArraysOwned
    <3> QED
      BY <3>1 DEF elts, TypeOK
  <2>4. /\ pc'[c] = "holding" /\ batch'[c].buf = qbuf
        /\ \A d \in Consumers : d # c => pc'[d] = pc[d] /\ batch'[d] = batch[d]
    BY <1>0, <2>1
  <2>5. Nil \notin pool
    BY <1>0, NilIsNoBuffer
  <2>6. \A d \in Consumers :
          IF pc'[d] = "holding"
            THEN batch'[d].buf \in Buffers \ pool' /\ batch'[d].buf # qbuf'
            ELSE batch'[d] = NoBatch
    BY <2>1, <2>3, <2>4, NilIsNoBuffer DEF ArraysOwned
  <2>7. \A d, f \in Consumers :
          pc'[d] = "holding" /\ pc'[f] = "holding" /\ d # f =>
              batch'[d].buf # batch'[f].buf
    BY <2>4 DEF ArraysOwned
  <2> QED
    BY <2>1, <2>2, <2>5, <2>6, <2>7 DEF ArraysOwned
<1>7. ASSUME NEW c \in Consumers, PopOne(c) PROVE ArraysOwned'
  <2>1. /\ pc[c] = "notified" /\ pc' = [pc EXCEPT ![c] = "waiting"]
        /\ batch' = batch /\ pool' = pool
    BY <1>7 DEF PopOne
  <2>2. pos' <= Len(elts') /\ (qbuf' = qbuf \/ qbuf' = Nil)
    BY <1>0, <1>7, PopOneEffect
  <2>3. \A b \in pool : mem'[b] = mem[b]
    BY <1>0, <1>7, PopOneEffect DEF ArraysOwned
  <2> QED
    BY <1>0, <2>1, <2>2, <2>3, NilIsNoBuffer DEF ArraysOwned
<1>8. ASSUME NEW c \in Consumers, Recycle(c) PROVE ArraysOwned'
  <2>1. /\ pc[c] = "holding" /\ pc' = [pc EXCEPT ![c] = "waiting"]
        /\ batch' = [batch EXCEPT ![c] = NoBatch]
    BY <1>8 DEF Recycle
  <2>2. /\ pc'[c] = "waiting" /\ batch'[c] = NoBatch
        /\ \A d \in Consumers : d # c => pc'[d] = pc[d] /\ batch'[d] = batch[d]
    BY <1>0, <2>1
  <2>3. pool' \subseteq pool \cup {batch[c].buf}
    BY <1>8, RecycleEffect
  <2>4. \A b \in pool' : mem'[b] = <<>>
    <3>0. \A b \in pool : mem[b] = <<>> /\ b \in Buffers
      BY <1>0 DEF ArraysOwned
    <3>1. CASE UNCHANGED <<pool, mem>>
      BY <3>0, <3>1
    <3>2. CASE /\ pool' = pool \cup {batch[c].buf}
               /\ mem' = [mem EXCEPT ![batch[c].buf] = <<>>]
      <4>1. batch[c].buf \in Buffers \ pool
        BY <1>8, RecycleEffect
      <4>2. mem'[batch[c].buf] = <<>> /\ \A b \in pool : mem'[b] = mem[b]
        BY <1>0, <3>0, <3>2, <4>1
      <4> QED
        BY <3>0, <3>2, <4>2
    <3> QED
      BY <1>8, <3>1, <3>2, RecycleEffect
  <2>5. qbuf' = qbuf /\ qbuf \notin pool' /\ pos' <= Len(elts')
    BY <1>8, <2>3, RecycleEffect DEF ArraysOwned
  <2>6. \A d \in Consumers :
          IF pc'[d] = "holding"
            THEN batch'[d].buf \in Buffers \ pool' /\ batch'[d].buf # qbuf'
            ELSE batch'[d] = NoBatch
    BY <2>1, <2>2, <2>3, <2>5 DEF ArraysOwned
  <2>7. \A d, f \in Consumers :
          pc'[d] = "holding" /\ pc'[f] = "holding" /\ d # f =>
              batch'[d].buf # batch'[f].buf
    BY <2>2 DEF ArraysOwned
  <2> QED
    BY <2>4, <2>5, <2>6, <2>7 DEF ArraysOwned
<1>9. CASE Drain
  <2>1. /\ qbuf' = Nil /\ pos' = 0 /\ elts' = <<>>
        /\ UNCHANGED <<mem, pool, pc, batch>>
    BY <1>9 DEF Drain, elts
  <2> QED
    BY <1>0, <2>1, NilIsNoBuffer DEF ArraysOwned
<1>10. CASE UNCHANGED vars
  BY <1>10 DEF vars, ArraysOwned, elts
<1> QED
  BY <1>1, <1>2, <1>3, <1>4, <1>5, <1>6, <1>7, <1>8, <1>9, <1>10
  DEF Next, Push, Consume

-----------------------------------------------------------------------------
(***************************************************************************)
(* No step loses a wake-up.  A push into an empty queue owes a signal; the *)
(* token leaves q.ch only with a consumer that has yet to pop or with a    *)
(* drain that empties the queue; a consumer leaves its place only when it  *)
(* has found the queue empty, has emptied it, or has signalled again.      *)
(***************************************************************************)
LEMMA WakeupStep ==
  ASSUME TypeOK, ArraysOwned, NoLostWakeup, [Next]_vars
  PROVE  NoLostWakeup'
<1>0. /\ elts \in Seq(Entries) /\ Len(elts) \in Nat /\ pos \in Nat
      /\ pc \in [Producers \cup Consumers ->
                    {"idle", "signal", "waiting", "notified", "holding"}]
      /\ QLen = Len(elts) - pos /\ pos <= Len(elts)
  BY PendingType DEF TypeOK, QLen, ArraysOwned
<1>1. ASSUME NEW p \in Producers, PushRefused(p) PROVE NoLostWakeup'
  BY <1>1 DEF PushRefused, queue, NoLostWakeup, QLen, elts
<1>2. ASSUME NEW p \in Producers, PushAppend(p) PROVE NoLostWakeup'
  <2>1. pc' = [pc EXCEPT ![p] = IF QLen = 0 THEN "signal" ELSE "idle"]
        /\ pc[p] = "idle" /\ ch' = ch
    BY <1>2 DEF PushAppend, MustSignal
  <2>2. CASE QLen = 0
    BY <1>0, <2>1, <2>2 DEF NoLostWakeup
  <2>3. CASE QLen # 0
    <3>1. QLen > 0
      BY <1>0, <2>3
    <3>2. \A q \in Producers \cup Consumers :
            pc[q] \in {"signal", "notified"} => pc'[q] = pc[q]
      BY <1>0, <2>1, <2>3
    <3> QED
      BY <2>1, <3>1, <3>2 DEF NoLostWakeup
  <2> QED
    BY <2>2, <2>3
<1>3. ASSUME NEW p \in Producers, PushSignal(p) PROVE NoLostWakeup'
  BY <1>3 DEF PushSignal, NoLostWakeup
<1>4. ASSUME NEW c \in Consumers, Receive(c) PROVE NoLostWakeup'
  BY <1>0, <1>4 DEF Receive, NoLostWakeup
<1>5. ASSUME NEW c \in Consumers, PopNothing(c) PROVE NoLostWakeup'
  <2>1. QLen' = QLen /\ QLen = 0
    BY <1>5 DEF PopNothing, queue, QLen, elts
  <2> QED
    BY <2>1 DEF NoLostWakeup
<1>6. ASSUME NEW c \in Consumers, Pop(c) PROVE NoLostWakeup'
  <2>1. QLen' = 0
    BY <1>6 DEF Pop, ForgetArray, QLen, elts
  <2> QED
    BY <2>1 DEF NoLostWakeup
<1>7. ASSUME NEW c \in Consumers, PopOne(c) PROVE NoLostWakeup'
  <2>1. ch' = 1 \/ (elts' = <<>> /\ pos' = 0)
    BY <1>7, PopOneEffect
  <2>2. QLen' = Len(elts') - pos'
    BY DEF QLen
  <2> QED
    BY <2>1, <2>2 DEF NoLostWakeup
<1>8. ASSUME NEW c \in Consumers, Recycle(c) PROVE NoLostWakeup'
  <2>1. QLen' = QLen
    BY <1>8, RecycleEffect DEF QLen
  <2>2. /\ pc[c] = "holding" /\ pc' = [pc EXCEPT ![c] = "waiting"] /\ ch' = ch
    BY <1>8 DEF Recycle
  <2>3. \A q \in Producers \cup Consumers :
          pc[q] \in {"signal", "notified"} => pc'[q] = pc[q]
    BY <1>0, <2>2
  <2> QED
    BY <2>1, <2>2, <2>3 DEF NoLostWakeup
<1>9. CASE Drain
  <2>1. QLen' = 0
    BY <1>9 DEF Drain, QLen, elts
  <2> QED
    BY <2>1 DEF NoLostWakeup
<1>10. CASE UNCHANGED vars
  BY <1>10 DEF vars, NoLostWakeup, QLen, elts
<1> QED
  BY <1>1, <1>2, <1>3, <1>4, <1>5, <1>6, <1>7, <1>8, <1>9, <1>10
  DEF Next, Push, Consume

(***************************************************************************)
(* No step loses, repeats or reorders an entry.                            *)
(***************************************************************************)
LEMMA FifoStep ==
  ASSUME TypeOK, ArraysOwned, Fifo, [Next]_vars
  PROVE  Fifo'
<1>0. /\ elts \in Seq(Entries) /\ Len(elts) \in Nat /\ pos \in Nat
      /\ Pending \in Seq(Entries) /\ pos <= Len(elts)
      /\ taken \in Seq(Entries)
  BY PendingType DEF TypeOK, ArraysOwned
<1>1. ASSUME UNCHANGED <<elts, pos, appended, taken>> PROVE Fifo'
  BY <1>1 DEF Fifo, Pending
<1>2. ASSUME NEW p \in Producers, PushAppend(p) PROVE Fifo'
  <2> DEFINE e == <<p, next[p]>>
  <2>1. /\ appended' = Append(appended, e) /\ taken' = taken /\ pos' = pos
        /\ e \in Entries /\ elts' = Append(elts, e)
    BY <1>2, PushEffect DEF PushAppend
  <2>2. Len(elts') = Len(elts) + 1
    BY <1>0, <2>1, AppendProperties
  <2>3. Pending' = Append(Pending, e)
    BY <1>0, <2>1, <2>2, RestOfAppend DEF Pending
  <2>4. Append(taken \o Pending, e) = taken \o Append(Pending, e)
    <3>1. ASSUME NEW a \in Seq(Entries), NEW b \in Seq(Entries), NEW x \in Entries
          PROVE  Append(a \o b, x) = a \o Append(b, x)
      OBVIOUS
    <3>2. e \in Entries /\ taken \in Seq(Entries) /\ Pending \in Seq(Entries)
      BY <1>0, <2>1
    <3> HIDE DEF e
    <3> QED
      BY <3>1, <3>2
  <2> QED
    BY <2>1, <2>3, <2>4 DEF Fifo
<1>3. ASSUME NEW c \in Consumers, PopOne(c) PROVE Fifo'
  <2>1. /\ taken' = Append(taken, elts[pos + 1]) /\ appended' = appended
        /\ pos < Len(elts)
    BY <1>3, PopOneEffect DEF PopOne
  <2>2. appended = Append(taken, elts[pos + 1]) \o SubSeq(elts, pos + 2, Len(elts))
    BY <1>0, <2>1, RestOfPopOne DEF Fifo, Pending
  <2>3. CASE elts' = elts /\ pos' = pos + 1
    <3>1. Pending' = SubSeq(elts, pos + 2, Len(elts))
      BY <1>0, <2>3 DEF Pending
    <3> QED
      BY <2>1, <2>2, <3>1 DEF Fifo
  <2>4. CASE pos + 1 = Len(elts) /\ elts' = <<>> /\ pos' = 0
    <3>1. SubSeq(elts, pos + 2, Len(elts)) = <<>> /\ Pending' = <<>>
      BY <1>0, <2>4 DEF Pending
    <3> QED
      BY <2>1, <2>2, <3>1 DEF Fifo
  <2> QED
    BY <1>3, <2>3, <2>4, PopOneEffect
<1>4. ASSUME taken' = taken \o Pending, appended' = appended,
             elts' = <<>>, pos' = 0
      PROVE  Fifo'
  <2>1. Pending' = <<>>
    BY <1>4 DEF Pending
  <2>2. (taken \o Pending) \o <<>> = taken \o Pending
    BY <1>0
  <2> QED
    BY <1>4, <2>1, <2>2 DEF Fifo
<1>5. ASSUME NEW p \in Producers, PushRefused(p) \/ PushSignal(p) PROVE Fifo'
  BY <1>1, <1>5 DEF PushRefused, PushSignal, queue, elts
<1>6. ASSUME NEW c \in Consumers, Receive(c) \/ PopNothing(c) PROVE Fifo'
  BY <1>1, <1>6 DEF Receive, PopNothing, queue, elts
<1>7. ASSUME NEW c \in Consumers, Pop(c) PROVE Fifo'
  BY <1>4, <1>7 DEF Pop, ForgetArray, elts
<1>8. ASSUME NEW c \in Consumers, Recycle(c) PROVE Fifo'
  <2>1. taken' = taken /\ appended' = appended
    BY <1>8 DEF Recycle
  <2> QED
    BY <1>1, <1>8, <2>1, RecycleEffect
<1>9. CASE Drain
  BY <1>4, <1>9 DEF Drain, elts
<1>10. CASE UNCHANGED vars
  BY <1>1, <1>10 DEF vars, elts
<1> QED
  BY <1>2, <1>3, <1>5, <1>6, <1>7, <1>8, <1>9, <1>10 DEF Next, Push, Consume

(***************************************************************************)
(* No step writes to the array of a batch that a consumer holds.           *)
(***************************************************************************)
LEMMA IntactStep ==
  ASSUME TypeOK, ArraysOwned, BatchIntact, [Next]_vars
  PROVE  BatchIntact'
<1>0. /\ pc \in [Producers \cup Consumers ->
                    {"idle", "signal", "waiting", "notified", "holding"}]
      /\ batch \in [Consumers -> [buf : Buffers \cup {Nil}, from : Nat,
                                   elts : Seq(Entries)]]
      /\ mem \in [Buffers -> Seq(Entries)]
  BY DEF TypeOK
<1>1. ASSUME \A c \in Consumers : pc'[c] = "holding" =>
                /\ pc[c] = "holding" /\ batch'[c] = batch[c]
                /\ mem'[batch[c].buf] = mem[batch[c].buf]
      PROVE  BatchIntact'
  BY <1>1 DEF BatchIntact
<1>2. ASSUME NEW p \in Producers, PushAppend(p) PROVE BatchIntact'
  <2>1. /\ batch' = batch /\ \A c \in Consumers : pc'[c] = pc[c]
    BY <1>0, <1>2, ProcessesDisjoint DEF PushAppend
  <2>2. ASSUME NEW c \in Consumers, pc[c] = "holding"
        PROVE  mem'[batch[c].buf] = mem[batch[c].buf]
    <3>1. batch[c].buf \in Buffers \ pool /\ batch[c].buf # qbuf
      BY <2>2 DEF ArraysOwned
    <3>2. batch[c].buf # qbuf'
      BY <1>2, <3>1, PushEffect DEF Unreferenced
    <3> QED
      BY <1>2, <3>1, <3>2, PushEffect
  <2> QED
    BY <1>1, <2>1, <2>2
<1>3. ASSUME NEW p \in Producers, PushRefused(p) \/ PushSignal(p)
      PROVE  BatchIntact'
  BY <1>0, <1>1, <1>3, ProcessesDisjoint DEF PushRefused, PushSignal, queue
<1>4. ASSUME NEW c \in Consumers, Receive(c) \/ PopNothing(c) PROVE BatchIntact'
  BY <1>0, <1>1, <1>4 DEF Receive, PopNothing, queue
<1>5. ASSUME NEW c \in Consumers, Pop(c) PROVE BatchIntact'
  <2>1. /\ mem' = mem /\ QLen # 0
        /\ pc' = [pc EXCEPT ![c] = "holding"]
        /\ batch' = [batch EXCEPT ![c] =
                        [buf |-> qbuf, from |-> pos, elts |-> Pending]]
    BY <1>5 DEF Pop
  <2>2. /\ batch'[c] = [buf |-> qbuf, from |-> pos, elts |-> Pending]
        /\ \A d \in Consumers : d # c => pc'[d] = pc[d] /\ batch'[d] = batch[d]
    BY <1>0, <2>1
  <2>3. qbuf # Nil
    <3>1. Len(elts) # 0
      BY <2>1 DEF QLen, ArraysOwned, TypeOK, elts
    <3> QED
      BY <3>1 DEF elts
  <2>4. SubSeq(mem[qbuf], pos + 1, Len(mem[qbuf])) = Pending
    BY <2>3 DEF Pending, elts
  <2>5. ASSUME NEW d \in Consumers, pc'[d] = "holding"
        PROVE  SubSeq(mem'[batch'[d].buf], batch'[d].from + 1,
                      Len(mem'[batch'[d].buf])) = batch'[d].elts
    <3>1. CASE d = c
      <4>1. /\ batch'[d].buf = qbuf /\ batch'[d].from = pos
            /\ batch'[d].elts = Pending
        BY <2>2, <3>1
      <4> QED
        BY <2>1, <2>4, <4>1
    <3>2. CASE d # c
      BY <2>1, <2>2, <2>5, <3>2 DEF BatchIntact
    <3> QED
      BY <3>1, <3>2
  <2> QED
    BY <2>5 DEF BatchIntact
<1>6. ASSUME NEW c \in Consumers, PopOne(c) PROVE BatchIntact'
  <2>1. pc' = [pc EXCEPT ![c] = "waiting"] /\ batch' = batch
    BY <1>6 DEF PopOne
  <2>2. \A b \in Buffers : b # qbuf => mem'[b] = mem[b]
    BY <1>0, <1>6, PopOneEffect
  <2> QED
    BY <1>0, <1>1, <2>1, <2>2 DEF ArraysOwned
<1>7. ASSUME NEW c \in Consumers, Recycle(c) PROVE BatchIntact'
  <2>1. /\ pc' = [pc EXCEPT ![c] = "waiting"] /\ pc[c] = "holding"
        /\ batch' = [batch EXCEPT ![c] = NoBatch]
    BY <1>7 DEF Recycle
  <2>2. \A b \in Buffers : b # batch[c].buf => mem'[b] = mem[b]
    BY <1>0, <1>7, RecycleEffect
  <2>3. ASSUME NEW d \in Consumers, pc'[d] = "holding"
        PROVE  /\ pc[d] = "holding" /\ batch'[d] = batch[d]
               /\ batch[d].buf \in Buffers /\ batch[d].buf # batch[c].buf
    BY <1>0, <2>1, <2>3 DEF ArraysOwned
  <2> QED
    BY <1>1, <2>2, <2>3
<1>8. CASE Drain
  BY <1>0, <1>1, <1>8 DEF Drain
<1>9. CASE UNCHANGED vars
  BY <1>0, <1>1, <1>9 DEF vars
<1> QED
  BY <1>2, <1>3, <1>4, <1>5, <1>6, <1>7, <1>8, <1>9 DEF Next, Push, Consume

\* What each consumer still has to recycle.
Held == [c \in Consumers |-> Len(batch[c].elts)]

\* The batches are finitely many numbers.
LEMMA HeldType == TypeOK => Held \in [Consumers -> Nat]
<1>1. TypeOK => \A c \in Consumers : batch[c].elts \in Seq(Entries)
  BY DEF TypeOK
<1> QED
  BY <1>1 DEF Held

\* A counter of batches that one consumer changes.
LEMMA HeldStep ==
  ASSUME TypeOK, TypeOK', inprogress = SumFunction(Held), NEW c \in Consumers,
         \A d \in Consumers \ {c} : batch'[d] = batch[d],
         inprogress' = inprogress - Len(batch[c].elts) + Len(batch'[c].elts)
  PROVE  inprogress' = SumFunction(Held')
<1>1. Held \in [Consumers -> Nat] /\ Held' \in [Consumers -> Nat]
  <2>1. (TypeOK => Held \in [Consumers -> Nat])'
    BY HeldType, PTL
  <2> QED
    BY HeldType, <2>1
<1>2. /\ \A d \in Consumers \ {c} : Held'[d] = Held[d]
      /\ Held[c] = Len(batch[c].elts) /\ Held'[c] = Len(batch'[c].elts)
  BY DEF Held
<1>3. SumFunction(Held') = SumFunction(Held) - Held[c] + Held'[c]
  <2>1. PICK w \in [Consumers -> Nat], v \in [Consumers -> Nat] : w = Held /\ v = Held'
    BY <1>1
  <2>2. \A d \in Consumers \ {c} : v[d] = w[d]
    BY <1>2, <2>1
  <2>3. SumFunction(v) = SumFunction(w) - w[c] + v[c]
    BY <2>2, FinitelyManyConsumers, SumUpdate
  <2> QED
    BY <2>1, <2>3
<1> QED
  BY <1>2, <1>3

(***************************************************************************)
(* Every operation keeps the counters: push adds the entry's size to q.sz, *)
(* popOne takes it off, whatever empties the queue resets it, and          *)
(* q.inprogress moves with the batches.                                    *)
(***************************************************************************)
LEMMA CountersStep ==
  ASSUME TypeOK, TypeOK', ArraysOwned, CountersAgree, [Next]_vars
  PROVE  CountersAgree'
<1>0. /\ elts \in Seq(Entries) /\ Len(elts) \in Nat /\ pos \in Nat
      /\ Pending \in Seq(Entries) /\ pos <= Len(elts) /\ sz \in Int
  BY PendingType DEF TypeOK, ArraysOwned
<1>1. /\ sz = SumCalc(Pending) /\ (MaxLen > 0 => QLen <= MaxLen)
      /\ (MaxSize > 0 => sz <= MaxSize) /\ inprogress = SumFunction(Held)
      /\ QLen = Len(elts) - pos /\ SumCalc(Pending) \in Nat
  BY <1>0, SumCalcType DEF CountersAgree, Held, QLen
<1>2. ASSUME UNCHANGED <<elts, pos, sz>>, inprogress' = SumFunction(Held')
      PROVE  CountersAgree'
  BY <1>1, <1>2 DEF CountersAgree, Pending, QLen, Held
<1>3. ASSUME elts' = <<>>, pos' = 0, sz' = 0, inprogress' = SumFunction(Held')
      PROVE  CountersAgree'
  <2>1. Pending' = <<>> /\ QLen' = 0
    BY <1>3 DEF Pending, QLen
  <2>2. SumCalc(<<>>) = 0
    <3>1. <<>> \in Seq(Entries)
      OBVIOUS
    <3> QED
      BY <3>1, SumCalcType
  <2> QED
    BY <1>3, <2>1, <2>2, BoundsAreNaturals DEF CountersAgree, Held
<1>4. ASSUME UNCHANGED <<batch, inprogress>> PROVE inprogress' = SumFunction(Held')
  BY <1>1, <1>4 DEF Held
<1>5. ASSUME NEW p \in Producers, PushAppend(p) PROVE CountersAgree'
  <2>1. PICK e : e = <<p, next[p]>>
    OBVIOUS
  <2>2. /\ e \in Entries /\ elts' = Append(elts, e) /\ pos' = pos
        /\ sz' = sz + Calc(e) /\ UNCHANGED <<batch, inprogress>>
    BY <1>5, <2>1, PushEffect DEF PushAppend
  <2>3. ~AtLenLimit /\ ~AtSizeLimit(e)
    BY <1>5, <2>1 DEF PushAppend
  <2>4. Len(elts') = Len(elts) + 1
    BY <1>0, <2>2, AppendProperties
  <2>5. Pending' = Append(Pending, e)
    BY <1>0, <2>2, <2>4, RestOfAppend DEF Pending
  <2>6. sz' = SumCalc(Pending')
    BY <1>0, <1>1, <2>2, <2>5, SumCalcAppend
  <2>7. MaxLen > 0 => QLen' <= MaxLen
    <3>1. QLen' = QLen + 1
      BY <1>0, <1>1, <2>2, <2>4 DEF QLen
    <3>2. MaxLen > 0 => QLen # MaxLen
      BY <2>3 DEF AtLenLimit
    <3> QED
      BY <1>0, <1>1, <3>1, <3>2, BoundsAreNaturals
  <2>8. MaxSize > 0 => sz' <= MaxSize
    <3>1. MaxSize > 0 => ~(sz + Calc(e) > MaxSize)
      BY <2>3 DEF AtSizeLimit
    <3>2. Calc(e) \in Nat
      BY <2>2, CalcIsNatural
    <3> QED
      BY <1>0, <2>2, <3>1, <3>2, BoundsAreNaturals
  <2>9. inprogress' = SumFunction(Held')
    BY <1>4, <2>2
  <2> QED
    BY <2>6, <2>7, <2>8, <2>9 DEF CountersAgree, Held
<1>6. ASSUME NEW c \in Consumers, PopOne(c) PROVE CountersAgree'
  <2>0. UNCHANGED <<batch, inprogress>> /\ pos < Len(elts)
    BY <1>6, PopOneEffect DEF PopOne
  <2>1. inprogress' = SumFunction(Held')
    BY <1>4, <2>0
  <2>2. CASE QLen > 1
    <3>1. elts' = elts /\ pos' = pos + 1
      BY <1>0, <1>1, <1>6, <2>2, PopOneEffect
    <3>2. sz' = sz - Calc(elts[pos + 1])
      BY <1>6, <2>2 DEF PopOne, TakeFirst
    <3>3. PICK a \in Seq(Entries), b \in Seq(Entries) :
              a = SubSeq(elts, pos + 1, Len(elts)) /\ b = SubSeq(elts, pos + 2, Len(elts))
      <4>1. /\ SubSeq(elts, pos + 1, Len(elts)) \in Seq(Entries)
            /\ SubSeq(elts, pos + 2, Len(elts)) \in Seq(Entries)
        BY <1>0
      <4> QED
        BY <4>1, Zenon
    <3>4. /\ Len(a) = Len(b) + 1 /\ a[1] = elts[pos + 1]
          /\ \A k \in 1 .. Len(b) : b[k] = a[k + 1]
      BY <1>0, <2>0, <3>3
    <3>5. SumCalc(a) = Calc(a[1]) + SumCalc(b)
      BY <3>4, SumCalcFirst
    <3>6. Pending = a /\ Pending' = b
      BY <1>0, <3>1, <3>3 DEF Pending
    <3>7. Calc(a[1]) \in Nat /\ SumCalc(b) \in Nat
      <4>1. elts[pos + 1] \in Entries
        BY <1>0, <2>0
      <4> QED
        BY <3>4, <4>1, CalcIsNatural, SumCalcType
    <3>8. sz' = SumCalc(Pending') /\ sz' <= sz
      BY <1>1, <3>2, <3>4, <3>5, <3>6, <3>7
    <3>9. QLen' = QLen - 1
      BY <1>0, <3>1 DEF QLen
    <3>10. sz' \in Int /\ QLen \in Int
      BY <1>0, <1>1 DEF TypeOK
    <3>11. (MaxLen > 0 => QLen' <= MaxLen) /\ (MaxSize > 0 => sz' <= MaxSize)
      BY <1>0, <1>1, <3>8, <3>9, <3>10, BoundsAreNaturals
    <3> QED
      BY <2>1, <3>8, <3>11 DEF CountersAgree, Held
  <2>3. CASE ~(QLen > 1)
    <3>1. elts' = <<>> /\ pos' = 0
      BY <1>6, <2>3, PopOneEffect
    <3>2. sz' = 0
      BY <1>6, <2>3 DEF PopOne
    <3> QED
      BY <1>3, <2>1, <3>1, <3>2
  <2> QED
    BY <2>2, <2>3
<1>7. ASSUME NEW c \in Consumers, Pop(c) PROVE CountersAgree'
  <2>1. /\ elts' = <<>> /\ pos' = 0 /\ sz' = 0 /\ inprogress' = inprogress + QLen
        /\ pc[c] = "notified"
    BY <1>7 DEF Pop, ForgetArray, elts
  <2>2. /\ batch'[c].elts = Pending /\ \A d \in Consumers \ {c} : batch'[d] = batch[d]
    BY <1>7 DEF Pop, TypeOK
  <2>3. batch[c] = NoBatch
    BY <2>1 DEF ArraysOwned
  <2>4. Len(batch[c].elts) = 0
    BY <2>3 DEF NoBatch
  <2>5. Len(batch'[c].elts) = QLen
    BY <1>0, <1>1, <2>2 DEF Pending
  <2>6. inprogress' = inprogress - Len(batch[c].elts) + Len(batch'[c].elts)
    <3>1. inprogress \in Int
      BY DEF TypeOK
    <3> QED
      BY <1>0, <1>1, <2>1, <2>4, <2>5, <3>1
  <2>7. inprogress' = SumFunction(Held')
    BY <1>1, <2>2, <2>6, HeldStep
  <2> QED
    BY <1>3, <2>1, <2>7
<1>8. ASSUME NEW c \in Consumers, Recycle(c) PROVE CountersAgree'
  <2>1. /\ sz' = sz /\ inprogress' = inprogress - Len(batch[c].elts)
        /\ batch'[c] = NoBatch /\ \A d \in Consumers \ {c} : batch'[d] = batch[d]
    BY <1>8 DEF Recycle, TypeOK
  <2>2. Len(batch'[c].elts) = 0
    BY <2>1 DEF NoBatch
  <2>3. inprogress \in Int /\ Len(batch[c].elts) \in Nat
    BY DEF TypeOK
  <2>4. inprogress' = inprogress - Len(batch[c].elts) + Len(batch'[c].elts)
    BY <2>1, <2>2, <2>3
  <2>5. inprogress' = SumFunction(Held')
    BY <1>1, <2>1, <2>4, HeldStep
  <2> QED
    BY <1>2, <1>8, <2>1, <2>5, RecycleEffect
<1>9. CASE Drain
  BY <1>3, <1>4, <1>9 DEF Drain, elts
<1>10. ASSUME NEW p \in Producers, PushRefused(p) \/ PushSignal(p) PROVE CountersAgree'
  BY <1>2, <1>4, <1>10 DEF PushRefused, PushSignal, queue, elts
<1>11. ASSUME NEW c \in Consumers, Receive(c) \/ PopNothing(c) PROVE CountersAgree'
  BY <1>2, <1>4, <1>11 DEF Receive, PopNothing, queue, elts
<1>12. CASE UNCHANGED vars
  BY <1>2, <1>4, <1>12 DEF vars, elts
<1> QED
  BY <1>5, <1>6, <1>7, <1>8, <1>9, <1>10, <1>11, <1>12 DEF Next, Push, Consume

\* The counters of a new queue agree.
LEMMA CountersInit == Init => CountersAgree
<1> SUFFICES ASSUME Init PROVE CountersAgree
  OBVIOUS
<1>1. elts = <<>> /\ pos = 0 /\ sz = 0 /\ Pending = <<>> /\ QLen = 0 /\ inprogress = 0
  BY DEF Init, elts, Pending, QLen
<1>2. SumCalc(<<>>) = 0
  <2>1. <<>> \in Seq(Entries)
    OBVIOUS
  <2> QED
    BY <2>1, SumCalcType
<1>3. SumFunction(Held) = 0
  <2>1. Held \in [Consumers -> Nat] /\ \A c \in Consumers : Held[c] = 0
    BY DEF Held, Init, NoBatch
  <2>2. Units(Held, Consumers) = {}
    BY <2>1 DEF Units
  <2>3. PICK w \in [Consumers -> Nat] : w = Held
    BY <2>1
  <2>4. SumFunction(w) = Cardinality(Units(w, Consumers))
    BY FinitelyManyConsumers, SumNatural
  <2> QED
    BY <2>2, <2>3, <2>4, FS_EmptySet
<1> QED
  BY <1>1, <1>2, <1>3, BoundsAreNaturals DEF CountersAgree, Held

-----------------------------------------------------------------------------
(***************************************************************************)
(* The inductive invariant: every part needs the ownership of the arrays.  *)
(***************************************************************************)
QueueInv ==
    /\ TypeOK /\ ArraysOwned
    /\ NoLostWakeup /\ Fifo /\ BatchIntact /\ CountersAgree

\* The queue that newIPQueue returns satisfies the inductive invariant.
LEMMA InitInv == Init => QueueInv
<1> SUFFICES ASSUME Init PROVE QueueInv
  OBVIOUS
<1>1. /\ elts = <<>> /\ pos = 0 /\ Len(elts) = 0
  BY DEF Init, elts
<1>2. <<>> \in Seq(Entries)
  OBVIOUS
<1>3. NoBatch \in [buf : Buffers \cup {Nil}, from : Nat, elts : Seq(Entries)]
  BY <1>2 DEF NoBatch
<1>4. TypeOK
  BY <1>2, <1>3, BoundsAreNaturals, ProcessesDisjoint DEF Init, TypeOK
<1>5. ArraysOwned
  BY <1>1, ProcessesDisjoint DEF Init, ArraysOwned
<1>6. NoLostWakeup
  BY <1>1 DEF NoLostWakeup, QLen
<1>7. Fifo
  BY <1>1 DEF Init, Fifo, Pending
<1>8. BatchIntact
  BY ProcessesDisjoint DEF Init, BatchIntact
<1> QED
  BY <1>4, <1>5, <1>6, <1>7, <1>8, CountersInit DEF QueueInv

\* The inductive invariant holds in every state of every execution.
LEMMA InvHolds == Spec => []QueueInv
<1>1. QueueInv /\ [Next]_vars => QueueInv'
  BY TypeStep, OwnedStep, WakeupStep, FifoStep, IntactStep, CountersStep DEF QueueInv
<1> QED
  BY InitInv, <1>1, PTL DEF Spec

\* Type correctness of the queue, for any processes, arrays and limits.
THEOREM TypeCorrect == Spec => []TypeOK
<1>1. QueueInv => TypeOK
  BY DEF QueueInv
<1> QED
  BY InvHolds, <1>1, PTL

(***************************************************************************)
(* No wake-up is lost: while entries are queued a token, a pusher that     *)
(* owes one, or a consumer that took one exists, however many producers    *)
(* and consumers push, pop and drain.                                      *)
(***************************************************************************)
THEOREM NoWakeupLost == Spec => []NoLostWakeup
<1>1. QueueInv => NoLostWakeup
  BY DEF QueueInv
<1> QED
  BY InvHolds, <1>1, PTL

\* push, pop, popOne and drain lose, repeat and reorder no entry.
THEOREM FifoOrder == Spec => []Fifo
<1>1. QueueInv => Fifo
  BY DEF QueueInv
<1> QED
  BY InvHolds, <1>1, PTL

\* A batch returned by pop is not written to until its consumer recycles it.
THEOREM BatchesIntact == Spec => []BatchIntact
<1>1. QueueInv => BatchIntact
  BY DEF QueueInv
<1> QED
  BY InvHolds, <1>1, PTL

(***************************************************************************)
(* In every state q.sz is the size of what is queued, neither limit is     *)
(* exceeded, and q.inprogress counts the entries popped and not yet        *)
(* recycled, whatever the sizes, the limits and the interleaving.          *)
(***************************************************************************)
THEOREM CountersRight == Spec => []CountersAgree
<1>1. QueueInv => CountersAgree
  BY DEF QueueInv
<1> QED
  BY InvHolds, <1>1, PTL

=============================================================================
