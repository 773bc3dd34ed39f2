------------------------------- MODULE Folding -------------------------------
(***************************************************************************)
(* Facts about folds, for every operator.  FoldLeft, and MapThenFoldSet    *)
(* that takes the greatest element last, are the same recursion over the   *)
(* sets of indices; what it computes is shown here once, by induction.     *)
(* The operator is a parameter of the module: a module that folds with an  *)
(* operator of its own takes these lemmas by INSTANCE.  Its first two      *)
(* arguments are what stays the same throughout the fold, of which one may *)
(* be the sequence; the others are what is computed so far and the index.  *)
(***************************************************************************)
EXTENDS Integers, FiniteSets, NaturalsInduction, WellFoundedInduction, TLAPS

CONSTANT Op(_, _, _, _)

Highest(s) == CHOOSE x \in s : \A y \in s : x >= y

FoldStep(f, c, q, b, S) ==
    [s \in SUBSET S |-> IF s = {} THEN b ELSE Op(c, q, f[s \ {Highest(s)}], Highest(s))]

Folds(c, q, b, S) == CHOOSE f : f = FoldStep(f, c, q, b, S)

\* The fold over the indices S, from b on.
Fold(c, q, b, S) == Folds(c, q, b, S)[S]

\* The sets that can be folded over.
Indices(S) == \E n \in Nat : S \subseteq 1 .. n

-----------------------------------------------------------------------------
\* A nonempty set of numbers has a least one.
LEMMA LeastOf ==
    ASSUME NEW A \in SUBSET Nat, A # {}
    PROVE  \E a \in A : \A x \in A : a <= x
  <1> DEFINE R == {ss \in Nat \X Nat : ss[1] < ss[2]}
  <1>1. IsWellFoundedOn(R, Nat)
    BY NatLessThanWellFounded DEF OpToRel
  <1>2. \A x, y \in Nat : <<y, x>> \notin R => x <= y
    OBVIOUS
  <1> HIDE DEF R
  <1>3. \E x \in A : \A y \in A : ~(<<y, x>> \in R)
    BY <1>1, WFMin
  <1>4. QED
    BY <1>2, <1>3

\* Induction up to n, for a set instead of a predicate.
LEMMA UpTo ==
    ASSUME NEW n \in Nat, NEW G, 0 \in G,
           \A k \in 1 .. n : k - 1 \in G => k \in G
    PROVE  n \in G
  <1> SUFFICES ASSUME n \notin G PROVE FALSE
    OBVIOUS
  <1> DEFINE A == {k \in 0 .. n : k \notin G}
  <1>1. A \in SUBSET Nat /\ A # {}
    OBVIOUS
  <1>2. PICK a \in A : \A x \in A : a <= x
    BY <1>1, LeastOf
  <1>3. a \in 1 .. n /\ a - 1 \in 0 .. n /\ a \notin G
    BY <1>2
  <1>4. a - 1 \in G
    BY <1>2, <1>3
  <1>5. QED
    BY <1>3, <1>4

\* The greatest number of a set that ends with k.
LEMMA HighestIs ==
    ASSUME NEW k \in Nat, NEW s \in SUBSET (1 .. k), k \in s
    PROVE  Highest(s) = k
  <1>1. \A y \in s : k >= y
    OBVIOUS
  <1>2. PICK h : h = Highest(s)
    OBVIOUS
  <1>3. h \in s /\ \A y \in s : h >= y
    BY <1>1, <1>2 DEF Highest
  <1>4. h >= k /\ k >= h /\ h \in Int
    BY <1>1, <1>3
  <1>5. QED
    BY <1>2, <1>4

\* A nonempty set of numbers up to k that does not end with k.
LEMMA HighestBelow ==
    ASSUME NEW k \in Nat, NEW s \in SUBSET (1 .. k), s # {}
    PROVE  Highest(s) \in s /\ s \ {Highest(s)} \in SUBSET (1 .. k - 1)
  <1> DEFINE G == {j \in 0 .. k : \A u \in SUBSET (1 .. j) :
                        u # {} => \E h \in u : \A y \in u : h >= y}
  <1>1. 0 \in G
    <2>1. 1 .. 0 = {} /\ 0 \in 0 .. k
      OBVIOUS
    <2>2. \A u \in SUBSET (1 .. 0) : u = {}
      BY <2>1
    <2>3. \A u \in SUBSET (1 .. 0) : u # {} => \E h \in u : \A y \in u : h >= y
      BY <2>2, Zenon
    <2>4. QED
      BY <2>1, <2>3, Zenon
  <1>2. ASSUME NEW j \in 1 .. k, j - 1 \in G PROVE j \in G
    <2>1. ASSUME NEW u \in SUBSET (1 .. j), u # {} PROVE \E h \in u : \A y \in u : h >= y
      <3>1. CASE j \in u
        BY <3>1
      <3>2. CASE j \notin u
        <4>1. u \in SUBSET (1 .. j - 1)
          BY <3>2
        <4>2. QED
          BY <1>2, <2>1, <4>1
      <3>3. QED
        BY <3>1, <3>2
    <2>2. QED
      BY <2>1
  <1>3. k \in G
    <2> HIDE DEF G
    <2>1. QED
      BY <1>1, <1>2, UpTo
  <1>4. PICK h \in s : \A y \in s : h >= y
    BY <1>3
  <1>5. PICK g : g = Highest(s)
    OBVIOUS
  <1>6. g \in s /\ \A y \in s : g >= y
    BY <1>4, <1>5 DEF Highest
  <1>7. s \ {g} \in SUBSET (1 .. k - 1)
    <2>1. ASSUME NEW y \in s, y # g PROVE y \in 1 .. k - 1
      BY <1>6, <2>1
    <2>2. QED
      BY <2>1
  <1>8. QED
    BY <1>5, <1>6, <1>7

\* The recursion has a solution, for every finite set of indices.
LEMMA FoldsExist ==
    ASSUME NEW c, NEW q, NEW b, NEW S, Indices(S)
    PROVE  Folds(c, q, b, S) = FoldStep(Folds(c, q, b, S), c, q, b, S)
  <1>0. PICK n \in Nat : S \in SUBSET (1 .. n)
    BY DEF Indices
  <1> DEFINE D(k) == S \cap (1 .. k)
             Body(f, s) == IF s = {} THEN b ELSE Op(c, q, f[s \ {Highest(s)}], Highest(s))
             G == {k \in 0 .. n : \E f : f = [s \in SUBSET D(k) |-> Body(f, s)]}
  <1>1. 0 \in G
    <2>1. SUBSET D(0) = {{}}
      OBVIOUS
    <2>2. PICK f : f = [s \in {{}} |-> b]
      OBVIOUS
    <2>3. f = [s \in SUBSET D(0) |-> Body(f, s)]
      BY <2>1, <2>2
    <2>4. 0 \in 0 .. n
      OBVIOUS
    <2>5. QED
      BY <2>3, <2>4, Zenon
  <1>2. ASSUME NEW k \in 1 .. n, k - 1 \in G PROVE k \in G
    <2>1. PICK f : f = [s \in SUBSET D(k - 1) |-> Body(f, s)]
      BY <1>2
    <2>2. CASE k \notin S
      <3>1. D(k) = D(k - 1)
        <4>1. 1 .. k = (1 .. k - 1) \cup {k}
          OBVIOUS
        <4>2. QED
          BY <2>2, <4>1
      <3>2. f = [s \in SUBSET D(k) |-> Body(f, s)]
        BY <2>1, <3>1, Zenon
      <3>3. k \in 0 .. n
        OBVIOUS
      <3>4. QED
        BY <3>2, <3>3, Zenon
    <2>3. CASE k \in S
      <3>1. PICK g : g = [s \in SUBSET D(k) |->
                             IF k \in s THEN Op(c, q, f[s \ {k}], k) ELSE f[s]]
        OBVIOUS
      <3>2. ASSUME NEW s \in SUBSET D(k), k \in s
            PROVE  g[s] = Body(g, s)
        <4>1. Highest(s) = k
          BY <3>2, HighestIs
        <4>2. s \ {k} \in SUBSET D(k) /\ k \notin s \ {k}
          OBVIOUS
        <4>3. g[s \ {k}] = f[s \ {k}]
          BY <3>1, <4>2
        <4>4. QED
          BY <3>1, <3>2, <4>1, <4>3
      <3>3. ASSUME NEW s \in SUBSET D(k), k \notin s
            PROVE  g[s] = Body(g, s)
        <4>1. s \in SUBSET D(k - 1)
          BY <3>3
        <4>2. g[s] = Body(f, s)
          BY <2>1, <3>1, <3>3, <4>1
        <4>3. CASE s = {}
          BY <4>2, <4>3
        <4>4. CASE s # {}
          <5>1. Highest(s) \in s /\ s \ {Highest(s)} \in SUBSET D(k) /\ k \notin s \ {Highest(s)}
            BY <3>3, <4>4, HighestBelow
          <5>2. g[s \ {Highest(s)}] = f[s \ {Highest(s)}]
            BY <3>1, <5>1
          <5>3. QED
            BY <4>2, <4>4, <5>2
        <4>5. QED
          BY <4>3, <4>4
      <3>4. g = [s \in SUBSET D(k) |-> Body(g, s)]
        <4>1. ASSUME NEW s \in SUBSET D(k) PROVE g[s] = Body(g, s)
          BY <3>2, <3>3
        <4>2. g = [s \in SUBSET D(k) |-> g[s]]
          BY <3>1
        <4> HIDE DEF Body, D
        <4>3. QED
          BY <4>1, <4>2
      <3>5. QED
        BY <3>4
    <2>4. QED
      BY <2>2, <2>3
  <1>3. n \in G
    <2> HIDE DEF G
    <2>1. QED
      BY <1>1, <1>2, UpTo
  <1>4. D(n) = S
    BY <1>0
  <1>5. PICK f : f = [s \in SUBSET S |-> Body(f, s)]
    BY <1>3, <1>4
  <1>6. f = FoldStep(f, c, q, b, S)
    BY <1>5 DEF FoldStep
  <1>7. QED
    BY <1>6 DEF Folds

\* What the fold has for a set of indices.
LEMMA FoldsValue ==
    ASSUME NEW c, NEW q, NEW b, NEW S, Indices(S), NEW s \in SUBSET S
    PROVE  Folds(c, q, b, S)[s]
             = IF s = {} THEN b
               ELSE Op(c, q, Folds(c, q, b, S)[s \ {Highest(s)}], Highest(s))
  <1>1. PICK f : f = Folds(c, q, b, S)
    OBVIOUS
  <1>2. f = FoldStep(f, c, q, b, S)
    BY <1>1, FoldsExist
  <1>3. f[s] = IF s = {} THEN b ELSE Op(c, q, f[s \ {Highest(s)}], Highest(s))
    BY <1>2 DEF FoldStep
  <1>4. QED
    BY <1>1, <1>3

\* What it has for a set with k as its greatest number.
LEMMA FoldsOne ==
    ASSUME NEW c, NEW q, NEW b, NEW S, Indices(S), NEW V \in SUBSET S, V # {},
           NEW k, k = Highest(V), NEW D, D = V \ {k}
    PROVE  Folds(c, q, b, S)[V] = Op(c, q, Folds(c, q, b, S)[D], k)
  BY FoldsValue

\* A fold of the first indices goes on as a fold of all.
LEMMA FoldsAgree ==
    ASSUME NEW c, NEW q, NEW b, NEW S, Indices(S), NEW U, U \subseteq S
    PROVE  Folds(c, q, b, S)[U] = Folds(c, q, b, U)[U]
  <1>1. PICK n \in Nat : S \in SUBSET (1 .. n)
    BY DEF Indices
  <1> DEFINE D(k) == U \cap (1 .. k)
             G == {k \in 0 .. n : Folds(c, q, b, S)[D(k)] = Folds(c, q, b, U)[D(k)]}
  <1>2. Indices(U)
    BY DEF Indices
  <1>3. 0 \in G
    <2>1. D(0) = {} /\ 0 \in 0 .. n /\ {} \in SUBSET S /\ {} \in SUBSET U
      OBVIOUS
    <2>2. Folds(c, q, b, S)[{}] = b
      BY <2>1, FoldsValue
    <2>3. Folds(c, q, b, U)[{}] = b
      BY <1>2, <2>1, FoldsValue
    <2>4. QED
      BY <2>1, <2>2, <2>3
  <1>4. ASSUME NEW k \in 1 .. n, k - 1 \in G PROVE k \in G
    <2>1. Folds(c, q, b, S)[D(k - 1)] = Folds(c, q, b, U)[D(k - 1)] /\ k \in 0 .. n
      BY <1>4
    <2>2. CASE k \notin U
      <3>1. D(k) = D(k - 1)
        <4>1. 1 .. k = (1 .. k - 1) \cup {k}
          OBVIOUS
        <4>2. QED
          BY <2>2, <4>1
      <3>2. QED
        BY <2>1, <3>1, Zenon
    <2>3. CASE k \in U
      <3>1. /\ D(k) # {} /\ D(k - 1) = D(k) \ {k} /\ D(k) \in SUBSET S
            /\ D(k) \in SUBSET U /\ D(k) \in SUBSET (1 .. k) /\ k \in D(k)
        BY <2>3
      <3>2. Highest(D(k)) = k
        BY <3>1, HighestIs
      <3> HIDE DEF D
      <3>3. Folds(c, q, b, S)[D(k)] = Op(c, q, Folds(c, q, b, S)[D(k - 1)], k)
        BY <3>1, <3>2, FoldsOne
      <3>4. Folds(c, q, b, U)[D(k)] = Op(c, q, Folds(c, q, b, U)[D(k - 1)], k)
        BY <1>2, <3>1, <3>2, FoldsOne
      <3>5. QED
        BY <2>1, <3>3, <3>4
    <2>4. QED
      BY <2>2, <2>3
  <1>5. n \in G
    <2> HIDE DEF G
    <2>1. QED
      BY <1>3, <1>4, UpTo
  <1>6. D(n) = U
    BY <1>1
  <1>7. QED
    BY <1>5, <1>6

\* Folding one index more, greater than all others.
LEMMA FoldOne ==
    ASSUME NEW c, NEW q, NEW b, NEW k \in Nat \ {0}, NEW S, S \subseteq 1 .. k - 1
    PROVE  Fold(c, q, b, S \cup {k}) = Op(c, q, Fold(c, q, b, S), k)
  <1>1. PICK V : V = S \cup {k}
    OBVIOUS
  <1>2. /\ Indices(V) /\ V \in SUBSET V /\ V # {} /\ S = V \ {k} /\ S \subseteq V
        /\ V \in SUBSET (1 .. k) /\ k \in V /\ k \in Nat
    BY <1>1 DEF Indices
  <1>3. Highest(V) = k
    BY <1>2, HighestIs
  <1>4. Folds(c, q, b, V)[V] = Op(c, q, Folds(c, q, b, V)[S], k)
    BY <1>2, <1>3, FoldsOne
  <1>5. Folds(c, q, b, V)[S] = Folds(c, q, b, S)[S]
    BY <1>2, FoldsAgree
  <1>6. QED
    BY <1>1, <1>4, <1>5 DEF Fold

\* Induction over a fold: T[k] holds what may have been computed when the items
\* up to k are taken in.
LEMMA FoldKeeps ==
    ASSUME NEW c, NEW q, NEW b, NEW n \in Nat, NEW S \in SUBSET (1 .. n),
           NEW T, b \in T[0],
           \A k \in 1 .. n : \A t \in T[k - 1] :
               IF k \in S THEN Op(c, q, t, k) \in T[k] ELSE t \in T[k]
    PROVE  Fold(c, q, b, S) \in T[n]
  <1>1. PICK f : f = Folds(c, q, b, S)
    OBVIOUS
  <1>2. ASSUME NEW s \in SUBSET S
        PROVE  f[s] = IF s = {} THEN b ELSE Op(c, q, f[s \ {Highest(s)}], Highest(s))
    <2>1. Indices(S)
      BY DEF Indices
    <2>2. f = FoldStep(f, c, q, b, S)
      BY <1>1, <2>1, FoldsExist
    <2>3. QED
      BY <2>2 DEF FoldStep
  <1> DEFINE D(k) == S \cap (1 .. k)
             G == {k \in 0 .. n : f[D(k)] \in T[k]}
  <1>3. 0 \in G
    <2>1. D(0) = {} /\ D(0) \in SUBSET S
      OBVIOUS
    <2>2. f[{}] = b
      BY <1>2
    <2>3. f[D(0)] \in T[0]
      BY <2>1, <2>2
    <2>4. QED
      BY <2>3
  <1>4. ASSUME NEW k \in 1 .. n, k - 1 \in G PROVE k \in G
    <2>1. D(k - 1) \in SUBSET S /\ D(k) \in SUBSET S /\ f[D(k - 1)] \in T[k - 1]
      BY <1>4
    <2>2. CASE k \notin S
      <3>1. D(k) = D(k - 1)
        <4>1. 1 .. k = (1 .. k - 1) \cup {k}
          OBVIOUS
        <4>2. QED
          BY <2>2, <4>1
      <3>2. f[D(k)] \in T[k - 1]
        BY <2>1, <3>1, Zenon
      <3>3. f[D(k)] \in T[k]
        BY <2>2, <3>2, Zenon
      <3>4. k \in 0 .. n
        OBVIOUS
      <3>5. QED
        BY <3>3, <3>4, Zenon
    <2>3. CASE k \in S
      <3>1. k \in D(k) /\ D(k) # {} /\ D(k) \ {k} = D(k - 1) /\ D(k) \in SUBSET (1 .. k)
        BY <2>3
      <3>2. Highest(D(k)) = k
        BY <3>1, HighestIs
      <3>3. f[D(k)] = Op(c, q, f[D(k - 1)], k)
        BY <1>2, <2>1, <3>1, <3>2
      <3>4. QED
        BY <2>1, <2>3, <3>3
    <2>4. QED
      BY <2>2, <2>3
  <1>5. n \in G
    <2> HIDE DEF G
    <2>1. QED
      BY <1>3, <1>4, UpTo
  <1>6. D(n) = S
    OBVIOUS
  <1>7. QED
    BY <1>1, <1>5, <1>6 DEF Fold

\* A set that the operator does not leave holds the result of the fold.
LEMMA FoldStays ==
    ASSUME NEW c, NEW q, NEW S, Indices(S), NEW W, NEW b \in W,
           \A k \in S : \A t \in W : Op(c, q, t, k) \in W
    PROVE  Fold(c, q, b, S) \in W
  <1>1. PICK n \in Nat : S \in SUBSET (1 .. n)
    BY DEF Indices
  <1>2. PICK T : T = [k \in 0 .. n |-> W]
    OBVIOUS
  <1>3. b \in T[0] /\ T[n] = W
    BY <1>2
  <1>4. ASSUME NEW k \in 1 .. n, NEW t \in T[k - 1]
        PROVE  IF k \in S THEN Op(c, q, t, k) \in T[k] ELSE t \in T[k]
    BY <1>2, <1>4
  <1>5. Fold(c, q, b, S) \in T[n]
    BY <1>1, <1>3, <1>4, FoldKeeps
  <1>6. QED
    BY <1>3, <1>5

\* The fold of nothing.
LEMMA FoldNothing ==
    ASSUME NEW c, NEW q, NEW b
    PROVE  Fold(c, q, b, {}) = b
  <1>1. Indices({})
    BY 0 \in Nat DEF Indices
  <1>2. Fold(c, q, b, {}) \in {b}
    BY <1>1, FoldStays
  <1>3. QED
    BY <1>2

\* A fold is the same if the operator does the same with every index.
LEMMA FoldSame ==
    ASSUME NEW c, NEW q, NEW d, NEW p, NEW b, NEW n \in Nat, NEW S \in SUBSET (1 .. n),
           \A k \in S : \A t : Op(c, q, t, k) = Op(d, p, t, k)
    PROVE  Fold(c, q, b, S) = Fold(d, p, b, S)
  <1> DEFINE D(k) == S \cap (1 .. k)
             G == {k \in 0 .. n : Fold(c, q, b, D(k)) = Fold(d, p, b, D(k))}
  <1>1. 0 \in G
    <2>1. D(0) = {} /\ 0 \in 0 .. n
      OBVIOUS
    <2>2. Fold(c, q, b, {}) = Fold(d, p, b, {})
      BY FoldNothing
    <2>3. QED
      BY <2>1, <2>2
  <1>2. ASSUME NEW k \in 1 .. n, k - 1 \in G PROVE k \in G
    <2>1. Fold(c, q, b, D(k - 1)) = Fold(d, p, b, D(k - 1)) /\ k \in 0 .. n
      BY <1>2
    <2>2. CASE k \notin S
      <3>1. D(k) = D(k - 1)
        <4>1. 1 .. k = (1 .. k - 1) \cup {k}
          OBVIOUS
        <4>2. QED
          BY <2>2, <4>1
      <3>2. QED
        BY <2>1, <3>1, Zenon
    <2>3. CASE k \in S
      <3>1. D(k) = D(k - 1) \cup {k} /\ D(k - 1) \subseteq 1 .. k - 1 /\ k \in Nat \ {0}
        BY <2>3
      <3> HIDE DEF D
      <3>2. Fold(c, q, b, D(k - 1) \cup {k}) = Op(c, q, Fold(c, q, b, D(k - 1)), k)
        BY <3>1, FoldOne
      <3>3. Fold(d, p, b, D(k - 1) \cup {k}) = Op(d, p, Fold(d, p, b, D(k - 1)), k)
        BY <3>1, FoldOne
      <3>4. QED
        BY <2>1, <2>3, <3>1, <3>2, <3>3
    <2>4. QED
      BY <2>2, <2>3
  <1>3. n \in G
    <2> HIDE DEF G
    <2>1. QED
      BY <1>1, <1>2, UpTo
  <1>4. D(n) = S
    OBVIOUS
  <1>5. QED
    BY <1>3, <1>4
=============================================================================
