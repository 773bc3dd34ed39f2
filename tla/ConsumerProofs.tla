--------------------------- MODULE ConsumerProofs ---------------------------
(***************************************************************************)
(* Proofs about a consumer: for every configuration, whatever leaders,     *)
(* restarts, failures and removals come, only what is pending is queued    *)
(* for redelivery, and the timer is armed while anything is pending.       *)
(***************************************************************************)
EXTENDS Consumer, SequenceTheorems, FiniteSetTheorems, TLAPS

(***************************************************************************)
(* The types of what the actions compute.  D are the sequences of the      *)
(* stream.                                                                 *)
(***************************************************************************)
Maps(D, R) == UNION {[S -> R] : S \in SUBSET D}

Positive == Nat \ {0}
Counts == 0 .. Width - 1

OpType(D) ==
    {p \in [op : {"delivered", "acks", "skip", "reset"}, d : Nat, s : Positive, dc : Counts] :
        p.op = "delivered" => p.d \in Positive /\ p.s \in D}

StoreType(D) ==
    [dc : Nat, ds : Nat, ac : Nat, as : Nat, pending : Maps(D, Positive), redel : Maps(D, Counts)]

LeaderType(D) ==
    [sseq : Positive, dseq : Positive, adflr : Nat, asflr : Nat, pending : Maps(D, Positive),
     rdc : Maps(D, Counts), rdq : Seq(D), ptmr : BOOLEAN, active : BOOLEAN, waiting : Int,
     pd : Maps(D, Nat)]

\* The sequences of a stream are its first numbers.
Numbered(D) == \E n \in Nat : D = 1 .. n

NoRepeats(q) == \A i, j \in DOMAIN q : q[i] = q[j] => i = j

\* What the redelivery of pending messages rests on.
Due(x) ==
    /\ NoRepeats(x.rdq)
    /\ ToSet(x.rdq) \subseteq DOMAIN x.pending
    /\ DOMAIN x.pending # {} => x.ptmr

Leaders(D) == {x \in LeaderType(D) : Due(x)}

Works(D) == [o : Leaders(D), ops : Seq(OpType(D)), write : BOOLEAN, up : SUBSET D]

(***************************************************************************)
(* The inductive invariant: the types, with no message twice in the queue. *)
(***************************************************************************)
KeptDue ==
    /\ cfg \in Configs /\ lead \in Replica
    /\ o \in Leaders(Seqs)
    /\ stores \in [Replica -> StoreType(Seqs)] /\ disk \in StoreType(Seqs)
    /\ phead \in [Replica -> Seq(OpType(Seqs))]

TrafficDue ==
    /\ last \in 0 .. cfg.n /\ msgs \subseteq 1 .. last
    /\ held \subseteq Seqs \X Nat
    /\ terms \subseteq Replica \X Seqs \X Nat

DueInv == KeptDue /\ TrafficDue

-----------------------------------------------------------------------------
(***************************************************************************)
(* Facts about the folds of the consumer, from Folding.                    *)
(***************************************************************************)
DropItem(S, q, r, i) == IF q[i] \in S THEN r ELSE Append(r, q[i])
ExpireItem(c, q, w, s) == Expire(w, s)
ApplyItem(c, ops, st, i) == ApplyOp(st, ops[i])
AckItem(c, pending, ops, s) == Append(ops, Op("acks", pending[s], s, 0))

Drops == INSTANCE Folding WITH Op <- DropItem
Expires == INSTANCE Folding WITH Op <- ExpireItem
Applies == INSTANCE Folding WITH Op <- ApplyItem
Acks == INSTANCE Folding WITH Op <- AckItem

\* The operators of the model are the folds that the lemmas are about.
LEMMA DroppingFold ==
    ASSUME NEW q, NEW S
    PROVE  Dropping(q, S) = Drops!Fold(S, q, <<>>, DOMAIN q)
  BY DEF Dropping, FoldLeft, MapThenFoldSet, Max, Drops!Fold, Drops!Folds, Drops!FoldStep,
         Drops!Highest, DropItem

\* The expiry of several messages.
LEMMA ExpireFold ==
    ASSUME NEW w, NEW E
    PROVE  ExpireAll(w, E) = Expires!Fold(0, 0, w, E)
  BY DEF ExpireAll, MapThenFoldSet, Max, Expires!Fold, Expires!Folds, Expires!FoldStep,
         Expires!Highest, ExpireItem

\* The application of several updates.
LEMMA ApplyFold ==
    ASSUME NEW st, NEW ops
    PROVE  ApplyOps(st, ops) = Applies!Fold(0, ops, st, DOMAIN ops)
  BY DEF ApplyOps, FoldLeft, MapThenFoldSet, Max, Applies!Fold, Applies!Folds,
         Applies!FoldStep, Applies!Highest, ApplyItem

\* The updates that a purge makes.
LEMMA AcksFold ==
    ASSUME NEW pending, NEW gone
    PROVE  AcksOf(pending, gone) = Acks!Fold(0, pending, <<>>, gone)
  BY DEF AcksOf, MapThenFoldSet, Max, Acks!Fold, Acks!Folds, Acks!FoldStep,
         Acks!Highest, AckItem

-----------------------------------------------------------------------------
(***************************************************************************)
(* Numbers and maps.                                                       *)
(***************************************************************************)
\* The least of a set of numbers is in it.
LEMMA MinOf ==
    ASSUME NEW S \in SUBSET Nat, S # {}
    PROVE  Min(S) \in S
  <1>1. \E a \in S : \A x \in S : a <= x
    BY Drops!LeastOf
  <1>2. QED
    BY <1>1 DEF Min

\* Numbers that have a bound have a greatest one.
LEMMA MaxOf ==
    ASSUME NEW S \in SUBSET Nat, S # {}, NEW b \in Nat, \A x \in S : x <= b
    PROVE  Max(S) \in S
  <1> DEFINE A == {b - x : x \in S}
  <1>1. A \in SUBSET Nat /\ A # {}
    <2>1. \A x \in S : b - x \in Nat
      OBVIOUS
    <2>2. PICK x \in S : TRUE
      OBVIOUS
    <2>3. b - x \in A
      OBVIOUS
    <2>4. QED
      BY <2>1, <2>3
  <1>2. PICK a \in A : \A y \in A : a <= y
    BY <1>1, Drops!LeastOf
  <1>3. PICK m \in S : a = b - m
    OBVIOUS
  <1>4. \A x \in S : m >= x
    <2>1. ASSUME NEW x \in S PROVE m >= x
      <3>1. b - x \in A
        OBVIOUS
      <3>2. b - m <= b - x
        BY <1>2, <1>3, <3>1
      <3>3. QED
        BY <3>2
    <2>2. QED
      BY <2>1
  <1>5. QED
    BY <1>4 DEF Max

\* What a map is.
LEMMA MapIs ==
    ASSUME NEW D, NEW R, NEW f
    PROVE  f \in Maps(D, R) <=> /\ f = [x \in DOMAIN f |-> f[x]]
                                /\ DOMAIN f \subseteq D
                                /\ \A x \in DOMAIN f : f[x] \in R
  <1>1. ASSUME f \in Maps(D, R)
        PROVE  /\ f = [x \in DOMAIN f |-> f[x]]
               /\ DOMAIN f \subseteq D
               /\ \A x \in DOMAIN f : f[x] \in R
    <2>1. PICK S \in SUBSET D : f \in [S -> R]
      BY <1>1 DEF Maps
    <2>2. QED
      BY <2>1
  <1>2. ASSUME f = [x \in DOMAIN f |-> f[x]], DOMAIN f \subseteq D,
               \A x \in DOMAIN f : f[x] \in R
        PROVE  f \in Maps(D, R)
    <2>1. DOMAIN f \in SUBSET D /\ f \in [DOMAIN f -> R]
      BY <1>2
    <2>2. QED
      BY <2>1 DEF Maps
  <1>3. QED
    BY <1>1, <1>2

\* The empty map.
LEMMA EmptyIs ==
    ASSUME NEW D, NEW R
    PROVE  Empty \in Maps(D, R) /\ DOMAIN Empty = {}
  <1>1. PICK e : e = [s \in {} |-> 0]
    OBVIOUS
  <1>2. DOMAIN e = {} /\ e = [x \in DOMAIN e |-> e[x]] /\ \A x \in DOMAIN e : e[x] \in R
    BY <1>1
  <1>3. e \in Maps(D, R)
    BY <1>2, MapIs
  <1>4. QED
    BY <1>1, <1>2, <1>3 DEF Empty

\* Taking keys out of a map.
LEMMA WithoutIs ==
    ASSUME NEW D, NEW R, NEW f \in Maps(D, R), NEW S
    PROVE  /\ Without(f, S) \in Maps(D, R)
           /\ \A x : x \in DOMAIN Without(f, S) <=> x \in DOMAIN f /\ x \notin S
  <1>1. f = [x \in DOMAIN f |-> f[x]] /\ DOMAIN f \subseteq D /\ \A x \in DOMAIN f : f[x] \in R
    BY MapIs
  <1>2. Without(f, S) = [x \in DOMAIN f \ S |-> f[x]]
    BY DEF Without, Restrict
  <1>3. QED
    BY <1>1, <1>2, MapIs

\* Taking one key out of a map.
LEMMA WithoutOne ==
    ASSUME NEW D, NEW R, NEW f \in Maps(D, R), NEW s
    PROVE  /\ Without(f, {s}) \in Maps(D, R)
           /\ \A x : x \in DOMAIN Without(f, {s}) <=> x \in DOMAIN f /\ x # s
  <1>1. PICK S : S = {s}
    OBVIOUS
  <1>2. /\ Without(f, S) \in Maps(D, R)
        /\ \A x : x \in DOMAIN Without(f, S) <=> x \in DOMAIN f /\ x \notin S
    BY WithoutIs
  <1>3. QED
    BY <1>1, <1>2

\* Putting a key into a map.
LEMMA WithIs ==
    ASSUME NEW D, NEW R, NEW f \in Maps(D, R), NEW s \in D, NEW v \in R
    PROVE  /\ With(f, s, v) \in Maps(D, R)
           /\ \A x : x \in DOMAIN With(f, s, v) <=> x \in DOMAIN f \/ x = s
  <1>1. f = [x \in DOMAIN f |-> f[x]] /\ DOMAIN f \subseteq D /\ \A x \in DOMAIN f : f[x] \in R
    BY MapIs
  <1>2. With(f, s, v) = [x \in DOMAIN f \cup {s} |-> IF x = s THEN v ELSE f[x]]
    BY DEF With
  <1>3. QED
    BY <1>1, <1>2, MapIs

\* The values of a map of numbers over the first n have a bound.
LEMMA MapBound ==
    ASSUME NEW n \in Nat, NEW f, NEW S \in SUBSET (1 .. n), \A s \in S : f[s] \in Nat
    PROVE  \E b \in Nat : \A s \in S : f[s] <= b
  <1> DEFINE G == {k \in 0 .. n : \E b \in Nat : \A s \in S \cap (1 .. k) : f[s] <= b}
  <1>1. 0 \in G
    <2>1. S \cap (1 .. 0) = {} /\ 0 \in 0 .. n /\ 0 \in Nat
      OBVIOUS
    <2>2. \A s \in S \cap (1 .. 0) : f[s] <= 0
      BY <2>1
    <2>3. QED
      BY <2>1, <2>2
  <1>2. ASSUME NEW k \in 1 .. n, k - 1 \in G PROVE k \in G
    <2>1. PICK b \in Nat : \A s \in S \cap (1 .. k - 1) : f[s] <= b
      BY <1>2
    <2>2. PICK d \in Nat : d >= b /\ (k \in S => d >= f[k])
      <3>1. CASE k \in S /\ f[k] > b
        BY <3>1
      <3>2. CASE ~(k \in S /\ f[k] > b)
        BY <3>2
      <3>3. QED
        BY <3>1, <3>2
    <2>3. \A s \in S \cap (1 .. k) : f[s] <= d
      <3>1. ASSUME NEW s \in S \cap (1 .. k) PROVE f[s] <= d
        <4>1. CASE s = k
          BY <2>2, <4>1
        <4>2. CASE s # k
          <5>1. s \in S \cap (1 .. k - 1) /\ f[s] \in Nat
            BY <4>2
          <5>2. QED
            BY <2>1, <2>2, <5>1
        <4>3. QED
          BY <4>1, <4>2
      <3>2. QED
        BY <3>1
    <2>4. k \in 0 .. n
      OBVIOUS
    <2>5. QED
      BY <2>3, <2>4
  <1>3. n \in G
    <2> HIDE DEF G
    <2>1. QED
      BY <1>1, <1>2, Drops!UpTo
  <1>4. S \cap (1 .. n) = S
    OBVIOUS
  <1>5. QED
    BY <1>3, <1>4

-----------------------------------------------------------------------------
(***************************************************************************)
(* Queues.                                                                 *)
(***************************************************************************)
\* What a queue holds.
LEMMA ToSetIs ==
    ASSUME NEW D, NEW q \in Seq(D)
    PROVE  /\ ToSet(q) \subseteq D
           /\ \A i \in DOMAIN q : q[i] \in ToSet(q)
           /\ \A x \in ToSet(q) : \E i \in DOMAIN q : x = q[i]
           /\ DOMAIN q = 1 .. Len(q) /\ Len(q) \in Nat
  BY DEF ToSet

\* Dropping elements keeps the others, each as often as before.
LEMMA DroppingIs ==
    ASSUME NEW D, NEW q \in Seq(D), NoRepeats(q), NEW S
    PROVE  /\ Dropping(q, S) \in Seq(D)
           /\ ToSet(Dropping(q, S)) \subseteq ToSet(q) \ S
           /\ NoRepeats(Dropping(q, S))
  <1> DEFINE n == Len(q)
             Out(k) == {r \in Seq(D) : /\ NoRepeats(r)
                                       /\ \A i \in DOMAIN r : r[i] \notin S
                                       /\ \A i \in DOMAIN r : \E j \in 1 .. k : r[i] = q[j]}
  <1>1. n \in Nat /\ DOMAIN q = 1 .. n /\ \A k \in 1 .. n : q[k] \in D
    OBVIOUS
  <1>2. PICK T : T = [k \in 0 .. n |-> Out(k)]
    OBVIOUS
  <1>3. <<>> \in T[0]
    <2>1. <<>> \in Seq(D) /\ DOMAIN <<>> = {}
      OBVIOUS
    <2>2. <<>> \in Out(0)
      BY <2>1 DEF NoRepeats
    <2>3. QED
      BY <1>1, <1>2, <2>2
  <1>4. ASSUME NEW k \in 1 .. n, NEW r \in T[k - 1]
        PROVE  IF k \in 1 .. n THEN DropItem(S, q, r, k) \in T[k] ELSE r \in T[k]
    <2>1. /\ r \in Seq(D) /\ NoRepeats(r) /\ \A i \in DOMAIN r : r[i] \notin S
          /\ \A i \in DOMAIN r : \E j \in 1 .. k - 1 : r[i] = q[j]
      BY <1>1, <1>2
    <2>2. CASE q[k] \in S
      <3>1. \A i \in DOMAIN r : \E j \in 1 .. k : r[i] = q[j]
        BY <1>1, <2>1
      <3>2. r \in Out(k)
        BY <2>1, <3>1
      <3>3. QED
        BY <1>1, <1>2, <2>2, <3>2 DEF DropItem
    <2>3. CASE q[k] \notin S
      <3>1. PICK a : a = Append(r, q[k])
        OBVIOUS
      <3>2. /\ a \in Seq(D) /\ DOMAIN a = 1 .. Len(r) + 1 /\ DOMAIN r = 1 .. Len(r)
            /\ Len(r) \in Nat /\ a[Len(r) + 1] = q[k] /\ \A i \in DOMAIN r : a[i] = r[i]
        BY <1>1, <2>1, <3>1
      <3>3. \A i \in DOMAIN r : r[i] # q[k]
        <4>1. ASSUME NEW i \in DOMAIN r PROVE r[i] # q[k]
          <5>1. PICK j \in 1 .. k - 1 : r[i] = q[j]
            BY <2>1
          <5>2. j \in DOMAIN q /\ k \in DOMAIN q /\ j # k
            BY <1>1
          <5>3. QED
            BY <5>1, <5>2 DEF NoRepeats
        <4>2. QED
          BY <4>1
      <3>4. NoRepeats(a)
        BY <2>1, <3>2, <3>3 DEF NoRepeats
      <3>5. \A i \in DOMAIN a : a[i] \notin S
        BY <2>1, <2>3, <3>2
      <3>6. \A i \in DOMAIN a : \E j \in 1 .. k : a[i] = q[j]
        <4>1. ASSUME NEW i \in DOMAIN a PROVE \E j \in 1 .. k : a[i] = q[j]
          <5>1. CASE i \in DOMAIN r
            BY <1>1, <2>1, <3>2, <5>1
          <5>2. CASE i \notin DOMAIN r
            BY <1>1, <3>2, <5>2
          <5>3. QED
            BY <5>1, <5>2
        <4>2. QED
          BY <4>1
      <3>7. a \in Out(k)
        BY <3>2, <3>4, <3>5, <3>6
      <3>8. QED
        BY <1>1, <1>2, <2>3, <3>1, <3>7 DEF DropItem
    <2>4. QED
      BY <2>2, <2>3
  <1>5. Drops!Fold(S, q, <<>>, 1 .. n) \in T[n]
    <2>1. 1 .. n \in SUBSET (1 .. n)
      OBVIOUS
    <2> HIDE DEF n
    <2>2. QED
      BY <1>1, <1>3, <1>4, <2>1, Drops!FoldKeeps
  <1>6. PICK r : r = Dropping(q, S)
    OBVIOUS
  <1>7. r \in Out(n)
    BY <1>1, <1>2, <1>5, <1>6, DroppingFold
  <1>8. ToSet(r) \subseteq ToSet(q) \ S
    BY <1>1, <1>7 DEF ToSet
  <1>9. QED
    BY <1>6, <1>7, <1>8

\* Dropping elements, of a sequence that may repeat itself.
LEMMA DroppingSeq ==
    ASSUME NEW D, NEW q \in Seq(D), NEW S
    PROVE  Dropping(q, S) \in Seq(D)
  <1>1. DOMAIN q = 1 .. Len(q) /\ Len(q) \in Nat /\ <<>> \in Seq(D)
    OBVIOUS
  <1>2. Drops!Indices(DOMAIN q)
    BY <1>1 DEF Drops!Indices
  <1>3. \A k \in DOMAIN q : \A t \in Seq(D) : DropItem(S, q, t, k) \in Seq(D)
    BY DEF DropItem
  <1>4. Drops!Fold(S, q, <<>>, DOMAIN q) \in Seq(D)
    BY <1>1, <1>2, <1>3, Drops!FoldStays
  <1>5. QED
    BY <1>4, DroppingFold

\* Queueing a message that is not queued yet.
LEMMA AppendIs ==
    ASSUME NEW D, NEW q \in Seq(D), NEW s \in D
    PROVE  /\ Append(q, s) \in Seq(D)
           /\ ToSet(Append(q, s)) = ToSet(q) \cup {s}
           /\ NoRepeats(q) /\ s \notin ToSet(q) => NoRepeats(Append(q, s))
  <1>1. PICK a : a = Append(q, s)
    OBVIOUS
  <1>2. /\ a \in Seq(D) /\ DOMAIN a = 1 .. Len(q) + 1 /\ DOMAIN q = 1 .. Len(q)
        /\ Len(q) \in Nat /\ a[Len(q) + 1] = s /\ \A i \in DOMAIN q : a[i] = q[i]
    BY <1>1
  <1>3. ToSet(a) = ToSet(q) \cup {s}
    BY <1>2 DEF ToSet
  <1>4. ASSUME NoRepeats(q), s \notin ToSet(q) PROVE NoRepeats(a)
    <2>1. \A i \in DOMAIN q : q[i] # s
      BY <1>4 DEF ToSet
    <2>2. QED
      BY <1>2, <1>4, <2>1 DEF NoRepeats
  <1>5. QED
    BY <1>1, <1>2, <1>3, <1>4

\* Taking the first message from a queue.
LEMMA TailIs ==
    ASSUME NEW D, NEW q \in Seq(D), q # <<>>, NoRepeats(q)
    PROVE  /\ Head(q) \in D /\ Head(q) \in ToSet(q)
           /\ Tail(q) \in Seq(D) /\ NoRepeats(Tail(q))
           /\ ToSet(Tail(q)) \subseteq ToSet(q) \ {Head(q)}
  <1>1. PICK t : t = Tail(q)
    OBVIOUS
  <1>2. /\ t \in Seq(D) /\ DOMAIN q = 1 .. Len(q) /\ Len(q) \in Nat \ {0}
        /\ DOMAIN t = 1 .. Len(q) - 1 /\ \A i \in DOMAIN t : t[i] = q[i + 1]
        /\ Head(q) = q[1]
    BY <1>1
  <1>3. Head(q) \in D /\ Head(q) \in ToSet(q)
    BY <1>2 DEF ToSet
  <1>4. NoRepeats(t)
    <2>1. ASSUME NEW i \in DOMAIN t, NEW j \in DOMAIN t, t[i] = t[j] PROVE i = j
      <3>1. i + 1 \in DOMAIN q /\ j + 1 \in DOMAIN q /\ q[i + 1] = q[j + 1]
        BY <1>2, <2>1
      <3>2. i + 1 = j + 1
        BY <3>1 DEF NoRepeats
      <3>3. QED
        BY <1>2, <3>2
    <2>2. QED
      BY <2>1 DEF NoRepeats
  <1>5. ASSUME NEW x \in ToSet(t) PROVE x \in ToSet(q) /\ x # Head(q)
    <2>1. PICK i \in DOMAIN t : x = t[i]
      BY DEF ToSet
    <2>2. i + 1 \in DOMAIN q /\ 1 \in DOMAIN q /\ i + 1 # 1 /\ x = q[i + 1]
      BY <1>2, <2>1
    <2>3. q[i + 1] # q[1]
      BY <2>2 DEF NoRepeats
    <2>4. QED
      BY <1>2, <2>2, <2>3 DEF ToSet
  <1>6. QED
    BY <1>1, <1>2, <1>3, <1>4, <1>5

-----------------------------------------------------------------------------
(***************************************************************************)
(* The operators on the state of the leader.                               *)
(***************************************************************************)
\* Messages that are not pending are taken off the queue.
LEMMA LeaderClean ==
    ASSUME NEW D, NEW x \in LeaderType(D), NoRepeats(x.rdq),
           DOMAIN x.pending # {} => x.ptmr, NEW S,
           ToSet(x.rdq) \ S \subseteq DOMAIN x.pending
    PROVE  RemoveFromRedeliverQueue(x, S) \in Leaders(D)
  <1>1. x.rdq \in Seq(D)
    BY DEF LeaderType
  <1>2. PICK q : q = Dropping(x.rdq, S)
    OBVIOUS
  <1>3. q \in Seq(D) /\ ToSet(q) \subseteq ToSet(x.rdq) \ S /\ NoRepeats(q)
    BY <1>1, <1>2, DroppingIs
  <1>4. PICK y : y = [x EXCEPT !.rdq = q]
    OBVIOUS
  <1>5. y \in LeaderType(D) /\ y.rdq = q /\ y.pending = x.pending /\ y.ptmr = x.ptmr
    BY <1>3, <1>4 DEF LeaderType
  <1>6. Due(y)
    BY <1>3, <1>5 DEF Due
  <1>7. QED
    BY <1>2, <1>4, <1>5, <1>6 DEF RemoveFromRedeliverQueue, Leaders

\* Fields of the leader that the redeliveries do not rest on.
LEMMA LeaderIs ==
    ASSUME NEW D, NEW x \in Leaders(D)
    PROVE  /\ x \in LeaderType(D) /\ NoRepeats(x.rdq) /\ ToSet(x.rdq) \subseteq DOMAIN x.pending
           /\ DOMAIN x.pending # {} => x.ptmr
           /\ x.sseq \in Positive /\ x.dseq \in Positive /\ x.adflr \in Nat /\ x.asflr \in Nat
           /\ x.pending \in Maps(D, Positive) /\ x.rdc \in Maps(D, Counts)
           /\ x.rdq \in Seq(D) /\ x.ptmr \in BOOLEAN /\ x.pd \in Maps(D, Nat)
           /\ x.waiting \in Int
           /\ DOMAIN x.pending \subseteq D /\ DOMAIN x.rdc \subseteq D
           /\ \A s \in DOMAIN x.pending : x.pending[s] \in Positive
           /\ \A s \in DOMAIN x.rdc : x.rdc[s] \in Counts
           /\ \A s \in DOMAIN x.pd : x.pd[s] \in Nat
  <1>1. x \in LeaderType(D) /\ Due(x)
    BY DEF Leaders
  <1>2. /\ x.pending \in Maps(D, Positive) /\ x.rdc \in Maps(D, Counts)
        /\ x.pd \in Maps(D, Nat)
    BY <1>1 DEF LeaderType
  <1>3. /\ DOMAIN x.pending \subseteq D /\ DOMAIN x.rdc \subseteq D
        /\ \A s \in DOMAIN x.pending : x.pending[s] \in Positive
        /\ \A s \in DOMAIN x.rdc : x.rdc[s] \in Counts
        /\ \A s \in DOMAIN x.pd : x.pd[s] \in Nat
    BY <1>2, MapIs
  <1>4. QED
    BY <1>1, <1>2, <1>3 DEF LeaderType, Due

\* The floors above what is pending.
LEMMA FloorsAboveIs ==
    ASSUME NEW D, Numbered(D), NEW f \in Maps(D, Positive), NEW d \in Nat, NEW s \in Nat
    PROVE  FloorsAbove(f, d, s)[1] \in Nat /\ FloorsAbove(f, d, s)[2] \in Nat
  <1>1. DOMAIN f \subseteq D /\ \A x \in DOMAIN f : f[x] \in Positive
    BY MapIs
  <1>2. PICK above : above = {x \in DOMAIN f : x > s}
    OBVIOUS
  <1>3. CASE above = {}
    BY <1>2, <1>3 DEF FloorsAbove
  <1>4. CASE above # {}
    <2>1. above \in SUBSET Nat
      BY <1>1, <1>2 DEF Numbered
    <2>2. Min(above) \in above
      BY <1>4, <2>1, MinOf
    <2>3. PICK m : m = Min(above)
      OBVIOUS
    <2>4. m \in DOMAIN f /\ m > s /\ m \in Nat /\ f[m] \in Positive
      BY <1>1, <1>2, <2>1, <2>2, <2>3
    <2>5. FloorsAbove(f, d, s) = <<f[m] - 1, m - 1>>
      BY <1>2, <1>4, <2>3 DEF FloorsAbove
    <2>6. QED
      BY <2>4, <2>5 DEF Positive
  <1>5. QED
    BY <1>3, <1>4

\* moveAckFloor changes the floors only.
LEMMA MoveAckFloorIs ==
    ASSUME NEW D, Numbered(D), NEW x \in LeaderType(D), NEW d \in Nat, NEW s \in Nat
    PROVE  /\ MoveAckFloor(x, d, s) \in LeaderType(D)
           /\ MoveAckFloor(x, d, s).rdq = x.rdq
           /\ MoveAckFloor(x, d, s).pending = x.pending
           /\ MoveAckFloor(x, d, s).ptmr = x.ptmr
           /\ MoveAckFloor(x, d, s).rdc = x.rdc
  <1>1. /\ x.pending \in Maps(D, Positive) /\ x.adflr \in Nat /\ x.asflr \in Nat
        /\ x.dseq \in Positive /\ x.sseq \in Positive
    BY DEF LeaderType
  <1>2. FloorsAbove(x.pending, d, s)[1] \in Nat /\ FloorsAbove(x.pending, d, s)[2] \in Nat
    BY <1>1, FloorsAboveIs
  <1>3. PICK fl : fl = IF DOMAIN x.pending = {} THEN <<x.dseq - 1, x.sseq - 1>>
                       ELSE IF d # x.adflr + 1 THEN <<x.adflr, x.asflr>>
                       ELSE FloorsAbove(x.pending, d, s)
    OBVIOUS
  <1>4. fl[1] \in Nat /\ fl[2] \in Nat
    BY <1>1, <1>2, <1>3 DEF Positive
  <1>5. MoveAckFloor(x, d, s) = [x EXCEPT !.adflr = fl[1], !.asflr = fl[2]]
    BY <1>3 DEF MoveAckFloor
  <1>6. QED
    BY <1>4, <1>5 DEF LeaderType

\* A record of work is made of its parts.
LEMMA WorkIs ==
    ASSUME NEW D, NEW w \in Works(D)
    PROVE  /\ w.o \in Leaders(D) /\ w.ops \in Seq(OpType(D)) /\ w.write \in BOOLEAN
           /\ w.up \in SUBSET D
  BY DEF Works

\* What starts from a state of the leader.
LEMMA WorkStart ==
    ASSUME NEW D, NEW x \in Leaders(D)
    PROVE  Work(x) \in Works(D) /\ Work(x).o = x
  <1>1. <<>> \in Seq(OpType(D)) /\ {} \in SUBSET D /\ FALSE \in BOOLEAN
    OBVIOUS
  <1>2. QED
    BY <1>1 DEF Work, Works

\* The leader of a record of work is replaced.
LEMMA WorkLeader ==
    ASSUME NEW D, NEW w \in Works(D), NEW x \in Leaders(D)
    PROVE  [w EXCEPT !.o = x] \in Works(D) /\ [w EXCEPT !.o = x].o = x
  BY DEF Works

\* An update is added to a record of work.
LEMMA EmitIs ==
    ASSUME NEW D, NEW w \in Works(D), NEW p \in OpType(D)
    PROVE  Emit(w, p) \in Works(D) /\ Emit(w, p).o = w.o
  <1>1. Append(w.ops, p) \in Seq(OpType(D))
    BY WorkIs
  <1>2. QED
    BY <1>1 DEF Emit, Works

\* The updates that the consumer makes.
LEMMA OpIs ==
    ASSUME NEW D, NEW d \in Nat, NEW s \in Positive, NEW dc \in Counts
    PROVE  /\ Op("acks", d, s, dc) \in OpType(D)
           /\ Op("skip", d, s, dc) \in OpType(D)
           /\ Op("reset", d, s, dc) \in OpType(D)
           /\ d # 0 /\ s \in D => Op("delivered", d, s, dc) \in OpType(D)
  BY DEF Op, OpType, Positive

\* Zero is a count, and so is one.
LEMMA CountIs ==
    /\ 0 \in Counts /\ 1 \in Counts
    /\ \A i \in Nat : i % Width \in Counts
  BY WidthAssumption DEF Counts

\* Giving up a message that is not queued.
LEMMA GiveUpIs ==
    ASSUME NEW D, Numbered(D), NEW w \in Works(D), NEW s \in D, NEW dc \in Counts,
           s \notin ToSet(w.o.rdq)
    PROVE  GiveUpPending(w, s, dc) \in Works(D)
  <1>1. CASE s \notin DOMAIN w.o.pending
    BY <1>1 DEF GiveUpPending
  <1>2. CASE s \in DOMAIN w.o.pending
    <2>1. w.o \in Leaders(D)
      BY WorkIs
    <2>2. PICK p : p = w.o.pending[s]
      OBVIOUS
    <2>3. p \in Positive /\ p \in Nat /\ p # 0 /\ s \in Nat /\ s \in Positive
      BY <1>2, <2>1, <2>2, LeaderIs DEF Positive, Numbered
    <2>4. PICK f : f = Without(w.o.pending, {s})
      OBVIOUS
    <2>5. f \in Maps(D, Positive) /\ DOMAIN f = DOMAIN w.o.pending \ {s}
      <3>1. w.o.pending \in Maps(D, Positive)
        BY <2>1, LeaderIs
      <3>2. /\ Without(w.o.pending, {s}) \in Maps(D, Positive)
            /\ DOMAIN Without(w.o.pending, {s}) = DOMAIN w.o.pending \ {s}
        BY <3>1, WithoutOne
      <3>3. QED
        BY <2>4, <3>2, Zenon
    <2>6. PICK x : x = [w.o EXCEPT !.pending = f]
      OBVIOUS
    <2>7. /\ x \in LeaderType(D) /\ x.rdq = w.o.rdq /\ x.pending = f /\ x.ptmr = w.o.ptmr
      BY <2>1, <2>5, <2>6, LeaderIs DEF LeaderType
    <2>8. PICK y : y = MoveAckFloor(x, p, s)
      OBVIOUS
    <2>9. y \in LeaderType(D) /\ y.rdq = x.rdq /\ y.pending = f /\ y.ptmr = w.o.ptmr
      <3>1. p \in Nat /\ s \in Nat
        BY <2>3
      <3>2. /\ MoveAckFloor(x, p, s) \in LeaderType(D)
            /\ MoveAckFloor(x, p, s).rdq = x.rdq
            /\ MoveAckFloor(x, p, s).pending = x.pending
            /\ MoveAckFloor(x, p, s).ptmr = x.ptmr
        BY <2>7, <3>1, MoveAckFloorIs
      <3>3. QED
        BY <2>7, <2>8, <3>2, Zenon
    <2>10. y \in Leaders(D)
      BY <2>1, <2>5, <2>7, <2>9, LeaderIs DEF Leaders, Due
    <2>11. PICK v : v = Emit(w, Op("delivered", p, s, dc))
      OBVIOUS
    <2>12. v \in Works(D)
      BY <2>3, <2>11, OpIs, EmitIs
    <2>13. [v EXCEPT !.o = y, !.up = @ \cup {s}] \in Works(D)
      BY <2>10, <2>12 DEF Works
    <2>14. QED
      BY <1>2, <2>2, <2>4, <2>6, <2>8, <2>11, <2>13 DEF GiveUpPending
  <1>3. QED
    BY <1>1, <1>2

\* A message is no longer pending, counted or queued.
LEMMA ForgetIs ==
    ASSUME NEW D, NEW x \in Leaders(D), NEW S, NEW a \in Nat, NEW b \in Nat
    PROVE  RemoveFromRedeliverQueue(
               [x EXCEPT !.pending = Without(@, S), !.rdc = Without(@, S),
                         !.asflr = a, !.adflr = b], S) \in Leaders(D)
  <1>1. x.pending \in Maps(D, Positive) /\ x.rdc \in Maps(D, Counts)
    BY LeaderIs
  <1>2. /\ Without(x.pending, S) \in Maps(D, Positive)
        /\ \A s : s \in DOMAIN Without(x.pending, S) <=> s \in DOMAIN x.pending /\ s \notin S
    BY <1>1, WithoutIs
  <1>3. Without(x.rdc, S) \in Maps(D, Counts)
    BY <1>1, WithoutIs
  <1>4. PICK y : y = [x EXCEPT !.pending = Without(@, S), !.rdc = Without(@, S),
                               !.asflr = a, !.adflr = b]
    OBVIOUS
  <1>5. x \in LeaderType(D)
    BY LeaderIs
  <1>6. /\ y \in LeaderType(D) /\ y.rdq = x.rdq /\ y.ptmr = x.ptmr
        /\ y.pending = Without(x.pending, S)
    BY <1>2, <1>3, <1>4, <1>5 DEF LeaderType
  <1>7. NoRepeats(y.rdq) /\ ToSet(y.rdq) \ S \subseteq DOMAIN y.pending
    <2>1. NoRepeats(x.rdq) /\ ToSet(x.rdq) \subseteq DOMAIN x.pending
      BY LeaderIs
    <2>2. ToSet(x.rdq) \ S \subseteq DOMAIN Without(x.pending, S)
      BY <1>2, <2>1
    <2>3. QED
      BY <1>6, <2>1, <2>2, Zenon
  <1>8. DOMAIN y.pending # {} => y.ptmr
    <2>1. DOMAIN Without(x.pending, S) # {} => DOMAIN x.pending # {}
      BY <1>2
    <2>2. DOMAIN x.pending # {} => x.ptmr
      BY LeaderIs
    <2>3. QED
      BY <1>6, <2>1, <2>2, Zenon
  <1>9. RemoveFromRedeliverQueue(y, S) \in Leaders(D)
    BY <1>6, <1>7, <1>8, LeaderClean
  <1>10. QED
    BY <1>4, <1>9, Zenon

\* The acknowledgement of one message.
LEMMA AckExplicitIs ==
    ASSUME NEW D, Numbered(D), NEW w \in Works(D), NEW s \in D, NEW d \in Nat
    PROVE  AckExplicit(w, s, d) \in Works(D)
  <1>1. w.o \in Leaders(D) /\ s \in Nat /\ s \in Positive
    BY WorkIs DEF Numbered, Positive
  <1>2. PICK x : x = w.o
    OBVIOUS
  <1>3. PICK p : p = IF s \in DOMAIN x.pending THEN x.pending[s] ELSE d
    OBVIOUS
  <1>4. p \in Nat
    <2>1. \A t \in DOMAIN x.pending : x.pending[t] \in Positive
      BY <1>1, <1>2, LeaderIs
    <2>2. QED
      BY <1>3, <2>1 DEF Positive
  <1>5. PICK moved : moved = IF s \in DOMAIN x.pending
                             THEN MoveAckFloor([x EXCEPT !.pending = Without(@, {s})], p, s)
                             ELSE x
    OBVIOUS
  <1>6. /\ moved \in LeaderType(D) /\ moved.rdq = x.rdq /\ moved.ptmr = x.ptmr
        /\ DOMAIN moved.pending \subseteq DOMAIN x.pending
        /\ DOMAIN x.pending \subseteq DOMAIN moved.pending \cup {s}
        /\ moved.rdc \in Maps(D, Counts)
    <2>0. x \in LeaderType(D) /\ x.pending \in Maps(D, Positive) /\ x.rdc \in Maps(D, Counts)
      BY <1>1, <1>2, LeaderIs
    <2>1. CASE s \notin DOMAIN x.pending
      BY <1>5, <2>0, <2>1
    <2>2. CASE s \in DOMAIN x.pending
      <3>1. /\ Without(x.pending, {s}) \in Maps(D, Positive)
            /\ \A t : t \in DOMAIN Without(x.pending, {s}) <=> t \in DOMAIN x.pending /\ t # s
        BY <2>0, WithoutOne
      <3>2. PICK y : y = [x EXCEPT !.pending = Without(@, {s})]
        OBVIOUS
      <3>3. /\ y \in LeaderType(D) /\ y.rdq = x.rdq /\ y.ptmr = x.ptmr
            /\ y.pending = Without(x.pending, {s}) /\ y.rdc = x.rdc
        BY <2>0, <3>1, <3>2 DEF LeaderType
      <3>4. /\ MoveAckFloor(y, p, s) \in LeaderType(D)
            /\ MoveAckFloor(y, p, s).rdq = y.rdq
            /\ MoveAckFloor(y, p, s).pending = y.pending
            /\ MoveAckFloor(y, p, s).ptmr = y.ptmr
            /\ MoveAckFloor(y, p, s).rdc = y.rdc
        BY <1>1, <1>4, <3>3, MoveAckFloorIs
      <3>5. moved = MoveAckFloor(y, p, s)
        BY <1>5, <2>2, <3>2, Zenon
      <3>6. /\ moved \in LeaderType(D) /\ moved.rdq = x.rdq /\ moved.ptmr = x.ptmr
            /\ moved.pending = Without(x.pending, {s}) /\ moved.rdc = x.rdc
        BY <3>3, <3>4, <3>5, Zenon
      <3>7. /\ DOMAIN Without(x.pending, {s}) \subseteq DOMAIN x.pending
            /\ DOMAIN x.pending \subseteq DOMAIN Without(x.pending, {s}) \cup {s}
        BY <3>1
      <3>8. QED
        BY <2>0, <3>6, <3>7, Zenon
    <2>3. QED
      BY <2>1, <2>2
  <1>7. PICK y : y = [moved EXCEPT !.rdc = Without(@, {s})]
    OBVIOUS
  <1>8. y \in LeaderType(D) /\ y.rdq = x.rdq /\ y.ptmr = x.ptmr /\ y.pending = moved.pending
    <2>1. Without(moved.rdc, {s}) \in Maps(D, Counts)
      BY <1>6, WithoutOne
    <2>2. QED
      BY <1>6, <1>7, <2>1 DEF LeaderType
  <1>9. /\ NoRepeats(x.rdq) /\ ToSet(x.rdq) \subseteq DOMAIN x.pending
        /\ DOMAIN x.pending # {} => x.ptmr
    BY <1>1, <1>2, LeaderIs
  <1>10. NoRepeats(y.rdq) /\ ToSet(y.rdq) \ {s} \subseteq DOMAIN y.pending
    <2>1. ToSet(x.rdq) \ {s} \subseteq DOMAIN moved.pending
      BY <1>6, <1>9
    <2>2. QED
      BY <1>8, <1>9, <2>1, Zenon
  <1>11. DOMAIN y.pending # {} => y.ptmr
    <2>1. DOMAIN moved.pending # {} => x.ptmr
      BY <1>6, <1>9
    <2>2. QED
      BY <1>8, <2>1, Zenon
  <1>12. RemoveFromRedeliverQueue(y, {s}) \in Leaders(D)
    BY <1>8, <1>10, <1>11, LeaderClean
  <1>13. PICK c : c = RemoveFromRedeliverQueue(y, {s})
    OBVIOUS
  <1>14. [w EXCEPT !.o = c] \in Works(D)
    BY <1>12, <1>13, WorkLeader
  <1>15. Op("acks", p, s, 0) \in OpType(D)
    BY <1>1, <1>4, CountIs, OpIs
  <1>16. Emit([w EXCEPT !.o = c], Op("acks", p, s, 0)) \in Works(D)
    BY <1>14, <1>15, EmitIs
  <1>17. AckExplicit(w, s, d) = Emit([w EXCEPT !.o = c], Op("acks", p, s, 0))
    BY <1>2, <1>3, <1>5, <1>7, <1>13, Zenon DEF AckExplicit
  <1>18. QED
    BY <1>16, <1>17

\* The acknowledgement of a message and of everything before it.
LEMMA AckAllIs ==
    ASSUME NEW D, Numbered(D), NEW w \in Works(D), NEW s \in D, NEW d \in Nat
    PROVE  AckAll(w, s, d) \in Works(D)
  <1>1. w.o \in Leaders(D) /\ s \in Nat /\ s \in Positive
    BY WorkIs DEF Numbered, Positive
  <1>2. PICK S : S = AckedRange(w.o.pending, w.o.asflr, s)
    OBVIOUS
  <1>3. PICK y : y = [w.o EXCEPT !.pending = Without(@, S), !.rdc = Without(@, S),
                                 !.asflr = s, !.adflr = d]
    OBVIOUS
  <1>4. RemoveFromRedeliverQueue(y, S) \in Leaders(D)
    BY <1>1, <1>3, ForgetIs
  <1>5. PICK c : c = RemoveFromRedeliverQueue(y, S)
    OBVIOUS
  <1>6. [w EXCEPT !.o = c] \in Works(D)
    BY <1>4, <1>5, WorkLeader
  <1>7. Op("acks", d, s, 0) \in OpType(D)
    BY <1>1, CountIs, OpIs
  <1>8. Emit([w EXCEPT !.o = c], Op("acks", d, s, 0)) \in Works(D)
    BY <1>6, <1>7, EmitIs
  <1>9. y = [w.o EXCEPT !.adflr = d, !.asflr = s, !.pending = Without(@, S), !.rdc = Without(@, S)]
    <2>1. w.o \in LeaderType(D)
      BY <1>1, LeaderIs
    <2>2. QED
      BY <1>3, <2>1 DEF LeaderType
  <1>10. AckAll(w, s, d) = Emit([w EXCEPT !.o = c], Op("acks", d, s, 0))
    BY <1>2, <1>5, <1>9, Zenon DEF AckAll
  <1>11. QED
    BY <1>8, <1>10

\* processAckMsgLocked.
LEMMA ProcessAckMsgIs ==
    ASSUME NEW D, Numbered(D), NEW w \in Works(D), NEW s \in D, NEW d \in Nat
    PROVE  ProcessAckMsg(w, s, d) \in Works(D)
  BY AckExplicitIs, AckAllIs DEF ProcessAckMsg

\* The counts of deliveries.
LEMMA RdcIs ==
    ASSUME NEW D, NEW x \in Leaders(D), NEW s
    PROVE  /\ Rdc(x, s) \in Counts /\ DeliveryCount(x, s) \in Counts
           /\ (Rdc(x, s) + 1) % Width \in Counts
           /\ (Rdc(x, s) + Width - 1) % Width \in Counts
  <1>1. \A t \in DOMAIN x.rdc : x.rdc[t] \in Counts
    BY LeaderIs
  <1>2. Rdc(x, s) \in Counts
    BY <1>1, CountIs DEF Rdc
  <1>3. PICK r : r = Rdc(x, s)
    OBVIOUS
  <1>4. r \in Nat /\ Width \in Nat /\ Width >= 2
    BY <1>2, <1>3, WidthAssumption DEF Counts
  <1>5. r + 1 \in Nat /\ r + Width - 1 \in Nat
    BY <1>4
  <1>6. (r + 1) % Width \in Counts /\ (r + Width - 1) % Width \in Counts
    BY <1>5, CountIs
  <1>7. DeliveryCount(x, s) \in Counts
    BY <1>2, CountIs DEF DeliveryCount
  <1>8. QED
    BY <1>2, <1>3, <1>6, <1>7

\* The counts are replaced.
LEMMA LeaderRdc ==
    ASSUME NEW D, NEW x \in Leaders(D), NEW f \in Maps(D, Counts)
    PROVE  /\ [x EXCEPT !.rdc = f] \in Leaders(D)
           /\ [x EXCEPT !.rdc = f].pending = x.pending
           /\ [x EXCEPT !.rdc = f].rdq = x.rdq
  <1>1. x \in LeaderType(D) /\ Due(x)
    BY DEF Leaders
  <1>2. PICK y : y = [x EXCEPT !.rdc = f]
    OBVIOUS
  <1>3. y \in LeaderType(D) /\ y.pending = x.pending /\ y.rdq = x.rdq /\ y.ptmr = x.ptmr
    BY <1>1, <1>2 DEF LeaderType
  <1>4. Due(y)
    BY <1>1, <1>3 DEF Due
  <1>5. QED
    BY <1>2, <1>3, <1>4 DEF Leaders

\* Queueing what is pending.
LEMMA AddToQueueIs ==
    ASSUME NEW D, NEW x \in Leaders(D), NEW s \in DOMAIN x.pending
    PROVE  AddToRedeliverQueue(x, s) \in Leaders(D)
  <1>1. CASE OnRedeliverQueue(x, s)
    BY <1>1 DEF AddToRedeliverQueue
  <1>2. CASE ~OnRedeliverQueue(x, s)
    <2>1. s \notin ToSet(x.rdq)
      BY <1>2 DEF OnRedeliverQueue
    <2>2. /\ x \in LeaderType(D) /\ NoRepeats(x.rdq) /\ ToSet(x.rdq) \subseteq DOMAIN x.pending
          /\ x.rdq \in Seq(D) /\ DOMAIN x.pending \subseteq D
          /\ DOMAIN x.pending # {} => x.ptmr
      BY LeaderIs
    <2>3. PICK q : q = Append(x.rdq, s)
      OBVIOUS
    <2>4. s \in D
      BY <2>2
    <2>5. /\ Append(x.rdq, s) \in Seq(D) /\ ToSet(Append(x.rdq, s)) = ToSet(x.rdq) \cup {s}
          /\ NoRepeats(Append(x.rdq, s))
      BY <2>1, <2>2, <2>4, AppendIs
    <2>6. q \in Seq(D) /\ ToSet(q) = ToSet(x.rdq) \cup {s} /\ NoRepeats(q)
      BY <2>3, <2>5, Zenon
    <2>7. PICK y : y = [x EXCEPT !.rdq = q]
      OBVIOUS
    <2>8. y \in LeaderType(D) /\ y.pending = x.pending /\ y.rdq = q /\ y.ptmr = x.ptmr
      BY <2>2, <2>6, <2>7 DEF LeaderType
    <2>9. Due(y)
      BY <2>2, <2>6, <2>8 DEF Due
    <2>10. QED
      BY <1>2, <2>3, <2>7, <2>8, <2>9 DEF AddToRedeliverQueue, Leaders
  <1>3. QED
    BY <1>1, <1>2

\* Counting a delivery, and taking it back.
LEMMA CountingIs ==
    ASSUME NEW D, NEW x \in Leaders(D), NEW s \in D
    PROVE  /\ IncDeliveryCount(x, s) \in Leaders(D)
           /\ IncDeliveryCount(x, s).pending = x.pending
           /\ IncDeliveryCount(x, s).rdq = x.rdq
           /\ DecDeliveryCount(x, s) \in Leaders(D)
           /\ DecDeliveryCount(x, s).pending = x.pending
           /\ DecDeliveryCount(x, s).rdq = x.rdq
  <1>1. x.rdc \in Maps(D, Counts)
    BY LeaderIs
  <1>2. PICK i : i = (Rdc(x, s) + 1) % Width
    OBVIOUS
  <1>3. PICK d : d = (Rdc(x, s) + Width - 1) % Width
    OBVIOUS
  <1>4. i \in Counts /\ d \in Counts
    BY <1>2, <1>3, RdcIs
  <1>5. With(x.rdc, s, i) \in Maps(D, Counts) /\ With(x.rdc, s, d) \in Maps(D, Counts)
    BY <1>1, <1>4, WithIs
  <1>6. IncDeliveryCount(x, s) = [x EXCEPT !.rdc = With(x.rdc, s, i)]
    BY <1>2 DEF IncDeliveryCount
  <1>7. DecDeliveryCount(x, s) = [x EXCEPT !.rdc = With(x.rdc, s, d)]
    BY <1>3 DEF DecDeliveryCount
  <1>8. QED
    BY <1>5, <1>6, <1>7, LeaderRdc

\* The greatest of a number and of the first numbers.
LEMMA MaxNat ==
    ASSUME NEW D, Numbered(D), NEW a \in Nat, NEW S \in SUBSET D
    PROVE  Max({a} \cup S) \in Nat
  <1>1. PICK n \in Nat : D = 1 .. n
    BY DEF Numbered
  <1>2. PICK A : A = {a} \cup S
    OBVIOUS
  <1>3. A \in SUBSET Nat /\ A # {} /\ a + n \in Nat /\ \A x \in A : x <= a + n
    BY <1>1, <1>2
  <1>4. Max(A) \in A
    BY <1>3, MaxOf
  <1>5. QED
    BY <1>2, <1>3, <1>4

\* The greatest of a number and of the values of a map.
LEMMA MaxMapNat ==
    ASSUME NEW D, Numbered(D), NEW a \in Nat, NEW S \in SUBSET D, NEW f,
           \A s \in S : f[s] \in Nat
    PROVE  Max({a} \cup {f[s] : s \in S}) \in Nat
  <1>1. PICK n \in Nat : D = 1 .. n
    BY DEF Numbered
  <1>2. PICK b \in Nat : \A s \in S : f[s] <= b
    BY <1>1, MapBound
  <1>3. PICK A : A = {a} \cup {f[s] : s \in S}
    OBVIOUS
  <1>4. A \in SUBSET Nat /\ A # {} /\ a + b \in Nat
    BY <1>3
  <1>5. ASSUME NEW x \in A PROVE x <= a + b
    <2>1. CASE x = a
      BY <2>1
    <2>2. CASE x # a
      <3>1. PICK s \in S : x = f[s]
        BY <1>3, <2>2
      <3>2. QED
        BY <1>2, <3>1
    <2>3. QED
      BY <2>1, <2>2
  <1>6. Max(A) \in A
    BY <1>4, <1>5, MaxOf
  <1>7. QED
    BY <1>3, <1>4, <1>6

\* What the stream no longer has is dropped.
LEMMA DropGoneIs ==
    ASSUME NEW D, Numbered(D), NEW w \in Works(D), NEW fseq
    PROVE  DropGone(w, fseq) \in Works(D)
  <1>1. w.o \in Leaders(D)
    BY WorkIs
  <1>2. PICK x : x = w.o
    OBVIOUS
  <1>3. /\ x \in Leaders(D) /\ x.asflr \in Nat /\ x.adflr \in Nat /\ DOMAIN x.pending \subseteq D
        /\ \A s \in DOMAIN x.pending : x.pending[s] \in Positive
    BY <1>1, <1>2, LeaderIs
  <1>4. PICK S : S = {s \in DOMAIN x.pending : s < fseq \/ s <= x.asflr}
    OBVIOUS
  <1>5. S \in SUBSET D /\ \A s \in S : x.pending[s] \in Nat
    BY <1>3, <1>4 DEF Positive
  <1>6. PICK a : a = Max({x.asflr} \cup S)
    OBVIOUS
  <1>7. PICK b : b = Max({x.adflr} \cup {x.pending[s] : s \in S})
    OBVIOUS
  <1>8. a \in Nat
    BY <1>3, <1>5, <1>6, MaxNat
  <1>9. b \in Nat
    <2>1. PICK f : f = x.pending
      OBVIOUS
    <2>2. \A s \in S : f[s] \in Nat
      BY <1>5, <2>1
    <2>3. Max({x.adflr} \cup {f[s] : s \in S}) \in Nat
      BY <1>3, <1>5, <2>2, MaxMapNat
    <2>4. QED
      BY <1>7, <2>1, <2>3
  <1>10. PICK y : y = [x EXCEPT !.pending = Without(@, S), !.rdc = Without(@, S),
                                !.asflr = a, !.adflr = b]
    OBVIOUS
  <1>11. RemoveFromRedeliverQueue(y, S) \in Leaders(D)
    BY <1>3, <1>8, <1>9, <1>10, ForgetIs
  <1>12. PICK c : c = RemoveFromRedeliverQueue(y, S)
    OBVIOUS
  <1>13. [w EXCEPT !.o = c, !.write = S # {}] \in Works(D)
    BY <1>11, <1>12 DEF Works
  <1>14. DropGone(w, fseq) = [w EXCEPT !.o = c, !.write = S # {}]
    <2> DEFINE gone == {s \in DOMAIN w.o.pending : s < fseq \/ s <= w.o.asflr}
               clean == [w.o EXCEPT !.pending = Without(@, gone), !.rdc = Without(@, gone),
                                    !.asflr = Max({@} \cup gone),
                                    !.adflr = Max({@} \cup {w.o.pending[s] : s \in gone})]
    <2>1. DropGone(w, fseq) = [w EXCEPT !.o = RemoveFromRedeliverQueue(clean, gone),
                                        !.write = gone # {}]
      BY DEF DropGone
    <2>2. gone = S
      BY <1>2, <1>4, Zenon
    <2> HIDE DEF gone
    <2>3. clean = y
      BY <1>2, <1>6, <1>7, <1>10, <2>2
    <2> HIDE DEF clean
    <2>4. QED
      BY <1>12, <2>1, <2>2, <2>3, Zenon
  <1>15. QED
    BY <1>13, <1>14

\* The expiry of one message.
LEMMA ExpireIs ==
    ASSUME NEW D, Numbered(D), NEW w \in Works(D), NEW s
    PROVE  Expire(w, s) \in Works(D)
  <1>1. w.o \in Leaders(D)
    BY WorkIs
  <1>2. CASE s \notin DOMAIN w.o.pending \/ OnRedeliverQueue(w.o, s)
    BY <1>2 DEF Expire
  <1>3. CASE s \in DOMAIN w.o.pending /\ ~OnRedeliverQueue(w.o, s)
    <2>0. s \notin ToSet(w.o.rdq) /\ s \in D
      BY <1>1, <1>3, LeaderIs DEF OnRedeliverQueue
    <2>1. CASE HasMaxDeliveries(w.o, s)
      <3>1. PICK dc : dc = DeliveryCount(w.o, s)
        OBVIOUS
      <3>2. dc \in Counts
        BY <1>1, <3>1, RdcIs
      <3>3. PICK up : up = GiveUpPending(w, s, dc)
        OBVIOUS
      <3>4. up \in Works(D)
        BY <2>0, <3>2, <3>3, GiveUpIs
      <3>5. up.o \in Leaders(D) /\ up.o.rdc \in Maps(D, Counts)
        BY <3>4, WorkIs, LeaderIs
      <3>6. With(up.o.rdc, s, dc) \in Maps(D, Counts)
        BY <2>0, <3>2, <3>5, WithIs
      <3>7. PICK y : y = [up.o EXCEPT !.rdc = With(up.o.rdc, s, dc)]
        OBVIOUS
      <3>8. y \in Leaders(D)
        BY <3>5, <3>6, <3>7, LeaderRdc
      <3>9. [up EXCEPT !.o = y] \in Works(D)
        BY <3>4, <3>8, WorkLeader
      <3>10. [up EXCEPT !.o.rdc = With(@, s, dc)] = [up EXCEPT !.o = y]
        BY <3>7
      <3>11. Expire(w, s) = [up EXCEPT !.o.rdc = With(@, s, dc)]
        BY <1>3, <2>1, <3>1, <3>3, Zenon DEF Expire
      <3>12. QED
        BY <3>9, <3>10, <3>11
    <2>2. CASE ~HasMaxDeliveries(w.o, s)
      <3>1. AddToRedeliverQueue(w.o, s) \in Leaders(D)
        BY <1>1, <1>3, AddToQueueIs
      <3>2. [w EXCEPT !.o = AddToRedeliverQueue(w.o, s)] \in Works(D)
        BY <3>1, WorkLeader
      <3>3. QED
        BY <1>3, <2>2, <3>2 DEF Expire
    <2>3. QED
      BY <2>1, <2>2
  <1>4. QED
    BY <1>2, <1>3

\* The expiry of several.
LEMMA ExpireAllIs ==
    ASSUME NEW D, Numbered(D), NEW w \in Works(D), NEW E \in SUBSET D
    PROVE  ExpireAll(w, E) \in Works(D)
  <1>1. Expires!Indices(E)
    BY DEF Numbered, Expires!Indices
  <1>2. \A k \in E : \A t \in Works(D) : ExpireItem(0, 0, t, k) \in Works(D)
    BY ExpireIs DEF ExpireItem
  <1>3. Expires!Fold(0, 0, w, E) \in Works(D)
    BY <1>1, <1>2, Expires!FoldStays
  <1>4. QED
    BY <1>3, ExpireFold

\* The end of checkPending.
LEMMA SettleIs ==
    ASSUME NEW D, NEW x \in Leaders(D)
    PROVE  Settle(x) \in Leaders(D)
  <1>1. CASE DOMAIN x.pending # {}
    BY <1>1 DEF Settle
  <1>2. CASE DOMAIN x.pending = {}
    <2>1. x \in LeaderType(D) /\ x.dseq \in Positive /\ x.sseq \in Positive
      BY LeaderIs
    <2>2. PICK y : y = [x EXCEPT !.ptmr = FALSE, !.rdq = <<>>,
                                 !.adflr = x.dseq - 1, !.asflr = x.sseq - 1]
      OBVIOUS
    <2>3. x.dseq - 1 \in Nat /\ x.sseq - 1 \in Nat /\ <<>> \in Seq(D)
      BY <2>1 DEF Positive
    <2>4. y \in LeaderType(D) /\ y.rdq = <<>> /\ y.pending = x.pending
      BY <2>1, <2>2, <2>3 DEF LeaderType
    <2>5. NoRepeats(<<>>) /\ ToSet(<<>>) = {}
      BY DEF NoRepeats, ToSet
    <2>6. Due(y)
      BY <1>2, <2>4, <2>5 DEF Due
    <2>7. QED
      BY <1>2, <2>2, <2>4, <2>6 DEF Settle, Leaders
  <1>3. QED
    BY <1>1, <1>2

\* checkPending.
LEMMA CheckPendingIs ==
    ASSUME NEW D, Numbered(D), NEW w \in Works(D), NEW fseq, NEW E \in SUBSET D
    PROVE  CheckPending(w, fseq, E) \in Works(D)
  <1>1. PICK v : v = ExpireAll(DropGone(w, fseq), E)
    OBVIOUS
  <1>2. v \in Works(D)
    BY <1>1, DropGoneIs, ExpireAllIs
  <1>3. Settle(v.o) \in Leaders(D)
    BY <1>2, WorkIs, SettleIs
  <1>4. [v EXCEPT !.o = Settle(v.o)] \in Works(D)
    BY <1>2, <1>3, WorkLeader
  <1>5. QED
    BY <1>1, <1>4 DEF CheckPending

\* checkRedelivered.
LEMMA CheckRedeliveredIs ==
    ASSUME NEW D, NEW w \in Works(D), NEW fseq
    PROVE  CheckRedelivered(w, fseq) \in Works(D)
  <1>1. w.o \in Leaders(D) /\ w.o.rdc \in Maps(D, Counts)
    BY WorkIs, LeaderIs
  <1>2. PICK S : S = {s \in DOMAIN w.o.rdc : s < fseq}
    OBVIOUS
  <1>3. Without(w.o.rdc, S) \in Maps(D, Counts)
    BY <1>1, WithoutIs
  <1>4. PICK y : y = [w.o EXCEPT !.rdc = Without(w.o.rdc, S)]
    OBVIOUS
  <1>5. y \in Leaders(D)
    BY <1>1, <1>3, <1>4, LeaderRdc
  <1>6. [w EXCEPT !.o = y, !.write = S # {}] \in Works(D)
    BY <1>5 DEF Works
  <1>7. [w EXCEPT !.o.rdc = Without(@, S), !.write = S # {}] = [w EXCEPT !.o = y, !.write = S # {}]
    BY <1>4
  <1>8. CheckRedelivered(w, fseq) = [w EXCEPT !.o.rdc = Without(@, S), !.write = S # {}]
    BY <1>2, Zenon DEF CheckRedelivered
  <1>9. QED
    BY <1>6, <1>7, <1>8

\* readStoredState.
LEMMA ReadStoredIs ==
    ASSUME NEW D, NEW st \in StoreType(D)
    PROVE  ReadStoredState(st) \in Leaders(D)
  <1>1. PICK y : y = ReadStoredState(st)
    OBVIOUS
  <1>2. Empty \in Maps(D, Nat) /\ <<>> \in Seq(D) /\ 0 \in Int
    BY EmptyIs
  <1>3. st.ds + 1 \in Positive /\ st.dc + 1 \in Positive
    BY DEF StoreType, Positive
  <1>4. y \in LeaderType(D)
    BY <1>1, <1>2, <1>3 DEF ReadStoredState, LeaderType, StoreType
  <1>5. NoRepeats(<<>>) /\ ToSet(<<>>) = {}
    BY DEF NoRepeats, ToSet
  <1>6. Due(y)
    BY <1>1, <1>5 DEF ReadStoredState, Due
  <1>7. QED
    BY <1>1, <1>4, <1>6 DEF Leaders

\* A new leader takes over.
LEMMA TakeOverIs ==
    ASSUME NEW D, Numbered(D), NEW st \in StoreType(D), NEW E \in SUBSET D
    PROVE  TakeOver(st, E) \in Works(D)
  BY ReadStoredIs, WorkStart, CheckRedeliveredIs, CheckPendingIs DEF TakeOver

-----------------------------------------------------------------------------
(***************************************************************************)
(* The operations of the store.                                            *)
(***************************************************************************)
\* What a stored state is made of.
LEMMA StoreIs ==
    ASSUME NEW D, NEW st \in StoreType(D)
    PROVE  /\ st.dc \in Nat /\ st.ds \in Nat /\ st.ac \in Nat /\ st.as \in Nat
           /\ st.pending \in Maps(D, Positive) /\ st.redel \in Maps(D, Counts)
           /\ DOMAIN st.pending \subseteq D
           /\ \A s \in DOMAIN st.pending : st.pending[s] \in Positive
           /\ \A s \in DOMAIN st.redel : st.redel[s] \in Counts
  <1>1. st.pending \in Maps(D, Positive) /\ st.redel \in Maps(D, Counts)
    BY DEF StoreType
  <1>2. /\ DOMAIN st.pending \subseteq D /\ \A s \in DOMAIN st.pending : st.pending[s] \in Positive
        /\ \A s \in DOMAIN st.redel : st.redel[s] \in Counts
    BY <1>1, MapIs
  <1>3. QED
    BY <1>1, <1>2 DEF StoreType

\* The first state.
LEMMA InitStateIs ==
    ASSUME NEW D
    PROVE  InitState \in StoreType(D)
  <1>1. Empty \in Maps(D, Positive) /\ Empty \in Maps(D, Counts)
    BY EmptyIs
  <1>2. QED
    BY <1>1 DEF InitState, StoreType

\* A delivery.
LEMMA UpdateDeliveredIs ==
    ASSUME NEW D, Numbered(D), NEW st \in StoreType(D), NEW m \in Nat, NEW d \in Positive,
           NEW s \in D, NEW dc \in Counts
    PROVE  UpdateDelivered(st, m, d, s, dc) \in StoreType(D)
  <1>1. CASE d <= st.ac
    BY <1>1 DEF UpdateDelivered
  <1>2. CASE ~(d <= st.ac)
    <2> DEFINE added == IF s <= st.ds THEN st.pending ELSE With(st.pending, s, d)
               old == IF s \in DOMAIN st.redel THEN st.redel[s] ELSE 0
               left == IF dc > 1 /\ m > 0 /\ dc > m THEN Without(added, {s}) ELSE added
               count == IF dc > 1 THEN With(st.redel, s, Max2(old, dc - 1)) ELSE st.redel
    <2>1. added \in Maps(D, Positive)
      BY StoreIs, WithIs
    <2>2. old \in Counts
      BY StoreIs, CountIs
    <2> HIDE DEF added, old
    <2>3. left \in Maps(D, Positive)
      BY <2>1, WithoutOne
    <2>4. dc > 1 => Max2(old, dc - 1) \in Counts
      BY <2>2, WidthAssumption DEF Max2, Counts
    <2>5. count \in Maps(D, Counts)
      BY <2>4, StoreIs, WithIs
    <2>6. Max2(st.dc, d) \in Nat /\ Max2(st.ds, s) \in Nat
      BY StoreIs DEF Max2, Positive, Numbered
    <2> HIDE DEF left, count
    <2>7. [st EXCEPT !.dc = Max2(st.dc, d), !.ds = Max2(st.ds, s), !.pending = left,
                     !.redel = count] \in StoreType(D)
      BY <2>3, <2>5, <2>6 DEF StoreType
    <2>8. QED
      BY <1>2, <2>7 DEF UpdateDelivered, left, count, added, old
  <1>3. QED
    BY <1>1, <1>2

\* The acknowledgement of one message.
LEMMA AckOneIs ==
    ASSUME NEW D, Numbered(D), NEW st \in StoreType(D), NEW d \in Nat, NEW s \in DOMAIN st.pending
    PROVE  AckOne(st, d, s) \in StoreType(D)
  <1> DEFINE first == IF d > st.pending[s] THEN st.pending[s] ELSE d
             left == Without(st.pending, {s})
             floors == IF DOMAIN left = {} THEN <<st.dc, st.ds>>
                       ELSE IF first # st.ac + 1 THEN <<st.ac, st.as>>
                       ELSE IF st.dc > first THEN FloorsAbove(left, first, s)
                       ELSE <<first, s>>
  <1>1. /\ st.dc \in Nat /\ st.ds \in Nat /\ st.ac \in Nat /\ st.as \in Nat
        /\ st.pending \in Maps(D, Positive) /\ st.pending[s] \in Positive /\ s \in D
    BY StoreIs
  <1>2. s \in Nat /\ first \in Nat
    BY <1>1 DEF Positive, Numbered
  <1>3. left \in Maps(D, Positive)
    BY <1>1, WithoutOne
  <1> HIDE DEF first, left
  <1>4. FloorsAbove(left, first, s)[1] \in Nat /\ FloorsAbove(left, first, s)[2] \in Nat
    BY <1>2, <1>3, FloorsAboveIs
  <1>5. floors[1] \in Nat /\ floors[2] \in Nat
    BY <1>1, <1>2, <1>4
  <1> HIDE DEF floors
  <1>6. [st EXCEPT !.pending = left, !.ac = floors[1], !.as = floors[2]] \in StoreType(D)
    BY <1>3, <1>5 DEF StoreType
  <1>7. QED
    BY <1>6 DEF AckOne, floors, left, first

\* The acknowledgement of a message and of everything before it.
LEMMA AckUpToIs ==
    ASSUME NEW D, NEW st \in StoreType(D), NEW d \in Nat, NEW s \in Nat
    PROVE  AckUpTo(st, d, s) \in StoreType(D)
  <1> DEFINE range == AckedRange(st.pending, st.as, s)
  <1>1. st.pending \in Maps(D, Positive) /\ st.redel \in Maps(D, Counts)
    BY StoreIs
  <1> HIDE DEF range
  <1>2. Without(st.pending, range) \in Maps(D, Positive) /\ Without(st.redel, range) \in Maps(D, Counts)
    BY <1>1, WithoutIs
  <1>3. [st EXCEPT !.ac = d, !.as = s, !.pending = Without(st.pending, range),
                   !.redel = Without(st.redel, range)] \in StoreType(D)
    BY <1>2 DEF StoreType
  <1>4. QED
    BY <1>3 DEF AckUpTo, range

\* An acknowledgement.
LEMMA UpdateAcksIs ==
    ASSUME NEW D, Numbered(D), NEW st \in StoreType(D), NEW all, NEW d \in Nat, NEW s \in Nat
    PROVE  UpdateAcks(st, all, d, s) \in StoreType(D)
  <1> DEFINE seen == [st EXCEPT !.redel = Without(@, {s})]
  <1>1. Without(st.redel, {s}) \in Maps(D, Counts)
    BY StoreIs, WithoutOne
  <1>2. seen \in StoreType(D) /\ seen.pending = st.pending
    BY <1>1 DEF StoreType
  <1> HIDE DEF seen
  <1>3. AckUpTo(seen, d, s) \in StoreType(D)
    BY <1>2, AckUpToIs
  <1>4. s \in DOMAIN st.pending => AckOne(seen, d, s) \in StoreType(D)
    BY <1>2, AckOneIs
  <1>5. QED
    BY <1>2, <1>3, <1>4 DEF UpdateAcks, seen

\* The other operations.
LEMMA StoreOthers ==
    ASSUME NEW D, NEW st \in StoreType(D), NEW new \in StoreType(D), NEW s \in Nat
    PROVE  /\ UpdateStarting(st, s) \in StoreType(D)
           /\ ResetStore(s) \in StoreType(D)
           /\ RemoveRedeliveredBelow(st, s) \in StoreType(D)
           /\ Update(st, new) \in StoreType(D)
  <1>1. UpdateStarting(st, s) \in StoreType(D)
    BY DEF UpdateStarting, StoreType, Max2
  <1>2. ResetStore(s) \in StoreType(D)
    <2>1. InitState \in StoreType(D)
      BY InitStateIs
    <2>2. PICK i : i = InitState
      OBVIOUS
    <2>3. [i EXCEPT !.ds = s, !.as = s] \in StoreType(D)
      BY <2>1, <2>2 DEF StoreType
    <2>4. QED
      BY <2>2, <2>3 DEF ResetStore
  <1>3. RemoveRedeliveredBelow(st, s) \in StoreType(D)
    <2>1. PICK S : S = 0 .. s - 1
      OBVIOUS
    <2>2. Without(st.redel, S) \in Maps(D, Counts)
      BY StoreIs, WithoutIs
    <2>3. [st EXCEPT !.redel = Without(@, S)] \in StoreType(D)
      BY <2>2 DEF StoreType
    <2>4. QED
      BY <2>1, <2>3, Zenon DEF RemoveRedeliveredBelow
  <1>4. Update(st, new) \in StoreType(D)
    BY DEF Update
  <1>5. QED
    BY <1>1, <1>2, <1>3, <1>4

\* One update of the leader.
LEMMA ApplyOpIs ==
    ASSUME NEW D, Numbered(D), NEW st \in StoreType(D), NEW p \in OpType(D), cfg.maxdc \in Nat
    PROVE  ApplyOp(st, p) \in StoreType(D)
  <1>1. /\ p.op \in {"delivered", "acks", "skip", "reset"} /\ p.d \in Nat /\ p.s \in Positive
        /\ p.dc \in Counts /\ (p.op = "delivered" => p.d \in Positive /\ p.s \in D)
    BY DEF OpType
  <1>2. p.s \in Nat /\ p.s - 1 \in Nat
    BY <1>1 DEF Positive
  <1>3. CASE p.op = "delivered"
    <2>1. UpdateDelivered(st, cfg.maxdc, p.d, p.s, p.dc) \in StoreType(D)
      BY <1>1, <1>3, UpdateDeliveredIs
    <2>2. QED
      BY <1>3, <2>1 DEF ApplyOp
  <1>4. CASE p.op = "acks"
    <2>1. UpdateAcks(st, cfg.all, p.d, p.s) \in StoreType(D)
      BY <1>1, <1>2, UpdateAcksIs
    <2>2. QED
      BY <1>4, <2>1 DEF ApplyOp
  <1>5. CASE p.op = "skip"
    <2>1. UpdateStarting(st, p.s - 1) \in StoreType(D)
      BY <1>2, StoreOthers
    <2>2. QED
      BY <1>5, <2>1 DEF ApplyOp
  <1>6. CASE p.op = "reset"
    <2>1. ResetStore(p.s - 1) \in StoreType(D)
      BY <1>2, StoreOthers
    <2>2. QED
      BY <1>6, <2>1 DEF ApplyOp
  <1>7. QED
    BY <1>1, <1>3, <1>4, <1>5, <1>6

\* The updates of the leader, in order.
LEMMA ApplyOpsIs ==
    ASSUME NEW D, Numbered(D), NEW st \in StoreType(D), NEW ops \in Seq(OpType(D)), cfg.maxdc \in Nat
    PROVE  ApplyOps(st, ops) \in StoreType(D)
  <1>1. DOMAIN ops = 1 .. Len(ops) /\ Len(ops) \in Nat /\ \A k \in DOMAIN ops : ops[k] \in OpType(D)
    OBVIOUS
  <1>2. Applies!Indices(DOMAIN ops)
    BY <1>1 DEF Applies!Indices
  <1>3. \A k \in DOMAIN ops : \A t \in StoreType(D) : ApplyItem(0, ops, t, k) \in StoreType(D)
    BY <1>1, ApplyOpIs DEF ApplyItem
  <1>4. Applies!Fold(0, ops, st, DOMAIN ops) \in StoreType(D)
    BY <1>2, <1>3, Applies!FoldStays
  <1>5. QED
    BY <1>4, ApplyFold

\* The state of the leader, written as a whole.
LEMMA WriteIs ==
    ASSUME NEW D, NEW st \in StoreType(D), NEW w \in Works(D)
    PROVE  WriteStoreState(st, w) \in StoreType(D)
  <1>1. w.o \in Leaders(D)
    BY WorkIs
  <1>2. PICK x : x = w.o
    OBVIOUS
  <1>3. /\ x.sseq - 1 \in Nat /\ x.dseq - 1 \in Nat /\ x.adflr \in Nat /\ x.asflr \in Nat
        /\ x.pending \in Maps(D, Positive) /\ x.rdc \in Maps(D, Counts)
    BY <1>1, <1>2, LeaderIs DEF Positive
  <1>4. StateOf(x) \in StoreType(D)
    BY <1>3 DEF StateOf, StoreType
  <1>5. Update(st, StateOf(x)) \in StoreType(D)
    BY <1>4, StoreOthers, 0 \in Nat
  <1>6. QED
    BY <1>2, <1>5 DEF WriteStoreState

-----------------------------------------------------------------------------
(***************************************************************************)
(* The invariant, action by action.                                        *)
(***************************************************************************)
\* The configuration, and the sequences of the stream.
LEMMA ConfigIs ==
    ASSUME cfg \in Configs
    PROVE  /\ cfg.n \in Nat /\ cfg.maxdc \in Nat /\ Numbered(Seqs)
           /\ \A s \in Seqs : s \in Nat /\ s \in Positive
  <1>1. cfg.n \in Nat /\ cfg.maxdc \in Nat
    BY ConfigsAssumption
  <1>2. Numbered(Seqs)
    BY <1>1 DEF Numbered, Seqs
  <1>3. QED
    BY <1>1, <1>2 DEF Seqs, Positive

\* Updates without the skips.
LEMMA LocalIs ==
    ASSUME NEW D, NEW ops \in Seq(OpType(D))
    PROVE  Local(ops) \in Seq(OpType(D))
  BY DroppingSeq DEF Local

\* What the actions do with the work that the operators return.
LEMMA StoreKeeps ==
    ASSUME KeptDue, NEW w \in Works(Seqs), Store(w)
    PROVE  KeptDue' /\ cfg' = cfg /\ lead' = lead
  <1>1. cfg' = cfg /\ lead' = lead /\ disk' = disk /\ o' = w.o /\ Seqs' = Seqs
    BY DEF Store, Seqs
  <1>2. PICK D : D = Seqs
    OBVIOUS
  <1>3. /\ w.o \in Leaders(D) /\ w.ops \in Seq(OpType(D)) /\ w \in Works(D)
    BY <1>2, WorkIs
  <1>4. /\ cfg \in Configs /\ cfg.maxdc \in Nat /\ Numbered(D) /\ lead \in Replica
    BY <1>2, ConfigIs DEF KeptDue
  <1>5. /\ stores \in [Replica -> StoreType(D)] /\ phead \in [Replica -> Seq(OpType(D))]
        /\ disk \in StoreType(D)
    BY <1>2 DEF KeptDue
  <1>6. stores[lead] \in StoreType(D) /\ phead[lead] \in Seq(OpType(D))
    BY <1>4, <1>5
  <1>7. WriteStoreState(stores[lead], w) \in StoreType(D)
    BY <1>3, <1>6, WriteIs
  <1>8. WriteStoreState(ApplyOps(stores[lead], Local(w.ops)), w) \in StoreType(D)
    <2>1. Local(w.ops) \in Seq(OpType(D))
      BY <1>3, LocalIs
    <2>2. ApplyOps(stores[lead], Local(w.ops)) \in StoreType(D)
      BY <1>4, <1>6, <2>1, ApplyOpsIs
    <2>3. QED
      BY <1>3, <2>2, WriteIs
  <1>9. stores' \in [Replica -> StoreType(D)]
    <2>1. \/ stores' = [stores EXCEPT ![lead] = WriteStoreState(@, w)]
          \/ stores' = [stores EXCEPT ![lead] = WriteStoreState(ApplyOps(@, Local(w.ops)), w)]
      BY DEF Store
    <2>2. CASE stores' = [stores EXCEPT ![lead] = WriteStoreState(@, w)]
      BY <1>5, <1>7, <2>2
    <2>3. CASE stores' = [stores EXCEPT ![lead] = WriteStoreState(ApplyOps(@, Local(w.ops)), w)]
      BY <1>5, <1>8, <2>3
    <2>4. QED
      BY <2>1, <2>2, <2>3
  <1>10. phead' \in [Replica -> Seq(OpType(D))]
    <2>1. \/ phead' = [phead EXCEPT ![lead] = @ \o w.ops]
          \/ phead' = phead
      BY DEF Store
    <2>2. phead[lead] \o w.ops \in Seq(OpType(D))
      BY <1>3, <1>6
    <2>3. QED
      BY <1>5, <2>1, <2>2
  <1>11. KeptDue'
    BY <1>1, <1>2, <1>3, <1>4, <1>5, <1>9, <1>10 DEF KeptDue
  <1>12. QED
    BY <1>1, <1>11

\* What leaves the traffic alone.
LEMMA TrafficKeeps ==
    ASSUME TrafficDue, cfg' = cfg, UNCHANGED streamVars, held' \subseteq held, terms' \subseteq terms
    PROVE  TrafficDue'
  BY DEF TrafficDue, streamVars, Seqs

\* The first state.
LEMMA DueInit ==
    Init => DueInv
  <1> SUFFICES ASSUME Init PROVE DueInv
    OBVIOUS
  <1>1. cfg \in Configs /\ cfg.n \in Nat \ {0}
    BY ConfigsAssumption DEF Init
  <1>2. InitState \in StoreType(Seqs)
    BY InitStateIs
  <1>3. ReadStoredState(InitState) \in Leaders(Seqs)
    BY <1>2, ReadStoredIs
  <1>4. stores \in [Replica -> StoreType(Seqs)] /\ disk \in StoreType(Seqs)
    BY <1>2 DEF Init
  <1>5. phead \in [Replica -> Seq(OpType(Seqs))] /\ lead \in Replica
    BY DEF Init, Replica
  <1>6. o \in Leaders(Seqs)
    BY <1>3 DEF Init
  <1>7. TrafficDue
    BY <1>1 DEF Init, TrafficDue
  <1>8. QED
    BY <1>1, <1>4, <1>5, <1>6, <1>7 DEF DueInv, KeptDue

\* A message is stored.
LEMMA PublishKeeps ==
    ASSUME DueInv, Publish
    PROVE  DueInv'
  <1>1. UNCHANGED <<storeVars, o, toAck, terms, clientVars, histVars>>
    BY DEF Publish
  <1>2. KeptDue'
    BY <1>1 DEF DueInv, KeptDue, storeVars, Seqs
  <1>3. cfg' = cfg /\ held' = held /\ terms' = terms /\ Seqs' = Seqs
    BY <1>1 DEF storeVars, clientVars, Seqs
  <1>4. cfg.n \in Nat
    BY ConfigIs DEF DueInv, KeptDue
  <1>5. last' \in 0 .. cfg.n /\ msgs' \subseteq 1 .. last'
    BY <1>4 DEF Publish, DueInv, TrafficDue
  <1>6. QED
    BY <1>2, <1>3, <1>5 DEF DueInv, TrafficDue

\* A message leaves the stream.
LEMMA DecStreamPendingKeeps ==
    ASSUME DueInv, NEW s \in Seqs, DecStreamPending(s)
    PROVE  /\ KeptDue' /\ cfg' = cfg
           /\ terms' \subseteq Replica \X Seqs \X Nat
  <1>1. KeptDue /\ o \in Leaders(Seqs) /\ lead \in Replica /\ terms \subseteq Replica \X Seqs \X Nat
    BY DEF DueInv, KeptDue, TrafficDue
  <1>2. Work(o) \in Works(Seqs)
    BY <1>1, WorkStart
  <1>3. s \in Positive
    BY <1>1, ConfigIs DEF KeptDue
  <1>4. CASE s \in DOMAIN o.pending
    <2>1. Store(Work(o)) /\ terms' = terms \cup {<<lead, s, o.pending[s]>>}
      BY <1>4 DEF DecStreamPending
    <2>2. o.pending[s] \in Nat
      BY <1>1, <1>4, LeaderIs DEF Positive
    <2>3. terms' \subseteq Replica \X Seqs \X Nat
      BY <1>1, <2>1, <2>2
    <2>4. KeptDue' /\ cfg' = cfg
      BY <1>1, <1>2, <2>1, StoreKeeps
    <2>5. QED
      BY <2>3, <2>4
  <1>5. CASE s \notin DOMAIN o.pending /\ s \in DOMAIN o.rdc
    <2>1. PICK x : x = [o EXCEPT !.rdc = Without(o.rdc, {s})]
      OBVIOUS
    <2>2. x \in Leaders(Seqs)
      <3>1. Without(o.rdc, {s}) \in Maps(Seqs, Counts)
        BY <1>1, LeaderIs, WithoutOne
      <3>2. QED
        BY <1>1, <2>1, <3>1, LeaderRdc
    <2>3. Emit(Work(x), Op("acks", 0, s, 0)) \in Works(Seqs)
      <3>1. Op("acks", 0, s, 0) \in OpType(Seqs)
        BY <1>3, CountIs, OpIs
      <3>2. QED
        BY <2>2, <3>1, WorkStart, EmitIs
    <2>4. Store(Emit(Work(x), Op("acks", 0, s, 0))) /\ terms' = terms
      BY <1>5, <2>1 DEF DecStreamPending
    <2>5. KeptDue' /\ cfg' = cfg
      BY <1>1, <2>3, <2>4, StoreKeeps
    <2>6. QED
      BY <1>1, <2>4, <2>5
  <1>6. CASE s \notin DOMAIN o.pending /\ s \notin DOMAIN o.rdc
    <2>1. Store(Work(o)) /\ terms' = terms
      BY <1>6 DEF DecStreamPending
    <2>2. KeptDue' /\ cfg' = cfg
      BY <1>1, <1>2, <2>1, StoreKeeps
    <2>3. QED
      BY <1>1, <2>1, <2>2
  <1>7. QED
    BY <1>4, <1>5, <1>6

\* A message is removed.
LEMMA RemoveMsgKeeps ==
    ASSUME DueInv, NEW s \in Seqs, RemoveMsg(s)
    PROVE  DueInv'
  <1>1. /\ DecStreamPending(s) /\ msgs' = msgs \ {s} /\ last' = last /\ held' = held
    BY DEF RemoveMsg, clientVars
  <1>2. KeptDue' /\ cfg' = cfg /\ terms' \subseteq Replica \X Seqs \X Nat
    BY <1>1, DecStreamPendingKeeps
  <1>3. QED
    BY <1>1, <1>2 DEF DueInv, TrafficDue, Seqs

\* The goroutine of decStreamPending.
LEMMA ProcessTermKeeps ==
    ASSUME DueInv, NEW t \in terms, ProcessTerm(t)
    PROVE  DueInv'
  <1>1. KeptDue /\ o \in Leaders(Seqs) /\ lead \in Replica
    BY DEF DueInv, KeptDue
  <1>2. t[1] \in Replica /\ t[2] \in Seqs /\ t[3] \in Nat
    BY DEF DueInv, TrafficDue
  <1>3. Numbered(Seqs) /\ t[2] \in Positive
    BY <1>1, <1>2, ConfigIs DEF KeptDue
  <1>4. UNCHANGED streamVars /\ terms' = terms \ {t} /\ held' = held
    BY DEF ProcessTerm, clientVars
  <1>5. KeptDue' /\ cfg' = cfg
    <2>1. CASE Store(ProcessAckMsg(Work(o), t[2], t[3]))
      <3>1. ProcessAckMsg(Work(o), t[2], t[3]) \in Works(Seqs)
        BY <1>1, <1>2, <1>3, WorkStart, ProcessAckMsgIs
      <3>2. QED
        BY <1>1, <2>1, <3>1, StoreKeeps
    <2>2. CASE /\ phead' = [phead EXCEPT ![t[1]] = Append(@, Op("acks", t[3], t[2], 0))]
               /\ UNCHANGED <<cfg, o, lead, stores, disk, given>>
      <3>1. Op("acks", t[3], t[2], 0) \in OpType(Seqs)
        BY <1>2, <1>3, CountIs, OpIs
      <3>2. phead \in [Replica -> Seq(OpType(Seqs))]
        BY <1>1 DEF KeptDue
      <3>3. phead' \in [Replica -> Seq(OpType(Seqs))]
        BY <1>2, <2>2, <3>1, <3>2
      <3>4. QED
        BY <1>1, <2>2, <3>3 DEF KeptDue, Seqs
    <2>3. CASE UNCHANGED <<storeVars, o>>
      BY <1>1, <2>3 DEF KeptDue, Seqs, storeVars
    <2>4. QED
      BY <2>1, <2>2, <2>3 DEF ProcessTerm
  <1>6. TrafficDue'
    BY <1>4, <1>5, TrafficKeeps DEF DueInv
  <1>7. QED
    BY <1>5, <1>6 DEF DueInv

\* The updates of a purge.
LEMMA AcksOfIs ==
    ASSUME NEW D, Numbered(D), NEW f \in Maps(D, Positive), NEW S \in SUBSET DOMAIN f
    PROVE  AcksOf(f, S) \in Seq(OpType(D))
  <1>1. DOMAIN f \subseteq D /\ \A s \in DOMAIN f : f[s] \in Positive
    BY MapIs
  <1>2. Acks!Indices(S)
    BY <1>1 DEF Numbered, Acks!Indices
  <1>3. ASSUME NEW s \in S, NEW q \in Seq(OpType(D))
        PROVE  AckItem(0, f, q, s) \in Seq(OpType(D))
    <2>1. f[s] \in Nat /\ s \in Positive
      BY <1>1 DEF Positive, Numbered
    <2>2. Op("acks", f[s], s, 0) \in OpType(D)
      BY <2>1, CountIs, OpIs
    <2>3. QED
      BY <2>2 DEF AckItem
  <1>4. <<>> \in Seq(OpType(D))
    OBVIOUS
  <1>5. Acks!Fold(0, f, <<>>, S) \in Seq(OpType(D))
    BY <1>2, <1>3, <1>4, Acks!FoldStays
  <1>6. QED
    BY <1>5, AcksFold

\* What the stream tells of its first sequence.
LEMMA FirstSeqIs ==
    ASSUME NEW l \in Nat, NEW m, m \subseteq 1 .. l
    PROVE  FirstSeq(m, l) \in Positive
  <1>1. CASE m = {}
    BY <1>1 DEF FirstSeq, Positive
  <1>2. CASE m # {}
    <2>1. m \in SUBSET Nat
      OBVIOUS
    <2>2. Min(m) \in m
      BY <1>2, <2>1, MinOf
    <2>3. PICK k : k = Min(m)
      OBVIOUS
    <2>4. k \in 1 .. l /\ FirstSeq(m, l) = k
      BY <1>2, <2>2, <2>3 DEF FirstSeq
    <2>5. QED
      BY <2>4 DEF Positive
  <1>3. QED
    BY <1>1, <1>2

\* consumer.purge.
LEMMA PurgeConsumerIs ==
    ASSUME NEW D, Numbered(D), o \in Leaders(D), NEW fseq \in Positive
    PROVE  PurgeConsumer(fseq) \in Works(D)
  <1> DEFINE below == 0 .. fseq - 1
             x0 == [o EXCEPT !.rdc = Without(@, below)]
             x1 == RemoveFromRedeliverQueue(x0, DOMAIN o.rdc \cap below)
             x2 == [x1 EXCEPT !.sseq = Max2(@, fseq)]
             gone == IF o.asflr < fseq THEN DOMAIN o.pending \cap below ELSE {}
             adflr == Max({o.adflr} \cup {o.pending[s] : s \in gone})
             x3 == IF o.asflr < fseq
                   THEN [x2 EXCEPT !.asflr = fseq - 1, !.adflr = adflr,
                                   !.dseq = Max2(@, adflr),
                                   !.pending = Without(@, gone), !.rdc = Without(@, gone)]
                   ELSE x2
             x4 == IF DOMAIN x3.pending = {}
                   THEN [x3 EXCEPT !.rdc = Empty, !.adflr = x3.dseq - 1, !.asflr = x3.sseq - 1]
                   ELSE x3
             x5 == [x4 EXCEPT !.rdq = Dropping(@, 0 .. x4.sseq - 1)]
  <1>1. PurgeConsumer(fseq) = [o |-> x5, ops |-> AcksOf(o.pending, gone), write |-> TRUE, up |-> {}]
    BY DEF PurgeConsumer
  <1>2. /\ o.pending \in Maps(D, Positive) /\ o.rdc \in Maps(D, Counts) /\ o.adflr \in Nat
        /\ \A s \in DOMAIN o.pending : o.pending[s] \in Positive
        /\ DOMAIN o.pending \subseteq D
    BY LeaderIs
  <1>3. x0 \in Leaders(D) /\ x0.pending = o.pending
    <2>1. PICK S : S = below
      OBVIOUS
    <2>2. Without(o.rdc, S) \in Maps(D, Counts)
      BY <1>2, WithoutIs
    <2>3. [o EXCEPT !.rdc = Without(o.rdc, S)] \in Leaders(D)
      BY <2>2, LeaderRdc
    <2>4. [o EXCEPT !.rdc = Without(o.rdc, S)].pending = o.pending
      BY <2>2, LeaderRdc
    <2>5. QED
      BY <2>1, <2>3, <2>4
  <1> HIDE DEF x0
  <1>4. x1 \in Leaders(D) /\ x1.pending = o.pending
    <2>1. PICK S : S = DOMAIN o.rdc \cap below
      OBVIOUS
    <2>2. /\ x0 \in LeaderType(D) /\ NoRepeats(x0.rdq) /\ ToSet(x0.rdq) \subseteq DOMAIN x0.pending
          /\ DOMAIN x0.pending # {} => x0.ptmr
      BY <1>3, LeaderIs
    <2>3. RemoveFromRedeliverQueue(x0, S) \in Leaders(D)
      <3>1. ToSet(x0.rdq) \ S \subseteq DOMAIN x0.pending
        BY <2>2
      <3>2. QED
        BY <2>2, <3>1, LeaderClean
    <2>4. RemoveFromRedeliverQueue(x0, S).pending = x0.pending
      BY <2>2 DEF RemoveFromRedeliverQueue, LeaderType
    <2>5. x1 = RemoveFromRedeliverQueue(x0, S)
      BY <2>1, Zenon
    <2>6. QED
      BY <1>3, <2>3, <2>4, <2>5, Zenon
  <1> HIDE DEF x1
  <1>5. gone \in SUBSET D /\ gone \in SUBSET DOMAIN o.pending /\ gone \subseteq below
    BY <1>2
  <1>6. adflr \in Nat
    <2> HIDE DEF gone
    <2>1. PICK f : f = o.pending
      OBVIOUS
    <2>2. \A s \in gone : f[s] \in Nat
      BY <1>2, <1>5, <2>1 DEF Positive
    <2>3. PICK a : a = o.adflr
      OBVIOUS
    <2>4. a \in Nat /\ gone \in SUBSET D
      BY <1>2, <1>5, <2>3
    <2>5. Max({a} \cup {f[s] : s \in gone}) \in Nat
      BY <2>2, <2>4, MaxMapNat
    <2>6. QED
      BY <2>1, <2>3, <2>5
  <1>7. x1 \in LeaderType(D)
    BY <1>4, LeaderIs
  <1>8. /\ x2 \in LeaderType(D) /\ x2.pending = o.pending /\ x2.rdq = x1.rdq /\ x2.ptmr = x1.ptmr
        /\ x2.sseq >= fseq
    <2>1. Max2(x1.sseq, fseq) \in Positive /\ Max2(x1.sseq, fseq) >= fseq
      <3>1. x1.sseq \in Positive
        BY <1>4, LeaderIs
      <3>2. QED
        BY <3>1 DEF Max2, Positive
    <2>2. QED
      BY <1>4, <1>7, <2>1 DEF LeaderType
  <1>9. /\ Without(o.pending, gone) \in Maps(D, Positive)
        /\ \A s : s \in DOMAIN Without(o.pending, gone) <=> s \in DOMAIN o.pending /\ s \notin gone
    <2> HIDE DEF gone
    <2>1. QED
      BY <1>2, WithoutIs
  <1> HIDE DEF gone, x2, adflr
  <1>10. /\ x3 \in LeaderType(D) /\ x3.rdq = x1.rdq /\ x3.ptmr = x1.ptmr /\ x3.sseq >= fseq
         /\ x3.pending = o.pending \/ x3.pending = Without(o.pending, gone)
    <2>1. CASE ~(o.asflr < fseq)
      BY <1>8, <2>1
    <2>2. CASE o.asflr < fseq
      <3>1. Without(x2.rdc, gone) \in Maps(D, Counts)
        <4>1. x2.rdc \in Maps(D, Counts)
          BY <1>8 DEF LeaderType
        <4>2. QED
          BY <4>1, WithoutIs
      <3>2. Max2(x2.dseq, adflr) \in Positive
        <4>1. x2.dseq \in Positive
          BY <1>8 DEF LeaderType
        <4>2. QED
          BY <1>6, <4>1 DEF Max2, Positive
      <3>3. fseq - 1 \in Nat
        BY DEF Positive
      <3>4. PICK y : y = [x2 EXCEPT !.asflr = fseq - 1, !.adflr = adflr,
                                    !.dseq = Max2(@, adflr),
                                    !.pending = Without(@, gone), !.rdc = Without(@, gone)]
        OBVIOUS
      <3>5. /\ y \in LeaderType(D) /\ y.rdq = x2.rdq /\ y.ptmr = x2.ptmr /\ y.sseq = x2.sseq
            /\ y.pending = Without(x2.pending, gone)
        BY <1>6, <1>8, <1>9, <3>1, <3>2, <3>3, <3>4 DEF LeaderType
      <3>6. x3 = y
        BY <2>2, <3>4
      <3>7. QED
        BY <1>8, <3>5, <3>6
    <2>3. QED
      BY <2>1, <2>2
  <1> HIDE DEF x3
  <1>11. /\ x4 \in LeaderType(D) /\ x4.rdq = x1.rdq /\ x4.ptmr = x1.ptmr /\ x4.sseq >= fseq
         /\ x4.pending = x3.pending
    <2>1. CASE DOMAIN x3.pending # {}
      BY <1>10, <2>1
    <2>2. CASE DOMAIN x3.pending = {}
      <3>1. x3.dseq \in Positive /\ x3.sseq \in Positive
        BY <1>10 DEF LeaderType
      <3>2. x3.dseq - 1 \in Nat /\ x3.sseq - 1 \in Nat /\ Empty \in Maps(D, Counts)
        BY <3>1, EmptyIs DEF Positive
      <3>3. PICK y : y = [x3 EXCEPT !.rdc = Empty, !.adflr = x3.dseq - 1, !.asflr = x3.sseq - 1]
        OBVIOUS
      <3>4. /\ y \in LeaderType(D) /\ y.rdq = x3.rdq /\ y.ptmr = x3.ptmr /\ y.sseq = x3.sseq
            /\ y.pending = x3.pending
        BY <1>10, <3>2, <3>3 DEF LeaderType
      <3>5. x4 = y
        BY <2>2, <3>3
      <3>6. QED
        BY <1>10, <3>4, <3>5
    <2>3. QED
      BY <2>1, <2>2
  <1> HIDE DEF x4
  <1>12. x5 \in Leaders(D)
    <2>1. PICK S : S = 0 .. x4.sseq - 1
      OBVIOUS
    <2>2. /\ NoRepeats(x1.rdq) /\ ToSet(x1.rdq) \subseteq DOMAIN x1.pending
          /\ DOMAIN x1.pending # {} => x1.ptmr
      BY <1>4, LeaderIs
    <2>3. x4.pending = o.pending \/ x4.pending = Without(o.pending, gone)
      BY <1>10, <1>11
    <2>4. below \subseteq S
      <3>1. x4.sseq \in Positive
        BY <1>11 DEF LeaderType
      <3>2. QED
        BY <1>11, <2>1, <3>1 DEF Positive
    <2>5. ToSet(x1.rdq) \ S \subseteq DOMAIN o.pending /\ ToSet(x1.rdq) \ S \subseteq DOMAIN Without(o.pending, gone)
      <3>1. ToSet(x1.rdq) \ S \subseteq DOMAIN o.pending
        BY <1>4, <2>2
      <3>2. gone \subseteq S
        BY <1>5, <2>4
      <3>3. QED
        BY <1>9, <3>1, <3>2
    <2>6. ToSet(x4.rdq) \ S \subseteq DOMAIN x4.pending
      <3>1. CASE x4.pending = o.pending
        BY <1>11, <2>5, <3>1, Zenon
      <3>2. CASE x4.pending = Without(o.pending, gone)
        BY <1>11, <2>5, <3>2, Zenon
      <3>3. QED
        BY <2>3, <3>1, <3>2
    <2>7. DOMAIN x4.pending # {} => x4.ptmr
      <3>1. DOMAIN o.pending # {} => x1.ptmr
        BY <1>4, <2>2, Zenon
      <3>2. DOMAIN Without(o.pending, gone) # {} => DOMAIN o.pending # {}
        BY <1>9
      <3>3. CASE x4.pending = o.pending
        BY <1>11, <3>1, <3>3, Zenon
      <3>4. CASE x4.pending = Without(o.pending, gone)
        BY <1>11, <3>1, <3>2, <3>4, Zenon
      <3>5. QED
        BY <2>3, <3>3, <3>4
    <2>8. NoRepeats(x4.rdq)
      BY <1>11, <2>2, Zenon
    <2>9. RemoveFromRedeliverQueue(x4, S) \in Leaders(D)
      BY <1>11, <2>6, <2>7, <2>8, LeaderClean
    <2>10. QED
      BY <2>1, <2>9 DEF RemoveFromRedeliverQueue
  <1> HIDE DEF x5
  <1>13. AcksOf(o.pending, gone) \in Seq(OpType(D))
    BY <1>2, <1>5, AcksOfIs
  <1>14. QED
    BY <1>1, <1>12, <1>13 DEF Works

\* A purge.
LEMMA PurgeKeeps ==
    ASSUME DueInv, NEW s \in Seqs, Purge(s + 1)
    PROVE  DueInv'
  <1>1. /\ cfg' = cfg /\ lead' = lead /\ disk' = disk /\ last' = last /\ terms' = terms
        /\ held' = held /\ Seqs' = Seqs /\ msgs' \subseteq msgs
    BY DEF Purge, clientVars, Seqs
  <1>2. PICK D : D = Seqs
    OBVIOUS
  <1>3. /\ cfg \in Configs /\ cfg.maxdc \in Nat /\ Numbered(D) /\ lead \in Replica
        /\ o \in Leaders(D) /\ stores \in [Replica -> StoreType(D)] /\ cfg.n \in Nat
        /\ phead \in [Replica -> Seq(OpType(D))] /\ disk \in StoreType(D)
    BY <1>2, ConfigIs DEF DueInv, KeptDue
  <1>4. last \in Nat /\ msgs' \subseteq 1 .. last
    BY <1>1, <1>3 DEF DueInv, TrafficDue
  <1>5. PICK first : first = FirstSeq(msgs', last)
    OBVIOUS
  <1>6. first \in Positive
    BY <1>4, <1>5, FirstSeqIs
  <1>7. PICK w : w = PurgeConsumer(first)
    OBVIOUS
  <1>8. w \in Works(D)
    BY <1>3, <1>6, <1>7, PurgeConsumerIs
  <1>9. w.o \in Leaders(D) /\ w.ops \in Seq(OpType(D))
    BY <1>8, WorkIs
  <1>10. PICK old : old = [r \in Replica |-> RemoveRedeliveredBelow(stores[r], first)]
    OBVIOUS
  <1>11. old \in [Replica -> StoreType(D)] /\ old[lead] \in StoreType(D)
    <2>1. ASSUME NEW r \in Replica PROVE RemoveRedeliveredBelow(stores[r], first) \in StoreType(D)
      <3>1. stores[r] \in StoreType(D) /\ first \in Nat
        BY <1>3, <1>6 DEF Positive
      <3>2. QED
        BY <3>1, StoreOthers
    <2>2. QED
      BY <1>3, <1>10, <2>1
  <1>12. /\ o' = w.o
         /\ IF cfg.clustered
            THEN /\ phead' = [phead EXCEPT ![lead] = @ \o w.ops]
                 /\ stores' = [old EXCEPT ![lead] = WriteStoreState(@, w)]
            ELSE /\ phead' = phead
                 /\ stores' = [old EXCEPT ![lead] = WriteStoreState(ApplyOps(@, w.ops), w)]
    BY <1>5, <1>7, <1>10 DEF Purge
  <1>13. phead' \in [Replica -> Seq(OpType(D))]
    <2>1. phead[lead] \o w.ops \in Seq(OpType(D))
      BY <1>3, <1>9
    <2>2. QED
      BY <1>3, <1>12, <2>1
  <1>14. stores' \in [Replica -> StoreType(D)]
    <2>1. WriteStoreState(old[lead], w) \in StoreType(D)
      BY <1>8, <1>11, WriteIs
    <2>2. ApplyOps(old[lead], w.ops) \in StoreType(D)
      BY <1>3, <1>9, <1>11, ApplyOpsIs
    <2>3. WriteStoreState(ApplyOps(old[lead], w.ops), w) \in StoreType(D)
      BY <1>8, <2>2, WriteIs
    <2>4. QED
      BY <1>11, <1>12, <2>1, <2>3
  <1>15. KeptDue'
    BY <1>1, <1>2, <1>3, <1>9, <1>12, <1>13, <1>14 DEF KeptDue
  <1>16. TrafficDue'
    BY <1>1, <1>4 DEF DueInv, TrafficDue
  <1>17. QED
    BY <1>15, <1>16 DEF DueInv

\* An action that ends with Store and leaves the traffic alone.
LEMMA StoreStep ==
    ASSUME DueInv, NEW w, w \in Works(Seqs), Store(w), UNCHANGED streamVars,
           held' \subseteq held, terms' \subseteq terms
    PROVE  DueInv'
  BY StoreKeeps, TrafficKeeps DEF DueInv

\* deliverMsg.
LEMMA DeliverMsgIs ==
    ASSUME NEW D, NEW w \in Works(D), NEW s \in D, s \in Positive, NEW dc \in Counts
    PROVE  DeliverMsg(w, s, dc) \in Works(D) /\ w.o.dseq \in Positive
  <1>1. w.o \in Leaders(D)
    BY WorkIs
  <1>2. PICK x : x = w.o
    OBVIOUS
  <1>3. /\ x \in LeaderType(D) /\ NoRepeats(x.rdq) /\ ToSet(x.rdq) \subseteq DOMAIN x.pending
        /\ x.dseq \in Positive /\ x.pending \in Maps(D, Positive) /\ x.pd \in Maps(D, Nat)
        /\ x.waiting \in Int
    BY <1>1, <1>2, LeaderIs
  <1> DEFINE d == x.dseq
             pend == IF s \in DOMAIN x.pending THEN x.pending ELSE With(x.pending, s, d)
             wait == IF cfg.push THEN x.waiting ELSE x.waiting - 1
             sent == IF cfg.clustered THEN With(x.pd, s, d) ELSE x.pd
             y == [x EXCEPT !.dseq = d + 1, !.ptmr = TRUE, !.waiting = wait, !.pending = pend,
                            !.pd = sent]
  <1>4. d \in Positive /\ d + 1 \in Positive /\ d \in Nat /\ d # 0
    BY <1>3 DEF Positive
  <1> HIDE DEF d
  <1>5. pend \in Maps(D, Positive) /\ DOMAIN x.pending \subseteq DOMAIN pend
    <2>1. CASE s \in DOMAIN x.pending
      BY <1>3, <2>1
    <2>2. CASE s \notin DOMAIN x.pending
      <3>1. /\ With(x.pending, s, d) \in Maps(D, Positive)
            /\ \A t : t \in DOMAIN With(x.pending, s, d) <=> t \in DOMAIN x.pending \/ t = s
        BY <1>3, <1>4, WithIs
      <3>2. DOMAIN x.pending \subseteq DOMAIN With(x.pending, s, d)
        BY <3>1
      <3>3. QED
        BY <2>2, <3>1, <3>2
    <2>3. QED
      BY <2>1, <2>2
  <1>6. wait \in Int /\ sent \in Maps(D, Nat)
    <2>1. With(x.pd, s, d) \in Maps(D, Nat)
      BY <1>3, <1>4, WithIs
    <2>2. QED
      BY <1>3, <2>1
  <1> HIDE DEF pend, wait, sent
  <1>7. y \in LeaderType(D) /\ y.rdq = x.rdq /\ y.pending = pend /\ y.ptmr = TRUE
    BY <1>3, <1>4, <1>5, <1>6 DEF LeaderType
  <1> HIDE DEF y
  <1>8. y \in Leaders(D)
    <2>1. ToSet(x.rdq) \subseteq DOMAIN pend
      BY <1>3, <1>5
    <2>2. Due(y)
      BY <1>3, <1>7, <2>1 DEF Due
    <2>3. QED
      BY <1>7, <2>2 DEF Leaders
  <1>9. [w EXCEPT !.o = y] \in Works(D)
    BY <1>8, WorkLeader
  <1>10. Op("delivered", d, s, dc) \in OpType(D)
    BY <1>4, OpIs
  <1>11. Emit([w EXCEPT !.o = y], Op("delivered", d, s, dc)) \in Works(D)
    BY <1>9, <1>10, EmitIs
  <1>12. DeliverMsg(w, s, dc) = Emit([w EXCEPT !.o = y], Op("delivered", d, s, dc))
    BY <1>2 DEF DeliverMsg, y, pend, wait, sent, d
  <1>13. QED
    BY <1>2, <1>3, <1>11, <1>12

\* A message is sent.
LEMMA DeliverKeeps ==
    ASSUME DueInv, NEW w, w \in Works(Seqs), NEW s \in Seqs, NEW dc \in Counts, Deliver(w, s, dc)
    PROVE  DueInv'
  <1>1. s \in Positive
    BY ConfigIs DEF DueInv, KeptDue
  <1>2. DeliverMsg(w, s, dc) \in Works(Seqs) /\ w.o.dseq \in Nat
    BY <1>1, DeliverMsgIs DEF Positive
  <1>3. KeptDue' /\ cfg' = cfg
    BY <1>2, StoreKeeps DEF Deliver, DueInv
  <1>4. /\ terms' = terms /\ msgs' = msgs /\ last' = last
        /\ held' = held \/ held' = held \cup {<<s, w.o.dseq>>}
    BY DEF Deliver, SendMsg, streamVars
  <1>5. held' \subseteq Seqs \X Nat
    BY <1>2, <1>4 DEF DueInv, TrafficDue
  <1>6. QED
    BY <1>3, <1>4, <1>5 DEF DueInv, TrafficDue, Seqs

\* A message is put back.
LEMMA PutBackKeeps ==
    ASSUME DueInv, NEW w, w \in Works(Seqs), NEW s \in Seqs, NEW dc,
           s \in DOMAIN w.o.pending \/ (dc = 1 /\ s = w.o.sseq - 1), PutBack(w, s, dc)
    PROVE  DueInv'
  <1>1. s \in Positive /\ w.o \in Leaders(Seqs)
    BY ConfigIs, WorkIs DEF DueInv, KeptDue
  <1>2. PICK x : x = [w.o EXCEPT !.waiting = 0]
    OBVIOUS
  <1>3. x \in Leaders(Seqs) /\ x.pending = w.o.pending /\ x.sseq = w.o.sseq
    <2>1. w.o \in LeaderType(Seqs) /\ Due(w.o)
      BY <1>1 DEF Leaders
    <2>2. /\ x \in LeaderType(Seqs) /\ x.pending = w.o.pending /\ x.sseq = w.o.sseq
          /\ x.rdq = w.o.rdq /\ x.ptmr = w.o.ptmr
      BY <1>2, <2>1 DEF LeaderType
    <2>3. QED
      BY <2>1, <2>2 DEF Leaders, Due
  <1>4. PICK y : y = IF dc = 1 /\ s = x.sseq - 1
                     THEN [x EXCEPT !.sseq = @ - 1]
                     ELSE AddToRedeliverQueue(DecDeliveryCount(x, s), s)
    OBVIOUS
  <1>5. y \in Leaders(Seqs)
    <2>1. CASE dc = 1 /\ s = x.sseq - 1
      <3>1. x \in LeaderType(Seqs) /\ Due(x)
        BY <1>3 DEF Leaders
      <3>2. y = [x EXCEPT !.sseq = s]
        BY <1>4, <2>1
      <3>3. /\ y \in LeaderType(Seqs) /\ y.pending = x.pending
            /\ y.rdq = x.rdq /\ y.ptmr = x.ptmr
        BY <1>1, <3>1, <3>2 DEF LeaderType
      <3>4. QED
        BY <3>1, <3>3 DEF Leaders, Due
    <2>2. CASE ~(dc = 1 /\ s = x.sseq - 1)
      <3>1. s \in DOMAIN x.pending
        BY <1>3, <2>2
      <3>2. DecDeliveryCount(x, s) \in Leaders(Seqs) /\ DecDeliveryCount(x, s).pending = x.pending
        BY <1>3, CountingIs
      <3>3. PICK z : z = DecDeliveryCount(x, s)
        OBVIOUS
      <3>4. z \in Leaders(Seqs) /\ s \in DOMAIN z.pending
        BY <3>1, <3>2, <3>3
      <3>5. AddToRedeliverQueue(z, s) \in Leaders(Seqs)
        BY <3>4, AddToQueueIs
      <3>6. QED
        BY <1>4, <2>2, <3>3, <3>5
    <2>3. QED
      BY <2>1, <2>2
  <1>6. [w EXCEPT !.o = y] \in Works(Seqs)
    BY <1>5, WorkLeader
  <1>7. /\ Store([w EXCEPT !.o = y]) /\ UNCHANGED streamVars /\ held' = held /\ terms' = terms
    BY <1>2, <1>4 DEF PutBack, clientVars
  <1>8. QED
    BY <1>6, <1>7, StoreStep

\* The next message to redeliver.
LEMMA NextToRedeliverIs ==
    ASSUME DueInv, o.rdq # <<>>
    PROVE  /\ NextToRedeliver \in Leaders(Seqs)
           /\ NextToRedeliver.pending = o.pending
           /\ Head(o.rdq) \notin ToSet(NextToRedeliver.rdq)
           /\ Head(o.rdq) \in DOMAIN o.pending /\ Head(o.rdq) \in Seqs
           /\ NextCount \in Counts
  <1>1. o \in Leaders(Seqs)
    BY DEF DueInv, KeptDue
  <1>2. PICK s : s = Head(o.rdq)
    OBVIOUS
  <1>3. /\ o \in LeaderType(Seqs) /\ o.rdq \in Seq(Seqs) /\ NoRepeats(o.rdq)
        /\ ToSet(o.rdq) \subseteq DOMAIN o.pending
        /\ DOMAIN o.pending # {} => o.ptmr
    BY <1>1, LeaderIs
  <1>4. /\ s \in Seqs /\ s \in ToSet(o.rdq) /\ Tail(o.rdq) \in Seq(Seqs) /\ NoRepeats(Tail(o.rdq))
        /\ ToSet(Tail(o.rdq)) \subseteq ToSet(o.rdq) \ {s}
    BY <1>2, <1>3, TailIs
  <1>5. PICK x : x = [o EXCEPT !.rdq = Tail(@)]
    OBVIOUS
  <1>6. /\ x \in LeaderType(Seqs) /\ x.rdq = Tail(o.rdq) /\ x.pending = o.pending
        /\ x.ptmr = o.ptmr
    BY <1>3, <1>4, <1>5 DEF LeaderType
  <1>7. ToSet(Tail(o.rdq)) \subseteq DOMAIN o.pending
    BY <1>3, <1>4
  <1>8. x \in Leaders(Seqs)
    BY <1>3, <1>4, <1>6, <1>7 DEF Leaders, Due
  <1>9. NextToRedeliver = IncDeliveryCount(x, s)
    BY <1>2, <1>5, Zenon DEF NextToRedeliver
  <1>10. /\ NextToRedeliver \in Leaders(Seqs) /\ NextToRedeliver.pending = x.pending
         /\ NextToRedeliver.rdq = x.rdq
    BY <1>4, <1>8, <1>9, CountingIs
  <1>11. NextCount \in Counts
    <2>1. PICK y : y = NextToRedeliver
      OBVIOUS
    <2>2. (Rdc(y, s) + 1) % Width \in Counts
      BY <1>10, <2>1, RdcIs
    <2>3. QED
      BY <1>2, <2>1, <2>2 DEF NextCount
  <1>12. s \notin ToSet(Tail(o.rdq)) /\ s \in DOMAIN o.pending
    BY <1>3, <1>4
  <1>13. QED
    BY <1>2, <1>4, <1>6, <1>10, <1>11, <1>12, Zenon

\* Redelivering.
LEMMA RedeliverKeeps ==
    ASSUME DueInv, RedeliverTooOften \/ RedeliverRemoved \/ Redeliver
    PROVE  DueInv'
  <1>1. o.rdq # <<>>
    BY DEF RedeliverTooOften, RedeliverRemoved, Redeliver
  <1>2. PICK s : s = Head(o.rdq)
    OBVIOUS
  <1>3. PICK x : x = NextToRedeliver
    OBVIOUS
  <1>4. /\ x \in Leaders(Seqs) /\ x.pending = o.pending /\ s \notin ToSet(x.rdq)
        /\ s \in DOMAIN o.pending /\ s \in Seqs /\ NextCount \in Counts
    BY <1>1, <1>2, <1>3, NextToRedeliverIs
  <1>5. Work(x) \in Works(Seqs) /\ Work(x).o = x
    BY <1>4, WorkStart
  <1>6. Numbered(Seqs)
    BY ConfigIs DEF DueInv, KeptDue
  <1>7. CASE RedeliverTooOften
    <2>1. GiveUpPending(Work(x), s, NextCount) \in Works(Seqs)
      BY <1>4, <1>5, <1>6, GiveUpIs
    <2>2. /\ Store(GiveUpPending(Work(x), s, NextCount)) /\ UNCHANGED streamVars
          /\ held' = held /\ terms' = terms
      BY <1>2, <1>3, <1>7 DEF RedeliverTooOften, clientVars
    <2>3. QED
      BY <2>1, <2>2, StoreStep
  <1>8. CASE RedeliverRemoved
    <2>1. PICK w : w = Work(DecDeliveryCount(x, s))
      OBVIOUS
    <2>2. w \in Works(Seqs)
      BY <1>4, <2>1, CountingIs, WorkStart
    <2>3. o.pending[s] \in Nat
      BY <1>4, LeaderIs DEF Positive
    <2>4. ProcessAckMsg(w, s, o.pending[s]) \in Works(Seqs)
      BY <1>4, <1>6, <2>2, <2>3, ProcessAckMsgIs
    <2>5. /\ Store(ProcessAckMsg(w, s, o.pending[s])) /\ UNCHANGED streamVars
          /\ held' = held /\ terms' = terms
      BY <1>2, <1>3, <1>4, <1>8, <2>1 DEF RedeliverRemoved, clientVars
    <2>6. QED
      BY <2>4, <2>5, StoreStep
  <1>9. CASE Redeliver
    <2>1. PICK w : w = Work(x)
      OBVIOUS
    <2>2. w \in Works(Seqs) /\ s \in DOMAIN w.o.pending
      BY <1>4, <1>5, <2>1
    <2>3. Deliver(w, s, NextCount) \/ PutBack(w, s, NextCount)
      BY <1>2, <1>3, <1>9, <2>1 DEF Redeliver, DeliverOrPutBack
    <2>4. QED
      BY <1>4, <2>2, <2>3, DeliverKeeps, PutBackKeeps
  <1>10. QED
    BY <1>7, <1>8, <1>9

\* Another sequence to deliver next.
LEMMA LeaderSseq ==
    ASSUME NEW D, NEW x \in Leaders(D), NEW k \in Positive
    PROVE  [x EXCEPT !.sseq = k] \in Leaders(D) /\ [x EXCEPT !.sseq = k].sseq = k
  <1>1. x \in LeaderType(D) /\ Due(x)
    BY DEF Leaders
  <1>2. PICK y : y = [x EXCEPT !.sseq = k]
    OBVIOUS
  <1>3. /\ y \in LeaderType(D) /\ y.pending = x.pending /\ y.rdq = x.rdq /\ y.ptmr = x.ptmr
        /\ y.sseq = k
    BY <1>1, <1>2 DEF LeaderType
  <1>4. Due(y)
    BY <1>1, <1>3 DEF Due
  <1>5. QED
    BY <1>2, <1>3, <1>4 DEF Leaders

\* Delivering what is new.
LEMMA DeliverNextKeeps ==
    ASSUME DueInv, DeliverNext
    PROVE  DueInv'
  <1>1. PICK s \in msgs : DeliverOrPutBack(Work([o EXCEPT !.sseq = s + 1]), s, 1)
    BY DEF DeliverNext
  <1>2. s \in Seqs /\ s \in Nat /\ s + 1 \in Positive
    BY ConfigIs DEF DueInv, KeptDue, TrafficDue, Seqs, Positive
  <1>3. PICK x : x = [o EXCEPT !.sseq = s + 1]
    OBVIOUS
  <1>4. x \in Leaders(Seqs) /\ x.sseq = s + 1
    BY <1>2, <1>3, LeaderSseq DEF DueInv, KeptDue
  <1>5. PICK w : w = Work(x)
    OBVIOUS
  <1>6. w \in Works(Seqs) /\ w.o = x
    BY <1>4, <1>5, WorkStart
  <1>7. s = w.o.sseq - 1
    BY <1>2, <1>4, <1>6
  <1>8. Deliver(w, s, 1) \/ PutBack(w, s, 1)
    BY <1>1, <1>3, <1>5 DEF DeliverOrPutBack
  <1>9. QED
    BY <1>2, <1>6, <1>7, <1>8, CountIs, DeliverKeeps, PutBackKeeps

\* The end of the stream.
LEMMA ReachEndKeeps ==
    ASSUME DueInv, ReachEnd
    PROVE  DueInv'
  <1>1. last + 1 \in Positive
    BY ConfigIs DEF DueInv, KeptDue, TrafficDue, Positive
  <1>2. PICK w : w = Work([o EXCEPT !.sseq = last + 1])
    OBVIOUS
  <1>3. w \in Works(Seqs)
    BY <1>1, <1>2, LeaderSseq, WorkStart DEF DueInv, KeptDue
  <1>4. Emit(w, Op("skip", 0, last + 1, 0)) \in Works(Seqs)
    BY <1>1, <1>3, CountIs, OpIs, EmitIs
  <1>5. /\ Store(w) \/ Store(Emit(w, Op("skip", 0, last + 1, 0)))
        /\ UNCHANGED streamVars /\ held' = held /\ terms' = terms
    BY <1>2 DEF ReachEnd, clientVars
  <1>6. QED
    BY <1>3, <1>4, <1>5, StoreStep

\* Fields that the redeliveries do not rest on.
LEMMA LeaderFree ==
    ASSUME NEW D, NEW x \in Leaders(D), NEW y,
           \/ \E b \in BOOLEAN : y = [x EXCEPT !.active = b]
           \/ \E k \in Int : y = [x EXCEPT !.waiting = k]
           \/ \E f \in Maps(D, Nat) : y = [x EXCEPT !.pd = f]
    PROVE  y \in Leaders(D) /\ y.pending = x.pending
  <1>1. x \in LeaderType(D) /\ Due(x)
    BY DEF Leaders
  <1>2. y \in LeaderType(D) /\ y.pending = x.pending /\ y.rdq = x.rdq /\ y.ptmr = x.ptmr
    BY <1>1 DEF LeaderType
  <1>3. Due(y)
    BY <1>1, <1>2 DEF Due
  <1>4. QED
    BY <1>2, <1>3 DEF Leaders

\* An action that changes no more than the memory of the leader.
LEMMA LeaderStep ==
    ASSUME DueInv, o' \in Leaders(Seqs), UNCHANGED storeVars, UNCHANGED streamVars,
           held' \subseteq held, terms' \subseteq terms
    PROVE  DueInv'
  <1>1. KeptDue' /\ cfg' = cfg
    BY DEF DueInv, KeptDue, storeVars, Seqs
  <1>2. QED
    BY <1>1, TrafficKeeps DEF DueInv

\* Somebody to deliver to.
LEMMA InterestKeeps ==
    ASSUME DueInv, UpdateDeliveryInterest \/ ProcessNextMsgRequest
    PROVE  DueInv'
  <1>1. o \in Leaders(Seqs)
    BY DEF DueInv, KeptDue
  <1>2. \/ \E b \in BOOLEAN : o' = [o EXCEPT !.active = b]
        \/ \E k \in Int : o' = [o EXCEPT !.waiting = k]
    <2>1. \/ o' = [o EXCEPT !.active = TRUE] \/ o' = [o EXCEPT !.waiting = 1]
      BY DEF UpdateDeliveryInterest, ProcessNextMsgRequest
    <2>2. TRUE \in BOOLEAN /\ 1 \in Int
      OBVIOUS
    <2>3. QED
      BY <2>1, <2>2, Zenon
  <1>3. o' \in Leaders(Seqs)
    BY <1>1, <1>2, LeaderFree
  <1>4. UNCHANGED storeVars /\ UNCHANGED streamVars /\ held' = held /\ terms' = terms
    BY DEF UpdateDeliveryInterest, ProcessNextMsgRequest, clientVars
  <1>5. QED
    BY <1>3, <1>4, LeaderStep

\* A delivery failed.
LEMMA DidNotDeliverKeeps ==
    ASSUME DueInv, NEW h \in held, DidNotDeliver(h)
    PROVE  DueInv'
  <1>1. o \in Leaders(Seqs) /\ h[1] \in Seqs
    BY DEF DueInv, KeptDue, TrafficDue
  <1>2. PICK x : x = DecDeliveryCount(o, h[1])
    OBVIOUS
  <1>3. x \in Leaders(Seqs) /\ x.waiting \in Int
    BY <1>1, <1>2, CountingIs, LeaderIs
  <1>4. o' \in Leaders(Seqs)
    <2>1. CASE \E b \in BOOLEAN : o' = [x EXCEPT !.active = b]
      BY <1>3, <2>1, LeaderFree
    <2>2. CASE \E k \in {0, x.waiting} :
                  LET y == [x EXCEPT !.waiting = k]
                  IN  o' = IF h[1] \in DOMAIN x.pending THEN AddToRedeliverQueue(y, h[1]) ELSE y
      <3>1. PICK k \in {0, x.waiting} :
                  LET y == [x EXCEPT !.waiting = k]
                  IN  o' = IF h[1] \in DOMAIN x.pending THEN AddToRedeliverQueue(y, h[1]) ELSE y
        BY <2>2
      <3>2. PICK y : y = [x EXCEPT !.waiting = k]
        OBVIOUS
      <3>3. k \in Int
        BY <1>3
      <3>4. y \in Leaders(Seqs) /\ y.pending = x.pending
        BY <1>3, <3>2, <3>3, LeaderFree
      <3>5. h[1] \in DOMAIN x.pending => AddToRedeliverQueue(y, h[1]) \in Leaders(Seqs)
        BY <3>4, AddToQueueIs
      <3>6. QED
        BY <3>1, <3>2, <3>4, <3>5
    <2>3. QED
      BY <1>2, <2>1, <2>2 DEF DidNotDeliver
  <1>5. UNCHANGED storeVars /\ UNCHANGED streamVars /\ held' = held \ {h} /\ terms' = terms
    BY DEF DidNotDeliver
  <1>6. QED
    BY <1>4, <1>5, LeaderStep

\* The answers of the client.
LEMMA AnswerKeeps ==
    ASSUME DueInv, NEW h \in held,
           ProcessAck(h) \/ ProcessNak(h) \/ ProcessNakDelay(h) \/ ProgressUpdate(h)
    PROVE  DueInv'
  <1>1. o \in Leaders(Seqs) /\ h[1] \in Seqs /\ h[2] \in Nat
    BY DEF DueInv, KeptDue, TrafficDue
  <1>2. Numbered(Seqs) /\ h[1] \in Positive
    BY <1>1, ConfigIs DEF DueInv, KeptDue
  <1>3. Work(o) \in Works(Seqs)
    BY <1>1, WorkStart
  <1>4. CASE ProcessAck(h)
    <2>1. ProcessAckMsg(Work(o), h[1], h[2]) \in Works(Seqs)
      BY <1>1, <1>2, <1>3, ProcessAckMsgIs
    <2>2. /\ Store(ProcessAckMsg(Work(o), h[1], h[2])) /\ UNCHANGED streamVars
          /\ held' = held \ {h} /\ terms' = terms
      BY <1>4 DEF ProcessAck, Answered
    <2>3. QED
      BY <2>1, <2>2, StoreStep
  <1>5. CASE ProcessNak(h)
    <2>1. PICK x : x = IF NakInRange(h) THEN AddToRedeliverQueue(o, h[1]) ELSE o
      OBVIOUS
    <2>2. x \in Leaders(Seqs)
      BY <1>1, <2>1, AddToQueueIs DEF NakInRange
    <2>3. /\ Store(Work(x)) /\ UNCHANGED streamVars /\ held' = held \ {h} /\ terms' = terms
      BY <1>5, <2>1 DEF ProcessNak, Answered
    <2>4. QED
      BY <2>2, <2>3, WorkStart, StoreStep
  <1>6. CASE ProcessNakDelay(h)
    <2>1. h[1] \in DOMAIN o.pending
      BY <1>6 DEF ProcessNakDelay, NakInRange
    <2>2. PICK x : x = RemoveFromRedeliverQueue(o, {h[1]})
      OBVIOUS
    <2>3. x \in Leaders(Seqs)
      <3>1. /\ o \in LeaderType(Seqs) /\ NoRepeats(o.rdq) /\ ToSet(o.rdq) \subseteq DOMAIN o.pending
            /\ DOMAIN o.pending # {} => o.ptmr
        BY <1>1, LeaderIs
      <3>2. PICK S : S = {h[1]}
        OBVIOUS
      <3>3. ToSet(o.rdq) \ S \subseteq DOMAIN o.pending
        BY <3>1
      <3>4. RemoveFromRedeliverQueue(o, S) \in Leaders(Seqs)
        BY <3>1, <3>3, LeaderClean
      <3>5. QED
        BY <2>2, <3>2, <3>4
    <2>4. PICK dc : dc = (Rdc(o, h[1]) + 1) % Width
      OBVIOUS
    <2>5. dc \in Counts /\ o.pending[h[1]] \in Nat /\ o.pending[h[1]] # 0
      BY <1>1, <2>1, <2>4, RdcIs, LeaderIs DEF Positive
    <2>6. Op("delivered", o.pending[h[1]], h[1], dc) \in OpType(Seqs)
      BY <1>1, <1>2, <2>5, OpIs
    <2>7. Emit(Work(x), Op("delivered", o.pending[h[1]], h[1], dc)) \in Works(Seqs)
      BY <2>3, <2>6, WorkStart, EmitIs
    <2>8. /\ Store(Emit(Work(x), Op("delivered", o.pending[h[1]], h[1], dc)))
          /\ UNCHANGED streamVars /\ held' = held \ {h} /\ terms' = terms
      BY <1>6, <2>2, <2>4 DEF ProcessNakDelay, Answered
    <2>9. QED
      BY <2>7, <2>8, StoreStep
  <1>7. CASE ProgressUpdate(h)
    <2>1. h[1] \in DOMAIN o.pending
      BY <1>7 DEF ProgressUpdate
    <2>2. o.pending[h[1]] \in Nat /\ o.pending[h[1]] # 0
      BY <1>1, <2>1, LeaderIs DEF Positive
    <2>3. Op("delivered", o.pending[h[1]], h[1], 1) \in OpType(Seqs)
      BY <1>1, <1>2, <2>2, CountIs, OpIs
    <2>4. Emit(Work(o), Op("delivered", o.pending[h[1]], h[1], 1)) \in Works(Seqs)
      BY <1>3, <2>3, EmitIs
    <2>5. /\ Store(Emit(Work(o), Op("delivered", o.pending[h[1]], h[1], 1)))
          /\ UNCHANGED streamVars /\ held' = held /\ terms' = terms
      BY <1>7 DEF ProgressUpdate, clientVars
    <2>6. QED
      BY <2>4, <2>5, StoreStep
  <1>8. QED
    BY <1>4, <1>5, <1>6, <1>7

\* The timer, and what the stream no longer has.
LEMMA TimerKeeps ==
    ASSUME DueInv, AckWaitOver \/ \E s \in Seqs : CheckAckFloor(s)
    PROVE  DueInv'
  <1>1. o \in Leaders(Seqs) /\ Numbered(Seqs)
    BY ConfigIs DEF DueInv, KeptDue
  <1>2. Work(o) \in Works(Seqs)
    BY <1>1, WorkStart
  <1>3. CASE AckWaitOver
    <2>1. PICK E \in SUBSET DOMAIN o.pending : Store(CheckPending(Work(o), FirstSeq(msgs, last), E))
      BY <1>3 DEF AckWaitOver
    <2>2. E \in SUBSET Seqs
      BY <1>1, LeaderIs
    <2>3. CheckPending(Work(o), FirstSeq(msgs, last), E) \in Works(Seqs)
      BY <1>1, <1>2, <2>2, CheckPendingIs
    <2>4. UNCHANGED streamVars /\ held' = held /\ terms' = terms
      BY <1>3 DEF AckWaitOver, clientVars
    <2>5. QED
      BY <2>1, <2>3, <2>4, StoreStep
  <1>4. CASE \E s \in Seqs : CheckAckFloor(s)
    <2>1. PICK s \in Seqs : CheckAckFloor(s)
      BY <1>4
    <2>2. s \in DOMAIN o.pending
      BY <2>1 DEF CheckAckFloor
    <2>3. o.pending[s] \in Nat
      BY <1>1, <2>2, LeaderIs DEF Positive
    <2>4. ProcessAckMsg(Work(o), s, o.pending[s]) \in Works(Seqs)
      BY <1>1, <1>2, <2>3, ProcessAckMsgIs
    <2>5. /\ Store(ProcessAckMsg(Work(o), s, o.pending[s]))
          /\ UNCHANGED streamVars /\ held' = held /\ terms' = terms
      BY <2>1 DEF CheckAckFloor, clientVars
    <2>6. QED
      BY <2>4, <2>5, StoreStep
  <1>5. QED
    BY <1>3, <1>4

\* The stream is told of acknowledgements.
LEMMA AckMsgKeeps ==
    ASSUME DueInv, CheckStateForInterestStream \/ \E s \in Seqs : AckMsg(s)
    PROVE  DueInv'
  <1>1. CASE CheckStateForInterestStream
    <2>1. o' = o /\ UNCHANGED storeVars /\ UNCHANGED streamVars /\ held' = held /\ terms' = terms
      BY <1>1 DEF CheckStateForInterestStream, clientVars
    <2>2. o' \in Leaders(Seqs)
      BY <2>1 DEF DueInv, KeptDue
    <2>3. QED
      BY <2>1, <2>2, LeaderStep
  <1>2. CASE \E s \in Seqs : AckMsg(s)
    <2>1. PICK s \in Seqs : AckMsg(s)
      BY <1>2
    <2>2. last' = last /\ held' = held
      BY <2>1 DEF AckMsg, clientVars
    <2>3. CASE s \in msgs /\ ~NeedAck(s)
      <3>1. DecStreamPending(s) /\ msgs' = msgs \ {s}
        BY <2>1, <2>3 DEF AckMsg
      <3>2. KeptDue' /\ cfg' = cfg /\ terms' \subseteq Replica \X Seqs \X Nat
        BY <3>1, DecStreamPendingKeeps
      <3>3. QED
        BY <2>2, <3>1, <3>2 DEF DueInv, TrafficDue, Seqs
    <2>4. CASE ~(s \in msgs /\ ~NeedAck(s))
      <3>1. UNCHANGED <<storeVars, msgs, dropped, o, terms>>
        BY <2>1, <2>4 DEF AckMsg
      <3>2. o' \in Leaders(Seqs)
        BY <3>1 DEF DueInv, KeptDue
      <3>3. UNCHANGED storeVars /\ UNCHANGED streamVars /\ terms' = terms
        BY <2>2, <3>1 DEF streamVars
      <3>4. QED
        BY <2>2, <3>2, <3>3, LeaderStep
    <2>5. QED
      BY <2>3, <2>4
  <1>3. QED
    BY <1>1, <1>2

\* The starting sequence is reset.
LEMMA ResetLocalIs ==
    ASSUME NEW D, NEW x \in Leaders(D), NEW k \in Positive
    PROVE  ResetLocalStartingSeq(x, k) \in Leaders(D)
  <1>1. x \in LeaderType(D)
    BY LeaderIs
  <1>2. PICK e : e = Empty
    OBVIOUS
  <1>3. /\ e \in Maps(D, Positive) /\ e \in Maps(D, Counts) /\ DOMAIN e = {} /\ <<>> \in Seq(D)
        /\ k - 1 \in Nat /\ 1 \in Positive
    BY <1>2, EmptyIs DEF Positive
  <1>4. PICK y : y = [x EXCEPT !.pending = e, !.rdc = e, !.rdq = <<>>, !.sseq = k, !.dseq = 1,
                               !.adflr = 0, !.asflr = k - 1]
    OBVIOUS
  <1>5. y \in LeaderType(D) /\ y.pending = e /\ y.rdq = <<>>
    BY <1>1, <1>3, <1>4 DEF LeaderType
  <1>6. NoRepeats(<<>>) /\ ToSet(<<>>) = {}
    BY DEF NoRepeats, ToSet
  <1>7. Due(y)
    BY <1>3, <1>5, <1>6 DEF Due
  <1>8. QED
    BY <1>2, <1>4, <1>5, <1>7 DEF ResetLocalStartingSeq, Leaders

\* An entry is applied.
LEMMA ApplyEntryKeeps ==
    ASSUME DueInv, ApplyConsumerEntry
    PROVE  DueInv'
  <1>1. PICK D : D = Seqs
    OBVIOUS
  <1>2. /\ cfg \in Configs /\ cfg.maxdc \in Nat /\ Numbered(D) /\ lead \in Replica
        /\ o \in Leaders(D) /\ stores \in [Replica -> StoreType(D)]
        /\ phead \in [Replica -> Seq(OpType(D))] /\ disk \in StoreType(D)
    BY <1>1, ConfigIs DEF DueInv, KeptDue
  <1>3. /\ cfg' = cfg /\ lead' = lead /\ disk' = disk /\ last' = last /\ msgs' = msgs
        /\ terms' = terms /\ Seqs' = Seqs
    BY DEF ApplyConsumerEntry, streamVars, Seqs
  <1>4. PICK q : q = phead[lead]
    OBVIOUS
  <1>5. q \in Seq(OpType(D)) /\ q # <<>>
    BY <1>2, <1>4 DEF ApplyConsumerEntry
  <1>6. PICK p : p = Head(q)
    OBVIOUS
  <1>7. p \in OpType(D) /\ Tail(q) \in Seq(OpType(D))
    BY <1>5, <1>6
  <1>8. p.s \in Positive
    BY <1>7 DEF OpType
  <1>9. phead' \in [Replica -> Seq(OpType(D))]
    BY <1>2, <1>4, <1>7 DEF ApplyConsumerEntry
  <1>10. stores' \in [Replica -> StoreType(D)]
    <2>1. stores' = [r \in Replica |-> ApplyOp(stores[r], p)]
      BY <1>4, <1>6 DEF ApplyConsumerEntry
    <2>2. ASSUME NEW r \in Replica PROVE ApplyOp(stores[r], p) \in StoreType(D)
      BY <1>2, <1>7, ApplyOpIs
    <2>3. QED
      BY <2>1, <2>2
  <1>11. o' \in Leaders(D) /\ held' \subseteq D \X Nat
    <2>0. held \subseteq D \X Nat
      BY <1>1 DEF DueInv, TrafficDue
    <2>1. CASE p.op = "delivered" /\ p.s \in DOMAIN o.pd
      <3>1. o' = [o EXCEPT !.pd = Without(@, {p.s})] /\ held' = held \cup {<<p.s, o.pd[p.s]>>}
        BY <1>4, <1>6, <2>1 DEF ApplyConsumerEntry, SendMsg
      <3>2. Without(o.pd, {p.s}) \in Maps(D, Nat) /\ o.pd[p.s] \in Nat
        BY <1>2, <2>1, LeaderIs, WithoutOne
      <3>3. p.s \in D
        BY <1>7, <2>1 DEF OpType
      <3>4. o' \in Leaders(D)
        BY <1>2, <3>1, <3>2, LeaderFree
      <3>5. QED
        BY <2>0, <3>1, <3>2, <3>3, <3>4
    <2>2. CASE ~(p.op = "delivered" /\ p.s \in DOMAIN o.pd)
      <3>1. /\ o' = IF p.op = "reset" THEN ResetLocalStartingSeq(o, p.s) ELSE o
            /\ held' = held
        BY <1>4, <1>6, <2>2 DEF ApplyConsumerEntry
      <3>2. ResetLocalStartingSeq(o, p.s) \in Leaders(D)
        BY <1>2, <1>8, ResetLocalIs
      <3>3. QED
        BY <1>2, <2>0, <3>1, <3>2
    <2>3. QED
      BY <2>1, <2>2
  <1>12. KeptDue'
    BY <1>1, <1>2, <1>3, <1>9, <1>10, <1>11 DEF KeptDue
  <1>13. TrafficDue'
    BY <1>1, <1>3, <1>11 DEF DueInv, TrafficDue
  <1>14. QED
    BY <1>12, <1>13 DEF DueInv

\* Another leader.
LEMMA LeaderChangeKeeps ==
    ASSUME DueInv, LeaderChange
    PROVE  DueInv'
  <1>1. PICK D : D = Seqs
    OBVIOUS
  <1>2. /\ cfg \in Configs /\ cfg.maxdc \in Nat /\ Numbered(D) /\ lead \in Replica
        /\ stores \in [Replica -> StoreType(D)]
        /\ phead \in [Replica -> Seq(OpType(D))] /\ disk \in StoreType(D)
    BY <1>1, ConfigIs DEF DueInv, KeptDue
  <1>3. /\ cfg' = cfg /\ disk' = disk /\ UNCHANGED streamVars /\ held' = held
        /\ terms' = terms /\ Seqs' = Seqs
    BY DEF LeaderChange, clientVars, Seqs
  <1> DEFINE new == 3 - lead
             q == phead[lead]
  <1>4. PICK k \in 0 .. Len(q) : \E f \in k .. Len(q) :
          LET applied == [r \in Replica |-> ApplyOps(stores[r], SubSeq(q, 1, k))]
          IN  \E E \in SUBSET DOMAIN applied[new].pending :
                 LET w == TakeOver(applied[new], E)
                 IN  /\ lead' = new
                     /\ given' = given \cup w.up
                     /\ o' = w.o
                     /\ stores' = [applied EXCEPT ![new] = WriteStoreState(@, w)]
                     /\ phead' = [phead EXCEPT ![new] = @ \o w.ops,
                                               ![lead] = SubSeq(@, f + 1, Len(@))]
    BY Zenon DEF LeaderChange
  <1> DEFINE applied == [r \in Replica |-> ApplyOps(stores[r], SubSeq(q, 1, k))]
  <1>5. PICK f \in k .. Len(q) :
              \E E \in SUBSET DOMAIN applied[new].pending :
                 LET w == TakeOver(applied[new], E)
                 IN  /\ lead' = new
                     /\ given' = given \cup w.up
                     /\ o' = w.o
                     /\ stores' = [applied EXCEPT ![new] = WriteStoreState(@, w)]
                     /\ phead' = [phead EXCEPT ![new] = @ \o w.ops,
                                               ![lead] = SubSeq(@, f + 1, Len(@))]
    BY <1>4, Zenon
  <1>6. PICK E \in SUBSET DOMAIN applied[new].pending :
                 LET w == TakeOver(applied[new], E)
                 IN  /\ lead' = new
                     /\ given' = given \cup w.up
                     /\ o' = w.o
                     /\ stores' = [applied EXCEPT ![new] = WriteStoreState(@, w)]
                     /\ phead' = [phead EXCEPT ![new] = @ \o w.ops,
                                               ![lead] = SubSeq(@, f + 1, Len(@))]
    BY <1>5, Zenon
  <1>7. new \in Replica /\ new # lead
    BY <1>2 DEF Replica
  <1>8. q \in Seq(OpType(D)) /\ Len(q) \in Nat
    BY <1>2
  <1> HIDE DEF new, q
  <1>9. SubSeq(q, 1, k) \in Seq(OpType(D))
    <2>1. \A i \in 1 .. k : q[i] \in OpType(D)
      BY <1>8
    <2>2. QED
      BY <2>1
  <1>10. applied \in [Replica -> StoreType(D)]
    <2>1. PICK a : a = SubSeq(q, 1, k)
      OBVIOUS
    <2>2. ASSUME NEW r \in Replica PROVE ApplyOps(stores[r], a) \in StoreType(D)
      BY <1>2, <1>9, <2>1, ApplyOpsIs
    <2>3. applied = [r \in Replica |-> ApplyOps(stores[r], a)]
      BY <2>1
    <2>4. QED
      BY <2>2, <2>3
  <1> HIDE DEF applied
  <1>12. PICK w : w = TakeOver(applied[new], E)
    OBVIOUS
  <1>13. w \in Works(D)
    <2>1. applied[new] \in StoreType(D)
      BY <1>7, <1>10
    <2>2. E \in SUBSET D
      BY <2>1, StoreIs
    <2>3. QED
      BY <1>2, <1>12, <2>1, <2>2, TakeOverIs
  <1>14. w.o \in Leaders(D) /\ w.ops \in Seq(OpType(D))
    BY <1>13, WorkIs
  <1>15. /\ lead' = new /\ o' = w.o
         /\ stores' = [applied EXCEPT ![new] = WriteStoreState(@, w)]
         /\ phead' = [phead EXCEPT ![new] = @ \o w.ops, ![lead] = SubSeq(@, f + 1, Len(@))]
    BY <1>6, <1>12
  <1>16. stores' \in [Replica -> StoreType(D)]
    <2>1. WriteStoreState(applied[new], w) \in StoreType(D)
      BY <1>7, <1>10, <1>13, WriteIs
    <2>2. QED
      BY <1>10, <1>15, <2>1
  <1>17. phead' \in [Replica -> Seq(OpType(D))]
    <2>1. phead[new] \o w.ops \in Seq(OpType(D))
      BY <1>2, <1>7, <1>14
    <2>2. SubSeq(q, f + 1, Len(q)) \in Seq(OpType(D))
      <3>1. \A i \in f + 1 .. Len(q) : q[i] \in OpType(D)
        BY <1>8
      <3>2. QED
        BY <1>8, <3>1
    <2>3. phead' = [phead EXCEPT ![new] = phead[new] \o w.ops, ![lead] = SubSeq(q, f + 1, Len(q))]
      BY <1>2, <1>7, <1>15 DEF q
    <2>4. QED
      BY <1>2, <2>1, <2>2, <2>3
  <1>18. KeptDue'
    BY <1>1, <1>2, <1>3, <1>7, <1>14, <1>15, <1>16, <1>17 DEF KeptDue
  <1>19. TrafficDue'
    BY <1>3, TrafficKeeps DEF DueInv
  <1>20. QED
    BY <1>18, <1>19 DEF DueInv

\* The consumer is reset.
LEMMA ResetKeeps ==
    ASSUME DueInv, ResetStartingSeq
    PROVE  DueInv'
  <1>1. o \in Leaders(Seqs) /\ KeptDue
    BY DEF DueInv, KeptDue
  <1>2. o.asflr \in Nat /\ o.asflr + 1 \in Positive
    BY <1>1, LeaderIs DEF Positive
  <1>3. UNCHANGED streamVars /\ held' = held /\ terms' = terms
    BY DEF ResetStartingSeq, clientVars
  <1>4. CASE cfg.clustered
    <2>1. Op("reset", 0, o.asflr + 1, 0) \in OpType(Seqs)
      BY <1>2, CountIs, OpIs
    <2>2. Emit(Work(o), Op("reset", 0, o.asflr + 1, 0)) \in Works(Seqs)
      BY <1>1, <2>1, WorkStart, EmitIs
    <2>3. Store(Emit(Work(o), Op("reset", 0, o.asflr + 1, 0)))
      BY <1>4 DEF ResetStartingSeq
    <2>4. QED
      BY <1>3, <2>2, <2>3, StoreStep
  <1>5. CASE ~cfg.clustered
    <2>1. /\ o' = ResetLocalStartingSeq(o, o.asflr + 1)
          /\ stores' = [stores EXCEPT ![lead] = ResetStore(o.asflr)]
          /\ UNCHANGED <<cfg, lead, disk, phead, given>>
      BY <1>5 DEF ResetStartingSeq
    <2>2. o' \in Leaders(Seqs)
      BY <1>1, <1>2, <2>1, ResetLocalIs
    <2>3. ResetStore(o.asflr) \in StoreType(Seqs)
      BY <1>1, <1>2, StoreOthers DEF KeptDue
    <2>4. stores' \in [Replica -> StoreType(Seqs)]
      BY <1>1, <2>1, <2>3 DEF KeptDue
    <2>5. KeptDue' /\ cfg' = cfg
      BY <1>1, <2>1, <2>2, <2>4 DEF KeptDue, Seqs
    <2>6. QED
      BY <1>3, <2>5, TrafficKeeps DEF DueInv
  <1>6. QED
    BY <1>4, <1>5

\* The store is flushed.
LEMMA FlushKeeps ==
    ASSUME DueInv, Flush
    PROVE  DueInv'
  <1>1. /\ UNCHANGED <<cfg, o, lead, stores, phead, given>> /\ UNCHANGED streamVars
        /\ held' = held /\ terms' = terms /\ disk' = stores[lead]
    BY DEF Flush, clientVars
  <1>2. KeptDue' /\ cfg' = cfg
    BY <1>1 DEF DueInv, KeptDue, Seqs
  <1>3. QED
    BY <1>1, <1>2, TrafficKeeps DEF DueInv

\* The server is started again.
LEMMA RestartKeeps ==
    ASSUME DueInv, Restart
    PROVE  DueInv'
  <1>1. PICK D : D = Seqs
    OBVIOUS
  <1>2. /\ cfg \in Configs /\ cfg.maxdc \in Nat /\ Numbered(D) /\ lead \in Replica
        /\ stores \in [Replica -> StoreType(D)]
        /\ phead \in [Replica -> Seq(OpType(D))] /\ disk \in StoreType(D)
    BY <1>1, ConfigIs DEF DueInv, KeptDue
  <1>3. /\ cfg' = cfg /\ lead' = lead /\ phead' = phead /\ disk' = disk /\ UNCHANGED streamVars
        /\ held' = held /\ terms' \subseteq terms /\ Seqs' = Seqs
    BY DEF Restart, clientVars, Seqs
  <1>4. PICK E \in SUBSET DOMAIN disk.pending :
          LET w == TakeOver(disk, E)
          IN  /\ o' = w.o
              /\ stores' = [stores EXCEPT ![lead] =
                                WriteStoreState(ApplyOps(disk, Local(w.ops)), w)]
    BY DEF Restart
  <1>5. PICK w : w = TakeOver(disk, E)
    OBVIOUS
  <1>6. w \in Works(D)
    <2>1. E \in SUBSET D
      BY <1>2, StoreIs
    <2>2. QED
      BY <1>2, <1>5, <2>1, TakeOverIs
  <1>7. w.o \in Leaders(D) /\ w.ops \in Seq(OpType(D))
    BY <1>6, WorkIs
  <1>8. WriteStoreState(ApplyOps(disk, Local(w.ops)), w) \in StoreType(D)
    <2>1. Local(w.ops) \in Seq(OpType(D))
      BY <1>7, LocalIs
    <2>2. ApplyOps(disk, Local(w.ops)) \in StoreType(D)
      BY <1>2, <2>1, ApplyOpsIs
    <2>3. QED
      BY <1>6, <2>2, WriteIs
  <1>9. o' \in Leaders(D) /\ stores' \in [Replica -> StoreType(D)]
    BY <1>2, <1>4, <1>5, <1>7, <1>8
  <1>10. KeptDue'
    BY <1>1, <1>2, <1>3, <1>9 DEF KeptDue
  <1>11. QED
    BY <1>3, <1>10, TrafficKeeps DEF DueInv

\* Every step keeps the invariant.
LEMMA DueStep ==
    DueInv /\ [Next]_vars => DueInv'
  <1> SUFFICES ASSUME DueInv, [Next]_vars PROVE DueInv'
    OBVIOUS
  <1>1. CASE Stream
    BY <1>1, PublishKeeps, RemoveMsgKeeps, PurgeKeeps DEF Stream
  <1>2. CASE Gather
    BY <1>2, RedeliverKeeps, DeliverNextKeeps, ReachEndKeeps, InterestKeeps DEF Gather
  <1>3. CASE Answer
    BY <1>3, AnswerKeeps, DidNotDeliverKeeps DEF Answer
  <1>4. CASE Housekeeping
    BY <1>4, ProcessTermKeeps, TimerKeeps, AckMsgKeeps DEF Housekeeping
  <1>5. CASE Group
    BY <1>5, ApplyEntryKeeps, LeaderChangeKeeps, ResetKeeps, FlushKeeps, RestartKeeps DEF Group
  <1>6. CASE UNCHANGED vars
    BY <1>6 DEF vars, storeVars, streamVars, clientVars, DueInv, KeptDue, TrafficDue, Seqs
  <1>7. QED
    BY <1>1, <1>2, <1>3, <1>4, <1>5, <1>6 DEF Next

\* The invariant gives what the run checks.
LEMMA DueGives ==
    DueInv => RedeliveryDue
  <1> SUFFICES ASSUME DueInv PROVE RedeliveryDue
    OBVIOUS
  <1>1. o \in Leaders(Seqs) /\ cfg \in Configs /\ lead \in Replica
    BY DEF DueInv, KeptDue
  <1>2. TypeOK
    <2>1. /\ o.sseq \in Nat /\ o.dseq \in Nat /\ o.adflr \in Nat /\ o.asflr \in Nat
          /\ DOMAIN o.pending \subseteq Seqs /\ DOMAIN o.rdc \subseteq Seqs
          /\ \A s \in DOMAIN o.rdc : o.rdc[s] \in Counts
      BY <1>1, LeaderIs DEF Positive
    <2>2. last \in 0 .. cfg.n /\ msgs \subseteq 1 .. last
      BY DEF DueInv, TrafficDue
    <2>3. QED
      BY <1>1, <2>1, <2>2 DEF TypeOK, Counts
  <1>3. QueuedIsPending /\ TimerArmed
    BY <1>1, LeaderIs DEF QueuedIsPending, TimerArmed
  <1>4. QED
    BY <1>2, <1>3 DEF RedeliveryDue

(***************************************************************************)
(* For every configuration, with any number of faults of any kind, only    *)
(* what is pending is queued for redelivery (addToRedeliverQueue,          *)
(* removeFromRedeliverQueue), the timer o.ptmr is armed while anything is  *)
(* pending, and the counts of deliveries stay within their width.          *)
(***************************************************************************)
THEOREM ConsumerRedeliveryDue ==
    Spec => []RedeliveryDue
  <1>1. Init => DueInv
    BY DueInit
  <1>2. DueInv /\ [Next]_vars => DueInv'
    BY DueStep
  <1>3. DueInv => RedeliveryDue
    BY DueGives
  <1>4. QED
    BY <1>1, <1>2, <1>3, PTL DEF Spec
=============================================================================
